----------------------------- MODULE UserFreeze -----------------------------
(***************************************************************************)
(* The payment freeze of one user at the granularity of row locks.         *)
(*                                                                         *)
(* BillingReservation treats a transaction as one step.  That is right for *)
(* what the transaction's row locks protect, but the search for other open *)
(* liabilities is an unlocked COUNT.  This module splits the transactions  *)
(* that freeze and release a user at the statements where they can be      *)
(* overtaken: the lock of their own row (the reservation or the debt), the *)
(* lock of the user row, the COUNTs, and the commit.  Writes become        *)
(* visible to other transactions at the commit; a locking read sees the    *)
(* last committed row (PostgreSQL and MySQL; on SQLite writers are serial).*)
(***************************************************************************)
EXTENDS Integers

CONSTANTS
    Reservations, Debts,    \* liabilities the user may incur
    WalletMovers,           \* liabilities whose finalization moves the wallet
                            \*  and so locks the user row early
    MaxRaises,              \* bound: times a liability is raised
    MaxManual               \* bound: administrator operations

Liabilities == Reservations \cup Debts
NoTx == "none"
Manual == "manual"          \* the administrator's transaction
Status == {"enabled", "disabled"}

ASSUME LiabilityAssumption ==
    /\ WalletMovers \subseteq Liabilities
    /\ Reservations \cap Debts = {}
    /\ NoTx \notin Liabilities /\ Manual \notin Liabilities
    /\ MaxRaises \in Nat /\ MaxManual \in Nat

VARIABLES
    user,           \* users.status, users.payment_frozen (committed)
    liab,           \* the liabilities (committed)
    tx,             \* the transaction that holds each liability's row lock
    userLock,       \* the transaction that holds the user's row lock
    admin,          \* the administrator's operation in progress
    raises, manuals,
    forbidden,      \* an administrator disabled the unfrozen user and none enabled it
    overtaken,      \* history: a liability opened behind the count of a release
    crossed         \* history: a liability closed that another had counted as open

vars == <<user, liab, tx, userLock, admin, raises, manuals, forbidden, overtaken, crossed>>

-----------------------------------------------------------------------------
UserRow == [status : Status, frozen : BOOLEAN]
LiabilityRow == [state : {"none", "open", "closed"}, prev : Status]
TxState ==
    [pc : {"idle", "raise", "raise_write", "resolve", "check", "lock_user",
           "release", "leave"},
     prev : Status]
AdminState == [pc : {"idle", "enable_check", "enable_write", "update_write"},
               status : Status]

TypeOK ==
    /\ user \in UserRow
    /\ liab \in [Liabilities -> LiabilityRow]
    /\ tx \in [Liabilities -> TxState]
    /\ userLock \in Liabilities \cup {NoTx, Manual}
    /\ admin \in AdminState
    /\ raises \in [Liabilities -> 0..MaxRaises]
    /\ manuals \in 0..MaxManual
    /\ forbidden \in BOOLEAN /\ overtaken \in BOOLEAN /\ crossed \in BOOLEAN

Idle == [pc |-> "idle", prev |-> "enabled"]

Init ==
    /\ user = [status |-> "enabled", frozen |-> FALSE]
    /\ liab = [l \in Liabilities |-> [state |-> "none", prev |-> "enabled"]]
    /\ tx = [l \in Liabilities |-> Idle]
    /\ userLock = NoTx
    /\ admin = [pc |-> "idle", status |-> "enabled"]
    /\ raises = [l \in Liabilities |-> 0]
    /\ manuals = 0
    /\ forbidden = FALSE /\ overtaken = FALSE /\ crossed = FALSE

-----------------------------------------------------------------------------
Open(l) == liab[l].state = "open"

\* Mutant of OtherOpen: the liability being closed is counted as well.
OtherOpenCountsItself(l) == Open(l) \/ \E k \in Liabilities \ {l} : Open(k)

\* Mutant of OtherOpen: debts are not counted.
OtherOpenReservations(l) == \E k \in Reservations \ {l} : Open(k)

\* hasOpenUserPaymentFreezeTx inside the transaction of l, which has closed l.
OtherOpen(l) == \E k \in Liabilities \ {l} : Open(k)

\* Mutant of PreviousStatus: whoever is frozen was enabled before.
PreviousStatusAssumed == "enabled"

\* paymentFreezePreviousUserStatusTx
PreviousStatus ==
    IF user.frozen /\ \E k \in Liabilities : Open(k) /\ liab[k].prev = "enabled"
    THEN "enabled" ELSE user.status

\* A row lock is granted to a transaction that holds it already.
LockUser(t) == userLock \in {NoTx, t} /\ userLock' = t
UnlockUser(t) == userLock' = IF userLock = t THEN NoTx ELSE userLock

\* Another transaction has counted the open liabilities and not yet committed.
OtherAt(l, pcs) == \E k \in Liabilities \ {l} : tx[k].pc \in pcs

Goto(l, pc) == tx' = [tx EXCEPT ![l].pc = pc]

-----------------------------------------------------------------------------
(* Raising a liability: MarkBillingReservationSettlementShortfall on a      *)
(* reservation, addPaymentDebtTx on a debt.                                 *)

\* A finalized reservation takes no new shortfall; a resolved debt reopens.
RaiseBegin(l) ==
    /\ tx[l].pc = "idle" /\ raises[l] < MaxRaises
    /\ liab[l].state = "closed" => l \in Debts
    /\ raises' = [raises EXCEPT ![l] = @ + 1]
    /\ Goto(l, "raise")
    /\ UNCHANGED <<user, liab, userLock, admin, manuals, forbidden, overtaken, crossed>>

\* The user row is locked, then the previous status read.  A debt that is open
\* already keeps the status it remembers.
RaiseLockUser(l) ==
    /\ tx[l].pc = "raise"
    /\ LockUser(l)
    /\ tx' = [tx EXCEPT ![l] =
         [pc |-> "raise_write",
          prev |-> IF l \in Debts /\ Open(l) THEN liab[l].prev ELSE PreviousStatus]]
    /\ UNCHANGED <<user, liab, admin, raises, manuals, forbidden, overtaken, crossed>>

RaiseCommit(l) ==
    /\ tx[l].pc = "raise_write"
    /\ liab' = [liab EXCEPT ![l] = [state |-> "open", prev |-> tx[l].prev]]
    /\ user' = [status |-> "disabled", frozen |-> TRUE]
    /\ UnlockUser(l)
    /\ tx' = [tx EXCEPT ![l] = Idle]
    /\ overtaken' = (overtaken \/ OtherAt(l, {"lock_user"}))
    /\ UNCHANGED <<admin, raises, manuals, forbidden, crossed>>

-----------------------------------------------------------------------------
(* Resolving a liability: settleBillingReservationTx and                    *)
(* refundBillingReservationTx on a reservation, resolvePaymentDebtQuotaTx,  *)
(* restorePaymentDebtAmountTx and the administrator's debt resolution.      *)

ResolveBegin(l) ==
    /\ tx[l].pc = "idle" /\ Open(l)
    /\ Goto(l, IF l \in WalletMovers THEN "resolve" ELSE "check")
    /\ UNCHANGED <<user, liab, userLock, admin, raises, manuals, forbidden, overtaken, crossed>>

\* The conditional UPDATE of the user's quota.
ResolveMoveWallet(l) ==
    /\ tx[l].pc = "resolve"
    /\ LockUser(l)
    /\ Goto(l, "check")
    /\ UNCHANGED <<user, liab, admin, raises, manuals, forbidden, overtaken, crossed>>

\* releaseUserPaymentFreezeTx counts before it locks the user row.
ReleaseCheck(l) ==
    /\ tx[l].pc = "check"
    /\ Goto(l, IF OtherOpen(l) THEN "leave" ELSE "lock_user")
    /\ UNCHANGED <<user, liab, userLock, admin, raises, manuals, forbidden, overtaken, crossed>>

ReleaseLockUser(l) ==
    /\ tx[l].pc = "lock_user"
    /\ LockUser(l)
    /\ Goto(l, "release")
    /\ UNCHANGED <<user, liab, admin, raises, manuals, forbidden, overtaken, crossed>>

ReleasedUser(prev) ==
    IF ~user.frozen THEN user
    ELSE [status |-> IF prev = "enabled" THEN "enabled" ELSE user.status,
          frozen |-> FALSE]

ResolveCommit(l) ==
    /\ tx[l].pc \in {"release", "leave"}
    /\ liab' = [liab EXCEPT ![l].state = "closed"]
    /\ user' = IF tx[l].pc = "release" THEN ReleasedUser(liab[l].prev) ELSE user
    /\ UnlockUser(l)
    /\ tx' = [tx EXCEPT ![l] = Idle]
    /\ crossed' = (crossed \/ OtherAt(l, {"leave"}))
    /\ UNCHANGED <<admin, raises, manuals, forbidden, overtaken>>

-----------------------------------------------------------------------------
(* ManageUser                                                              *)

\* Mutant of EnableLockUser: the user row is read without FOR UPDATE.
EnableReadUser ==
    /\ admin.pc = "idle" /\ manuals < MaxManual
    /\ userLock' = userLock
    /\ admin' = [admin EXCEPT !.pc = "enable_check"]
    /\ manuals' = manuals + 1
    /\ UNCHANGED <<user, liab, tx, raises, forbidden, overtaken, crossed>>

\* EnableUserIfNoPaymentFreeze locks the user row before it counts.
EnableLockUser ==
    /\ admin.pc = "idle" /\ manuals < MaxManual
    /\ LockUser(Manual)
    /\ admin' = [admin EXCEPT !.pc = "enable_check"]
    /\ manuals' = manuals + 1
    /\ UNCHANGED <<user, liab, tx, raises, forbidden, overtaken, crossed>>

EnableCheck ==
    /\ admin.pc = "enable_check"
    /\ IF \E l \in Liabilities : Open(l)
       THEN admin' = [admin EXCEPT !.pc = "idle"] /\ UnlockUser(Manual)
       ELSE admin' = [admin EXCEPT !.pc = "enable_write"] /\ UNCHANGED userLock
    /\ UNCHANGED <<user, liab, tx, raises, manuals, forbidden, overtaken, crossed>>

EnableCommit ==
    /\ admin.pc = "enable_write"
    /\ user' = [status |-> "enabled", frozen |-> FALSE]
    /\ forbidden' = FALSE
    /\ UnlockUser(Manual)
    /\ admin' = [admin EXCEPT !.pc = "idle"]
    /\ UNCHANGED <<liab, tx, raises, manuals, overtaken, crossed>>

\* "disable", "promote" and "demote" read the row without a lock, and
\* User.UpdateWithTx later writes every column of what was read except
\* payment_frozen.
UpdateRead(disable) ==
    /\ admin.pc = "idle" /\ manuals < MaxManual
    /\ admin' = [pc |-> "update_write",
                 status |-> IF disable THEN "disabled" ELSE user.status]
    /\ manuals' = manuals + 1
    /\ UNCHANGED <<user, liab, tx, userLock, raises, forbidden, overtaken, crossed>>

UpdateWithTx ==
    /\ admin.pc = "update_write"
    /\ userLock = NoTx
    /\ user' = [user EXCEPT !.status = admin.status]
    /\ forbidden' = (forbidden \/ (admin.status = "disabled" /\ ~user.frozen))
    /\ admin' = [admin EXCEPT !.pc = "idle"]
    /\ UNCHANGED <<liab, tx, userLock, raises, manuals, overtaken, crossed>>

-----------------------------------------------------------------------------
LiabilityStep(l) ==
    \/ RaiseBegin(l) \/ RaiseLockUser(l) \/ RaiseCommit(l)
    \/ ResolveBegin(l) \/ ResolveMoveWallet(l)
    \/ ReleaseCheck(l) \/ ReleaseLockUser(l) \/ ResolveCommit(l)

AdminStep ==
    \/ EnableLockUser \/ EnableCheck \/ EnableCommit
    \/ \E disable \in BOOLEAN : UpdateRead(disable)
    \/ UpdateWithTx

Next == (\E l \in Liabilities : LiabilityStep(l)) \/ AdminStep

Spec == Init /\ [][Next]_vars

-----------------------------------------------------------------------------
(* Properties                                                              *)

\* middleware/auth.go lets a user in who is enabled and not frozen.
MayAuthenticate == user.status = "enabled" /\ ~user.frozen

\* A user with an open shortfall or debt cannot use the API.  (Violated: a release
\* is overtaken.)
BlockedWhileLiable == (\E l \in Liabilities : Open(l)) => ~MayAuthenticate

\* The one hole in it: until a liability is raised and committed between the count
\* of a release (releaseUserPaymentFreezeTx) and its commit, a user with an open
\* liability is kept out, whatever else overlaps.
BlockedUnlessOvertaken == ~overtaken => BlockedWhileLiable

\* Once every liability is closed and no transaction is under way, the freeze is
\* gone, unless two resolutions crossed: one committed after the other had counted
\* it as open, and before the other's commit.
ReleasedUnlessCrossed ==
    ~crossed /\ (\A l \in Liabilities : ~Open(l) /\ tx[l].pc = "idle") => ~user.frozen

\* An account that was disabled while it was not frozen stays disabled until an
\* administrator enables it, whatever freezes come and go in between: each
\* liability hands on the status it found (paymentFreezePreviousUserStatusTx).
\* It takes an overtaken release, which leaves a liability open on an account that
\* is not frozen, to undo it.  A "disable" of a frozen account does not last: the
\* release undoes it.
DisableOutlivesFreeze ==
    ~overtaken /\ forbidden /\ admin.pc = "idle" => user.status = "disabled"

\* A manual "enable" commits only while no liability is open: it takes the user
\* lock before it counts, and no liability can open without that lock.
ManualEnableIsSafe ==
    [][EnableCommit => \A l \in Liabilities : ~Open(l)]_vars

=============================================================================
