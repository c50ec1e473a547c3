-------------------------- MODULE UserFreezeProofs --------------------------
(***************************************************************************)
(* What the row locks of the payment freeze guarantee, for every set of    *)
(* liabilities.  The argument is about who holds the user row: a liability *)
(* opens only under that lock, so what is counted under it stays counted.  *)
(***************************************************************************)
EXTENDS UserFreeze, TLAPS

-----------------------------------------------------------------------------
(* The type invariant                                                      *)

\* The initial state of the freeze is well typed.
LEMMA InitTypeOK == Init => TypeOK
<1> SUFFICES ASSUME Init PROVE TypeOK
    OBVIOUS
<1>1. 0 \in 0..MaxRaises /\ 0 \in 0..MaxManual
    BY LiabilityAssumption
<1> QED
    BY <1>1, Zenon
    DEF Init, TypeOK, UserRow, LiabilityRow, TxState, AdminState, Status, Idle

\* A transaction that raises a liability keeps every row well typed.
LEMMA RaiseTypeOK ==
    ASSUME TypeOK, NEW l \in Liabilities,
           RaiseBegin(l) \/ RaiseLockUser(l) \/ RaiseCommit(l)
    PROVE  TypeOK'
<1> USE LiabilityAssumption DEF TypeOK, UserRow, LiabilityRow, TxState, Status
<1>1. CASE RaiseBegin(l)
    BY <1>1 DEF RaiseBegin, Goto
<1>2. CASE RaiseLockUser(l)
    <2>1. PreviousStatus \in Status
        BY DEF PreviousStatus
    <2> QED BY <1>2, <2>1 DEF RaiseLockUser, LockUser
<1>3. CASE RaiseCommit(l)
    BY <1>3 DEF RaiseCommit, UnlockUser, Idle, NoTx
<1> QED BY <1>1, <1>2, <1>3

\* A transaction that resolves a liability keeps every row well typed.
LEMMA ResolveTypeOK ==
    ASSUME TypeOK, NEW l \in Liabilities,
           \/ ResolveBegin(l) \/ ResolveMoveWallet(l) \/ ReleaseCheck(l)
           \/ ReleaseLockUser(l) \/ ResolveCommit(l)
    PROVE  TypeOK'
<1> USE LiabilityAssumption DEF TypeOK, UserRow, LiabilityRow, TxState, Status
<1>1. CASE ResolveBegin(l)
    BY <1>1 DEF ResolveBegin, Goto
<1>2. CASE ResolveMoveWallet(l)
    BY <1>2 DEF ResolveMoveWallet, Goto, LockUser
<1>3. CASE ReleaseCheck(l)
    BY <1>3 DEF ReleaseCheck, Goto
<1>4. CASE ReleaseLockUser(l)
    BY <1>4 DEF ReleaseLockUser, Goto, LockUser
<1>5. CASE ResolveCommit(l)
    BY <1>5 DEF ResolveCommit, ReleasedUser, UnlockUser, Idle, NoTx
<1> QED BY <1>1, <1>2, <1>3, <1>4, <1>5

\* The administrator's operations keep every row well typed.
LEMMA AdminTypeOK == TypeOK /\ AdminStep => TypeOK'
<1> SUFFICES ASSUME TypeOK, AdminStep PROVE TypeOK'
    OBVIOUS
<1> USE LiabilityAssumption DEF TypeOK, UserRow, AdminState, Status
<1>1. CASE EnableLockUser
    BY <1>1 DEF EnableLockUser, LockUser
<1>2. CASE EnableCheck
    BY <1>2 DEF EnableCheck, UnlockUser
<1>3. CASE EnableCommit
    BY <1>3 DEF EnableCommit, UnlockUser
<1>4. ASSUME NEW disable \in BOOLEAN, UpdateRead(disable) PROVE TypeOK'
    BY <1>4 DEF UpdateRead
<1>5. CASE UpdateWithTx
    BY <1>5 DEF UpdateWithTx
<1> QED BY <1>1, <1>2, <1>3, <1>4, <1>5 DEF AdminStep

\* Every step of every transaction keeps the state well typed.
LEMMA StepTypeOK == TypeOK /\ [Next]_vars => TypeOK'
<1> SUFFICES ASSUME TypeOK, [Next]_vars PROVE TypeOK'
    OBVIOUS
<1>1. ASSUME NEW l \in Liabilities, LiabilityStep(l) PROVE TypeOK'
    BY <1>1, RaiseTypeOK, ResolveTypeOK DEF LiabilityStep
<1>2. CASE AdminStep
    BY <1>2, AdminTypeOK
<1>3. CASE UNCHANGED vars
    BY <1>3 DEF vars, TypeOK
<1> QED BY <1>1, <1>2, <1>3 DEF Next

\* Every reachable state of the freeze is well typed.
THEOREM TypeCorrect == Spec => []TypeOK
BY InitTypeOK, StepTypeOK, PTL DEF Spec

-----------------------------------------------------------------------------
(* The locks                                                               *)

\* Whoever is about to write the user row holds its lock; whoever resolves a
\* liability holds its row, so the liability stays open; and what a manual
\* "enable" has counted under the user's lock is still so.
LockInv ==
    /\ \A l \in Liabilities :
        /\ tx[l].pc \in {"raise_write", "release"} => userLock = l
        /\ tx[l].pc \in {"resolve", "check", "lock_user", "release", "leave"} => Open(l)
    /\ admin.pc \in {"enable_check", "enable_write"} => userLock = Manual
    /\ admin.pc = "enable_write" => \A l \in Liabilities : ~Open(l)

\* The initial state has no transaction under way.
LEMMA InitLockInv == Init => LockInv
BY DEF Init, LockInv, Idle

\* No transaction on a liability disturbs another one's locks, or the count of a
\* manual "enable".
LEMMA LiabilityLockInv ==
    ASSUME TypeOK, LockInv, NEW l \in Liabilities, LiabilityStep(l)
    PROVE  LockInv'
<1> USE LiabilityAssumption DEF TypeOK, TxState, LiabilityRow, LockInv, Open
<1>1. CASE RaiseBegin(l)
    BY <1>1 DEF RaiseBegin, Goto
<1>2. CASE RaiseLockUser(l)
    BY <1>2 DEF RaiseLockUser, LockUser, NoTx, Manual
<1>3. CASE RaiseCommit(l)
    BY <1>3 DEF RaiseCommit, UnlockUser, Idle, NoTx, Manual
<1>4. CASE ResolveBegin(l)
    BY <1>4 DEF ResolveBegin, Goto
<1>5. CASE ResolveMoveWallet(l)
    BY <1>5 DEF ResolveMoveWallet, Goto, LockUser, NoTx, Manual
<1>6. CASE ReleaseCheck(l)
    BY <1>6 DEF ReleaseCheck, Goto
<1>7. CASE ReleaseLockUser(l)
    BY <1>7 DEF ReleaseLockUser, Goto, LockUser, NoTx, Manual
<1>8. CASE ResolveCommit(l)
    BY <1>8 DEF ResolveCommit, UnlockUser, Idle, NoTx, Manual
<1> QED
    BY <1>1, <1>2, <1>3, <1>4, <1>5, <1>6, <1>7, <1>8 DEF LiabilityStep

\* Nor does the administrator.
LEMMA AdminLockInv ==
    ASSUME TypeOK, LockInv, AdminStep
    PROVE  LockInv'
<1> USE LiabilityAssumption DEF TypeOK, AdminState, LockInv, Open
<1>1. CASE EnableLockUser
    BY <1>1 DEF EnableLockUser, LockUser, NoTx, Manual
<1>2. CASE EnableCheck
    BY <1>2 DEF EnableCheck, UnlockUser, Manual
<1>3. CASE EnableCommit
    BY <1>3 DEF EnableCommit, UnlockUser, Manual
<1>4. ASSUME NEW disable \in BOOLEAN, UpdateRead(disable) PROVE LockInv'
    BY <1>4 DEF UpdateRead
<1>5. CASE UpdateWithTx
    BY <1>5 DEF UpdateWithTx
<1> QED BY <1>1, <1>2, <1>3, <1>4, <1>5 DEF AdminStep

\* The locks hold in every reachable state.
LEMMA LocksHeld == Spec => []LockInv
<1>1. TypeOK /\ LockInv /\ [Next]_vars => LockInv'
    <2> SUFFICES ASSUME TypeOK, LockInv, [Next]_vars PROVE LockInv'
        OBVIOUS
    <2>1. CASE UNCHANGED vars
        BY <2>1 DEF vars, LockInv, Open
    <2> QED BY <2>1, LiabilityLockInv, AdminLockInv DEF Next
<1> QED BY <1>1, TypeCorrect, InitLockInv, PTL DEF Spec

\* A manual "enable" never lifts the freeze of a user with an open shortfall or
\* debt, however many liabilities are raised and resolved around it
\* (EnableUserIfNoPaymentFreeze locks the user row before it counts).
THEOREM ManualEnableSafe == Spec => ManualEnableIsSafe
<1>1. LockInv /\ [Next]_vars => [EnableCommit => \A l \in Liabilities : ~Open(l)]_vars
    BY DEF LockInv, EnableCommit
<1> QED BY <1>1, LocksHeld, PTL DEF Spec, ManualEnableIsSafe

-----------------------------------------------------------------------------
(* The release of the freeze and its two holes                             *)

\* What a release counted is true until a liability is raised behind its back:
\* then nobody is open whom the freeze does not cover.
BlockedInv ==
    ~overtaken =>
        /\ \A l \in Liabilities : tx[l].pc \in {"lock_user", "release"} => ~OtherOpen(l)
        /\ (\E l \in Liabilities : Open(l)) => user.frozen

\* Whoever leaves the freeze to another liability can rely on it until that one
\* is closed behind its back: then the freeze always has a cause.
ReleasedInv ==
    ~crossed =>
        /\ \A l \in Liabilities : tx[l].pc = "leave" => OtherOpen(l)
        /\ user.frozen => \E l \in Liabilities : Open(l)

\* Initially no liability is open and nobody is frozen.
LEMMA InitFreezeInv == Init => BlockedInv /\ ReleasedInv
BY DEF Init, BlockedInv, ReleasedInv, Idle, Open

\* Only a liability that is raised between count and lock leaves an open
\* liability without a freeze.
LEMMA LiabilityBlockedInv ==
    ASSUME TypeOK, LockInv, BlockedInv, NEW l \in Liabilities, LiabilityStep(l)
    PROVE  BlockedInv'
<1> USE LiabilityAssumption
    DEF TypeOK, UserRow, TxState, LiabilityRow, BlockedInv, Open, OtherOpen
<1>1. CASE RaiseBegin(l)
    BY <1>1 DEF RaiseBegin, Goto
<1>2. CASE RaiseLockUser(l)
    BY <1>2 DEF RaiseLockUser
<1>3. CASE RaiseCommit(l)
    <2>1. userLock = l /\ \A k \in Liabilities \ {l} : tx[k].pc # "release"
        BY <1>3 DEF RaiseCommit, LockInv
    <2> QED BY <1>3, <2>1 DEF RaiseCommit, OtherAt, Idle
<1>4. CASE ResolveBegin(l)
    BY <1>4 DEF ResolveBegin, Goto
<1>5. CASE ResolveMoveWallet(l)
    BY <1>5 DEF ResolveMoveWallet, Goto
<1>6. CASE ReleaseCheck(l)
    BY <1>6 DEF ReleaseCheck, Goto
<1>7. CASE ReleaseLockUser(l)
    BY <1>7 DEF ReleaseLockUser, Goto
<1>8. CASE ResolveCommit(l)
    BY <1>8 DEF ResolveCommit, ReleasedUser, Idle
<1> QED
    BY <1>1, <1>2, <1>3, <1>4, <1>5, <1>6, <1>7, <1>8 DEF LiabilityStep

\* Only resolutions that cross leave a freeze without a cause.
LEMMA LiabilityReleasedInv ==
    ASSUME TypeOK, LockInv, ReleasedInv, NEW l \in Liabilities, LiabilityStep(l)
    PROVE  ReleasedInv'
<1> USE LiabilityAssumption
    DEF TypeOK, UserRow, TxState, LiabilityRow, ReleasedInv, Open, OtherOpen
<1>1. CASE RaiseBegin(l)
    BY <1>1 DEF RaiseBegin, Goto
<1>2. CASE RaiseLockUser(l)
    BY <1>2 DEF RaiseLockUser
<1>3. CASE RaiseCommit(l)
    BY <1>3 DEF RaiseCommit, Idle
<1>4. CASE ResolveBegin(l)
    BY <1>4 DEF ResolveBegin, Goto
<1>5. CASE ResolveMoveWallet(l)
    BY <1>5 DEF ResolveMoveWallet, Goto
<1>6. CASE ReleaseCheck(l)
    BY <1>6 DEF ReleaseCheck, Goto
<1>7. CASE ReleaseLockUser(l)
    BY <1>7 DEF ReleaseLockUser, Goto
<1>8. CASE ResolveCommit(l)
    BY <1>8 DEF ResolveCommit, ReleasedUser, OtherAt, Idle
<1> QED
    BY <1>1, <1>2, <1>3, <1>4, <1>5, <1>6, <1>7, <1>8 DEF LiabilityStep

\* An administrator's operation never touches a freeze it may not touch.
LEMMA AdminFreezeInv ==
    ASSUME TypeOK, LockInv, BlockedInv, ReleasedInv, AdminStep
    PROVE  BlockedInv' /\ ReleasedInv'
<1> USE LiabilityAssumption
    DEF TypeOK, UserRow, BlockedInv, ReleasedInv, Open, OtherOpen
<1>1. CASE EnableLockUser
    BY <1>1 DEF EnableLockUser
<1>2. CASE EnableCheck
    BY <1>2 DEF EnableCheck
<1>3. CASE EnableCommit
    BY <1>3 DEF EnableCommit, LockInv
<1>4. ASSUME NEW disable \in BOOLEAN, UpdateRead(disable) PROVE BlockedInv' /\ ReleasedInv'
    BY <1>4 DEF UpdateRead
<1>5. CASE UpdateWithTx
    BY <1>5 DEF UpdateWithTx
<1> QED BY <1>1, <1>2, <1>3, <1>4, <1>5 DEF AdminStep

\* The freeze is exact up to its two holes, in every reachable state.
LEMMA FreezeExactUpToHoles == Spec => [](BlockedInv /\ ReleasedInv)
<1>1. TypeOK /\ LockInv /\ BlockedInv /\ ReleasedInv /\ [Next]_vars
        => BlockedInv' /\ ReleasedInv'
    <2> SUFFICES ASSUME TypeOK, LockInv, BlockedInv, ReleasedInv, [Next]_vars
                 PROVE  BlockedInv' /\ ReleasedInv'
        OBVIOUS
    <2>1. CASE UNCHANGED vars
        BY <2>1 DEF vars, BlockedInv, ReleasedInv, Open, OtherOpen
    <2> QED
        BY <2>1, LiabilityBlockedInv, LiabilityReleasedInv, AdminFreezeInv DEF Next
<1> QED BY <1>1, TypeCorrect, LocksHeld, InitFreezeInv, PTL DEF Spec

\* For any set of reservations and debts, whichever of them move the wallet: a
\* user with an open liability is kept out unless one was raised between the count
\* and the lock of a release (releaseUserPaymentFreezeTx): that order of two
\* statements is the only way to use the API while liable.
THEOREM LiableIsBlocked == Spec => []BlockedUnlessOvertaken
<1>1. BlockedInv => BlockedUnlessOvertaken
    BY DEF BlockedInv, BlockedUnlessOvertaken, BlockedWhileLiable, MayAuthenticate
<1> QED BY <1>1, FreezeExactUpToHoles, PTL

\* For the same liabilities: nobody whose shortfalls and debts are all closed is
\* left frozen, unless two resolutions crossed, each with the other's row still
\* open in its count.
THEOREM NobodyIsLeftFrozen == Spec => []ReleasedUnlessCrossed
<1>1. ReleasedInv => ReleasedUnlessCrossed
    BY DEF ReleasedInv, ReleasedUnlessCrossed
<1> QED BY <1>1, FreezeExactUpToHoles, PTL

-----------------------------------------------------------------------------
(* The status a freeze hands back                                          *)

\* While an account is forbidden, every place from which its status can be
\* written holds "disabled": the liabilities that remember it, the transactions
\* that are about to remember it, and the administrator's copy of the row.
ForbiddenInv ==
    ~overtaken /\ forbidden =>
        /\ user.status = "disabled"
        /\ \A l \in Liabilities : Open(l) => liab[l].prev = "disabled"
        /\ \A l \in Liabilities :
             tx[l].pc = "raise_write" => tx[l].prev = "disabled"
        /\ admin.pc = "update_write" => admin.status = "disabled"

\* A liability's transaction passes the status "disabled" on.
LEMMA LiabilityForbiddenInv ==
    ASSUME TypeOK, LockInv, BlockedInv, ForbiddenInv,
           NEW l \in Liabilities, LiabilityStep(l)
    PROVE  ForbiddenInv'
<1> SUFFICES ASSUME forbidden', ~overtaken'
             PROVE  ForbiddenInv'
    BY DEF ForbiddenInv
<1>0. overtaken' = overtaken \/ RaiseCommit(l)
    BY DEF LiabilityStep, RaiseBegin, RaiseLockUser, ResolveBegin, ResolveMoveWallet,
           ReleaseCheck, ReleaseLockUser, ResolveCommit
<1>1. forbidden /\ ~overtaken /\ UNCHANGED admin
    <2>1. ~overtaken
        BY <1>0, Zenon DEF RaiseCommit
    <2>2. forbidden /\ UNCHANGED admin
        BY DEF LiabilityStep, RaiseBegin, RaiseLockUser, RaiseCommit, ResolveBegin,
           ResolveMoveWallet, ReleaseCheck, ReleaseLockUser, ResolveCommit
    <2> QED BY <2>1, <2>2
<1>a. /\ user.status = "disabled"
      /\ \A k \in Liabilities : Open(k) => liab[k].prev = "disabled"
      /\ \A k \in Liabilities :
           tx[k].pc = "raise_write" => tx[k].prev = "disabled"
      /\ admin.pc = "update_write" => admin.status = "disabled"
    BY <1>1 DEF ForbiddenInv
<1> USE DEF TypeOK, UserRow, TxState, LiabilityRow, ForbiddenInv, Open
<1>2. CASE RaiseBegin(l)
    BY <1>1, <1>a, <1>2 DEF RaiseBegin, Goto
<1>3. CASE RaiseLockUser(l)
    <2>1. PreviousStatus = "disabled"
        BY <1>a DEF PreviousStatus
    <2>2. (IF l \in Debts /\ Open(l) THEN liab[l].prev ELSE PreviousStatus)
            = "disabled"
        BY <1>a, <2>1
    <2> QED BY <1>1, <1>a, <1>3, <2>2 DEF RaiseLockUser
<1>4. CASE RaiseCommit(l)
    BY <1>1, <1>a, <1>4 DEF RaiseCommit, Idle
<1>5. CASE ResolveBegin(l)
    BY <1>1, <1>a, <1>5 DEF ResolveBegin, Goto
<1>6. CASE ResolveMoveWallet(l)
    BY <1>1, <1>a, <1>6 DEF ResolveMoveWallet, Goto
<1>7. CASE ReleaseCheck(l)
    BY <1>1, <1>a, <1>7 DEF ReleaseCheck, Goto
<1>8. CASE ReleaseLockUser(l)
    BY <1>1, <1>a, <1>8 DEF ReleaseLockUser, Goto
<1>9. CASE ResolveCommit(l)
    <2>1. liab[l].prev = "disabled"
        BY <1>a, <1>9 DEF LockInv, ResolveCommit
    <2>2. user'.status = "disabled"
        BY <1>a, <1>9, <2>1 DEF ResolveCommit, ReleasedUser
    <2> QED BY <1>1, <1>a, <1>9, <2>2 DEF ResolveCommit, Idle
<1> QED
    BY <1>2, <1>3, <1>4, <1>5, <1>6, <1>7, <1>8, <1>9 DEF LiabilityStep

\* An account becomes forbidden while nothing remembers another status: it is
\* not frozen, so no liability is open, and UpdateWithTx waits for the user row,
\* so no transaction is about to open one.
LEMMA AdminForbiddenInv ==
    ASSUME TypeOK, LockInv, BlockedInv, ForbiddenInv, AdminStep
    PROVE  ForbiddenInv'
<1> USE LiabilityAssumption DEF TypeOK, UserRow, AdminState, ForbiddenInv, Open
<1>1. CASE EnableLockUser
    BY <1>1 DEF EnableLockUser
<1>2. CASE EnableCheck
    BY <1>2 DEF EnableCheck
<1>3. CASE EnableCommit
    BY <1>3 DEF EnableCommit
<1>4. ASSUME NEW disable \in BOOLEAN, UpdateRead(disable) PROVE ForbiddenInv'
    BY <1>4 DEF UpdateRead
<1>5. CASE UpdateWithTx
    <2>1. \A l \in Liabilities : tx[l].pc # "raise_write"
        BY <1>5 DEF UpdateWithTx, LockInv, NoTx
    <2>2. ~overtaken /\ ~user.frozen => \A l \in Liabilities : ~Open(l)
        BY DEF BlockedInv
    <2> QED BY <1>5, <2>1, <2>2 DEF UpdateWithTx
<1> QED BY <1>1, <1>2, <1>3, <1>4, <1>5 DEF AdminStep

\* An account that an administrator disabled while it was not frozen stays disabled
\* through any number of overlapping freezes, until an administrator enables it or
\* a release is overtaken (paymentFreezePreviousUserStatusTx hands the status from
\* one liability to the next).
THEOREM DisabledStaysDisabled == Spec => []DisableOutlivesFreeze
<1>1. Init => ForbiddenInv
    BY DEF Init, ForbiddenInv
<1>2. TypeOK /\ LockInv /\ BlockedInv /\ ForbiddenInv /\ [Next]_vars => ForbiddenInv'
    <2> SUFFICES ASSUME TypeOK, LockInv, BlockedInv, ForbiddenInv, [Next]_vars
                 PROVE  ForbiddenInv'
        OBVIOUS
    <2>1. CASE UNCHANGED vars
        BY <2>1 DEF vars, ForbiddenInv, Open
    <2> QED BY <2>1, LiabilityForbiddenInv, AdminForbiddenInv DEF Next
<1>3. ForbiddenInv => DisableOutlivesFreeze
    BY DEF ForbiddenInv, DisableOutlivesFreeze
<1> QED
    BY <1>1, <1>2, <1>3, FreezeExactUpToHoles, LocksHeld, TypeCorrect, PTL DEF Spec

=============================================================================
