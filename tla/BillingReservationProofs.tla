---------------------- MODULE BillingReservationProofs ----------------------
(***************************************************************************)
(* The reservations of BillingReservation, for any number of users,        *)
(* tokens, subscriptions and requests and for every sequence of            *)
(* transactions, in four parts.                                            *)
(*                                                                         *)
(* I.   What the rows hold.  CoreInv is inductive: the types of all        *)
(*      columns, HoldsAgree and RecordMirrorsReservation.  The three need  *)
(*      each other.  A conditional UPDATE bounds a balance by the delta it *)
(*      is given, so the range of a token needs to know that the delta of  *)
(*      the hold is the delta of the token; the range of a pre-consume     *)
(*      record needs to know that it has the amount of its reservation.    *)
(*      The proof first shows what each guard (the ...Err operators)       *)
(*      implies for the balances it protects, then which fields each kind  *)
(*      of row has, and then goes through the transactions one by one.     *)
(*                                                                         *)
(* II.  What quota_ledger says.  Every step is either Quiet (no            *)
(*      reservation and no ledger entry changes) or Recorded for one       *)
(*      request: the row was open, only this row changed, the wallet moved *)
(*      by what the ledger gained, the new entries are not ahead of the    *)
(*      row's new revision, and the ledger again adds up to what the row   *)
(*      holds.                                                             *)
(*                                                                         *)
(* III. What the reservations of a user and of a subscription add up to:   *)
(*      the freeze of the user follows the open shortfalls and debts, and  *)
(*      the counters of a subscription are the sums of its holds.  Every   *)
(*      step on an open reservation Follows: one row is replaced, it stays *)
(*      on its account, the counters move by what its hold moves, and the  *)
(*      user's account by what its freeze does.                            *)
(*                                                                         *)
(* IV.  What a session remembers of its row.  Fits relates the fields of a *)
(*      session, at every program point, to its row.  A step of the        *)
(*      session is OwnStep: one transaction on its own row, or none, after *)
(*      which the session fits again.  A step of anybody else Drifts: it   *)
(*      may finish the row, or move it on while a task is bound to it, but *)
(*      it changes neither the hold nor the intent of an unbound row.  So  *)
(*      what a session read before an error or a lost answer still holds   *)
(*      after it.                                                          *)
(***************************************************************************)
EXTENDS BillingCharge, BillingSession, SetSums

-----------------------------------------------------------------------------
(***************************************************************************)
(* I.  The rows and their balances                                         *)
(***************************************************************************)

\* The fields of a reservation row that the proofs speak about.
LEMMA RowFields ==
    ASSUME NEW x \in ReservationRow
    PROVE  /\ x.status \in {"absent", "reserved", "settled", "refunded"}
           /\ x.funding \in {"wallet", "subscription"}
           /\ x.subId \in Subs \cup {NoSub} /\ x.epoch \in Nat /\ x.version \in Nat
           /\ x.reserved \in 0..MaxInt /\ x.tokenReserved \in 0..MaxInt
           /\ x.freeze \in BOOLEAN /\ x.prevStatus \in Status
BY DEF ReservationRow

\* Their types in a reachable state.
LEMMA RowTypes ==
    ASSUME TypeOK, NEW r \in Requests
    PROVE  /\ resv[r] \in ReservationRow /\ resv[r].version \in Nat
           /\ resv[r].reserved \in 0..MaxInt /\ resv[r].tokenReserved \in 0..MaxInt
<1>1. resv[r] \in ReservationRow
    BY DEF TypeOK
<1> QED BY <1>1, RowFields

\* The guarded UPDATE of users.quota keeps it within 0..MaxInt.
LEMMA UserErrOk ==
    ASSUME TypeOK, NEW u \in Users, NEW delta \in Int, UserErr(u, delta) = "ok"
    PROVE  quota[u] - delta \in 0..MaxInt
<1>1. ~(delta > 0 /\ quota[u] < delta) /\ ~(delta < 0 /\ quota[u] > MaxInt + delta)
    BY DEF UserErr
<1> QED BY <1>1, SizeAssumption DEF TypeOK

\* The guarded UPDATE of a token keeps both of its counters in range.
LEMMA TokenAfterType ==
    ASSUME TypeOK, NEW t \in Tokens, NEW delta \in Int,
           ~tok[t].exists \/ delta = 0 \/ TokenErr(t, delta) = "ok"
    PROVE  TokenAfter(t, delta) \in TokenRow /\ TokenAfter(t, delta).exists = tok[t].exists
<1>1. tok[t] \in TokenRow
    BY DEF TypeOK
<1>2. CASE ~tok[t].exists
    BY <1>1, <1>2 DEF TokenAfter
<1>3. CASE tok[t].exists
    <2>1. /\ tok[t].used + delta \in MinInt..MaxInt
          /\ t \notin Unlimited => tok[t].remain - delta \in 0..MaxInt
        <3>1. tok[t].used \in MinInt..MaxInt /\ tok[t].remain \in 0..MaxInt
            BY <1>1 DEF TokenRow
        <3>2. CASE delta = 0
            BY <3>1, <3>2, SizeAssumption DEF MinInt
        <3>3. CASE delta > 0 
            <4>1. tok[t].used <= MaxInt - delta /\ (t \in Unlimited \/ tok[t].remain >= delta)
              BY <3>3, <1>3 DEF TokenErr
            <4> QED BY <4>1, <3>1, <3>3, SizeAssumption DEF MinInt
        <3>4. CASE delta < 0 
            <4>1. tok[t].used >= MinInt - delta /\ (t \in Unlimited \/ tok[t].remain <= MaxInt + delta)
              BY <3>4, <1>3 DEF TokenErr
            <4> QED BY <4>1, <3>1, <3>4, SizeAssumption DEF MinInt
        <3> QED BY <3>2, <3>3, <3>4
    <2>2. tok[t].remain \in 0..MaxInt
        BY <1>1 DEF TokenRow
    <2>3. CASE t \in Unlimited
        BY <1>1, <1>3, <2>1, <2>2, <2>3, Zenon DEF TokenAfter, TokenRow
    <2>4. CASE t \notin Unlimited
        BY <1>1, <1>3, <2>1, <2>4, Zenon DEF TokenAfter, TokenRow
    <2> QED BY <2>3, <2>4
<1> QED BY <1>2, <1>3

\* The checks of applySubscriptionUsageDeltaTx keep the counters natural.
LEMMA SubscriptionAfterType ==
    ASSUME TypeOK, NEW r \in Requests, NEW delta \in Int, resv[r].subId \in Subs,
           delta = 0 \/ SubscriptionErr(r, delta) = "ok"
    PROVE  SubscriptionAfter(r, delta) \in SubscriptionRow
<1> DEFINE s == resv[r].subId
           x == sub[s]
<1>1. x \in SubscriptionRow /\ x.used \in Nat /\ x.total \in Nat
    BY DEF TypeOK, SubscriptionRow
<1>2. CASE delta = 0
    BY <1>1, <1>2 DEF SubscriptionAfter
<1>3. CASE delta # 0
    <2>1. Larger(x.total, x.used) + delta \in Nat /\ (SamePeriod(r) => x.used + delta \in Nat)
        <3>1. ~(Larger(x.total, x.used) + delta < 0)
            BY <1>3 DEF SubscriptionErr
        <3>2. SamePeriod(r) => ~(x.used + delta < 0)
            BY <1>3, <3>1 DEF SubscriptionErr
        <3> QED BY <1>1, <3>1, <3>2 DEF Larger
    <2>2. CASE SamePeriod(r)
        BY <1>1, <1>3, <2>1, <2>2, Zenon DEF SubscriptionAfter, SubscriptionRow
    <2>3. CASE ~SamePeriod(r)
        BY <1>1, <1>3, <2>1, <2>3, Zenon DEF SubscriptionAfter, SubscriptionRow
    <2> QED BY <2>2, <2>3
<1> QED BY <1>2, <1>3

-----------------------------------------------------------------------------
\* What adjustReservedBillingTx has checked before it moves balances by delta.
FundingOk(r, delta) ==
    \/ delta = 0
    \/ IF resv[r].funding = "wallet" THEN UserErr(UserOf[r], delta) = "ok"
                                     ELSE SubscriptionErr(r, delta) = "ok"
TokenOk(r, delta) ==
    \/ TokenOf[r] = NoToken \/ ~tok[TokenOf[r]].exists
    \/ delta = 0 \/ TokenErr(TokenOf[r], delta) = "ok"

\* If every guard passed, all balances stay in range and no token appears or
\* disappears.
LEMMA MoveBalancesType ==
    ASSUME TypeOK, NEW r \in Requests, NEW delta \in Int, NEW tokenDelta \in Int,
           FundingOk(r, delta), TokenOk(r, tokenDelta),
           MoveBalances(r, delta, tokenDelta)
    PROVE  /\ quota' \in [Users -> 0..MaxInt]
           /\ sub' \in [Subs -> SubscriptionRow]
           /\ tok' \in [Tokens -> TokenRow]
           /\ net' \in [Requests -> LedgerTotals]
           /\ \A t \in Tokens : tok'[t].exists = tok[t].exists
<1>0. UserOf[r] \in Users /\ TokenOf[r] \in Tokens \cup {NoToken} /\ resv[r] \in ReservationRow
    BY IdentityAssumption DEF TypeOK
<1>1. quota' \in [Users -> 0..MaxInt]
    <2>1. CASE resv[r].funding = "wallet"
        <3>1. quota[UserOf[r]] - delta \in 0..MaxInt
            BY <1>0, <2>1, UserErrOk DEF FundingOk, TypeOK
        <3> QED BY <2>1, <3>1 DEF MoveBalances, TypeOK
    <2>2. CASE resv[r].funding # "wallet"
        BY <2>2 DEF MoveBalances, TypeOK
    <2> QED BY <2>1, <2>2
<1>2. sub' \in [Subs -> SubscriptionRow]
    <2>1. CASE resv[r].funding = "subscription"
        <3>1. CASE resv[r].subId \in Subs
            <4>1. SubscriptionAfter(r, delta) \in SubscriptionRow
                BY <2>1, <3>1, SubscriptionAfterType DEF FundingOk
            <4> QED BY <2>1, <4>1 DEF MoveBalances, TypeOK
        <3>2. CASE resv[r].subId \notin Subs
            BY <2>1, <3>2 DEF MoveBalances, TypeOK
        <3> QED BY <3>1, <3>2
    <2>2. CASE resv[r].funding # "subscription"
        BY <2>2 DEF MoveBalances, TypeOK
    <2> QED BY <2>1, <2>2
<1>3. tok' \in [Tokens -> TokenRow] /\ \A t \in Tokens : tok'[t].exists = tok[t].exists
    <2>1. CASE TokenOf[r] = NoToken
        BY <2>1 DEF MoveBalances, TypeOK
    <2>2. CASE TokenOf[r] # NoToken
        <3>1. /\ TokenAfter(TokenOf[r], tokenDelta) \in TokenRow
              /\ TokenAfter(TokenOf[r], tokenDelta).exists = tok[TokenOf[r]].exists
            BY <1>0, <2>2, TokenAfterType DEF TokenOk
        <3> QED BY <1>0, <2>2, <3>1 DEF MoveBalances, TypeOK
    <2> QED BY <2>1, <2>2
<1>4. net' \in [Requests -> LedgerTotals]
    <2>1. net[r] \in LedgerTotals
        BY DEF TypeOK
    <2>2. EntryFor(r, delta, tokenDelta) \in LedgerTotals
        BY DEF EntryFor, LedgerTotals
    <2>3. Plus(net[r], EntryFor(r, delta, tokenDelta)) \in LedgerTotals
        BY <2>1, <2>2 DEF Plus, LedgerTotals
    <2> QED BY <2>3 DEF MoveBalances, TypeOK
<1> QED BY <1>1, <1>2, <1>3, <1>4

\* A successful adjustReservedBillingTx passed the guards of both balances.
LEMMA AdjustOk ==
    ASSUME TypeOK, NEW r \in Requests, NEW target \in 0..MaxInt, NEW phase,
           NEW allow \in BOOLEAN, AdjustErr(r, target, phase, allow) = "ok"
    PROVE  /\ resv[r].status = "reserved"
           /\ target - resv[r].reserved \in Int
           /\ FundingOk(r, target - resv[r].reserved)
           /\ TokenOk(r, target - resv[r].reserved)
<1> DEFINE delta == target - resv[r].reserved
<1>1. resv[r].status = "reserved" /\ resv[r].reserved \in 0..MaxInt
    BY DEF AdjustErr, TypeOK, ReservationRow
<1>2. CASE delta = 0
    BY <1>1, <1>2, SizeAssumption DEF FundingOk, TokenOk
<1>3. CASE delta # 0
    <2>1. FundingErr(r, delta) = "ok" /\ ReservationTokenErr(r, delta, allow) = "ok"
        BY <1>1, <1>3 DEF AdjustErr, Then
    <2>2. FundingOk(r, delta)
        BY <2>1 DEF FundingErr, FundingOk, Then
    <2>3. TokenOk(r, delta)
        BY <2>1 DEF ReservationTokenErr, TokenOk
    <2> QED BY <1>1, <2>2, <2>3, SizeAssumption
<1> QED BY <1>2, <1>3

\* So did a successful settlement, which adjusts only when the hold differs.
LEMMA SettleOk ==
    ASSUME TypeOK, NEW r \in Requests, NEW q \in 0..MaxInt,
           resv[r].status = "reserved", SettleErr(r, q) = "ok"
    PROVE  /\ q - resv[r].reserved \in Int
           /\ FundingOk(r, q - resv[r].reserved)
           /\ TokenOk(r, q - resv[r].reserved)
<1>1. resv[r].reserved \in 0..MaxInt
    BY DEF TypeOK, ReservationRow
<1>2. CASE q = resv[r].reserved
    BY <1>1, <1>2, SizeAssumption DEF FundingOk, TokenOk
<1>3. CASE q # resv[r].reserved
    <2>1. AdjustErr(r, q, "settle", TRUE) = "ok"
        BY <1>3 DEF SettleErr
    <2> QED BY <2>1, AdjustOk
<1> QED BY <1>2, <1>3

\* So did a successful refund, of the whole hold.
LEMMA RefundOk ==
    ASSUME TypeOK, NEW r \in Requests, resv[r].status = "reserved", RefundErr(r) = "ok"
    PROVE  /\ -resv[r].reserved \in Int /\ -resv[r].tokenReserved \in Int
           /\ FundingOk(r, -resv[r].reserved)
           /\ TokenOk(r, -resv[r].tokenReserved)
<1>1. resv[r].reserved \in 0..MaxInt /\ resv[r].tokenReserved \in 0..MaxInt
    BY DEF TypeOK, ReservationRow
<1>2. FundingOk(r, -resv[r].reserved)
    BY <1>1 DEF RefundErr, Then, FundingOk
<1>3. TokenOk(r, -resv[r].tokenReserved)
    <2>1. \/ resv[r].tokenReserved = 0
          \/ ReservationTokenErr(r, -resv[r].tokenReserved, TRUE) = "ok"
        BY <1>1 DEF RefundErr, Then
    <2> QED BY <1>1, <2>1 DEF ReservationTokenErr, TokenOk
<1> QED BY <1>1, <1>2, <1>3, SizeAssumption

-----------------------------------------------------------------------------
CoreInv == TypeOK /\ HoldsAgree /\ RecordMirrorsReservation

RowHolds(r, x) ==
    /\ x \in ReservationRow
    /\ x.tokenReserved = IF TokenOf[r] = NoToken THEN 0 ELSE x.reserved
    /\ x.status = "settled" => x.settled = x.reserved

RecordFor(x) == [status |-> "consumed", amount |-> x.reserved]

\* Replacing one row by a consistent one, with its pre-consume record, keeps
\* the reservations consistent.
LEMMA RowChange ==
    ASSUME CoreInv, NEW r \in Requests, NEW row, RowHolds(r, row),
           resv' = [resv EXCEPT ![r] = row],
           \A p \in Requests \ {r} : pre'[p] = pre[p],
           row.status = "reserved" /\ row.funding = "subscription" =>
              pre'[r] = RecordFor(row)
    PROVE  /\ resv' \in [Requests -> ReservationRow]
           /\ HoldsAgree'
           /\ RecordMirrorsReservation'
<1>1. resv \in [Requests -> ReservationRow]
    BY DEF CoreInv, TypeOK
<1>2. resv'[r] = row /\ \A p \in Requests \ {r} : resv'[p] = resv[p]
    BY <1>1
<1>3. resv' \in [Requests -> ReservationRow]
    BY <1>1 DEF RowHolds
<1>4. HoldsAgree'
    BY <1>2 DEF HoldsAgree, CoreInv, RowHolds
<1>5. RecordMirrorsReservation'
    BY <1>2 DEF RecordMirrorsReservation, CoreInv, RecordFor
<1> QED BY <1>3, <1>4, <1>5

\* The adjusted row holds the target for the funding source and the token.
LEMMA AdjustedRowFields ==
    ASSUME CoreInv, NEW r \in Requests, NEW target \in 0..MaxInt, resv[r].status = "reserved"
    PROVE  /\ RowHolds(r, AdjustedRow(r, target))
           /\ AdjustedRow(r, target).reserved = target
           /\ AdjustedRow(r, target).status = "reserved"
           /\ AdjustedRow(r, target).funding = resv[r].funding
           /\ AdjustedRow(r, target).freeze = resv[r].freeze
           /\ AdjustedRow(r, target).prevStatus = resv[r].prevStatus
           /\ AdjustedRow(r, target).version =
                 IF target = resv[r].reserved THEN resv[r].version ELSE resv[r].version + 1
<1> DEFINE delta == target - resv[r].reserved
           hold == TokenHold(r, delta)
           version == IF delta = 0 THEN resv[r].version ELSE resv[r].version + 1
           row == AdjustedRow(r, target)
<1>1. /\ resv[r] \in ReservationRow /\ resv[r].version \in Nat
      /\ resv[r].reserved \in 0..MaxInt /\ resv[r].tokenReserved \in 0..MaxInt
    BY RowTypes DEF CoreInv
<1>2. /\ hold = IF TokenOf[r] = NoToken THEN 0 ELSE target
      /\ hold \in 0..MaxInt
      /\ version \in Nat
      /\ version = IF target = resv[r].reserved THEN resv[r].version ELSE resv[r].version + 1
    BY <1>1, SizeAssumption DEF CoreInv, HoldsAgree, TokenHold
<1>3. row = [resv[r] EXCEPT !.reserved = target, !.tokenReserved = hold, !.version = version]
    BY DEF AdjustedRow
<1> HIDE DEF hold, version, row
<1>4. row \in ReservationRow
    BY <1>1, <1>2, <1>3, Zenon DEF ReservationRow
<1>5. /\ row.reserved = target /\ row.tokenReserved = hold /\ row.version = version
      /\ row.status = resv[r].status /\ row.funding = resv[r].funding
      /\ row.freeze = resv[r].freeze /\ row.prevStatus = resv[r].prevStatus
    BY <1>1, <1>3 DEF ReservationRow
<1> QED BY <1>2, <1>4, <1>5 DEF RowHolds, row

\* The settled row is settled at what it holds.
LEMMA SettledRowFields ==
    ASSUME CoreInv, NEW r \in Requests, NEW q \in 0..MaxInt, resv[r].status = "reserved"
    PROVE  /\ RowHolds(r, SettledRow(r, q))
           /\ SettledRow(r, q).status = "settled"
           /\ SettledRow(r, q).reserved = q
           /\ SettledRow(r, q).funding = resv[r].funding
           /\ SettledRow(r, q).version \in Nat
           /\ SettledRow(r, q).version > resv[r].version
<1> DEFINE x == AdjustedRow(r, q)
           row == SettledRow(r, q)
           version == x.version + 1
<1>0. resv[r].version \in Nat
    BY RowTypes DEF CoreInv
<1>1. /\ x \in ReservationRow /\ x.reserved = q /\ x.funding = resv[r].funding
      /\ x.tokenReserved = IF TokenOf[r] = NoToken THEN 0 ELSE q
      /\ version \in Nat /\ version > resv[r].version
    BY <1>0, AdjustedRowFields DEF RowHolds
<1>2. row = [x EXCEPT !.status = "settled", !.settled = q, !.pending = FALSE,
                      !.target = 0, !.version = version]
    BY DEF SettledRow
<1>3. 0 \in 0..MaxInt
    BY SizeAssumption
<1> HIDE DEF x, row, version
<1>4. row \in ReservationRow
    BY <1>1, <1>2, <1>3, Zenon DEF ReservationRow
<1>5. /\ row.status = "settled" /\ row.settled = q /\ row.version = version
      /\ row.reserved = x.reserved /\ row.tokenReserved = x.tokenReserved
      /\ row.funding = x.funding
    BY <1>1, <1>2 DEF ReservationRow
<1> QED BY <1>1, <1>4, <1>5 DEF RowHolds, row

\* The refunded row keeps the amounts it held.
LEMMA RefundedRowFields ==
    ASSUME CoreInv, NEW r \in Requests, resv[r].status = "reserved"
    PROVE  /\ RowHolds(r, RefundedRow(r))
           /\ RefundedRow(r).status = "refunded"
           /\ RefundedRow(r).funding = resv[r].funding
           /\ RefundedRow(r).version = resv[r].version + 1
<1> DEFINE row == RefundedRow(r)
           version == resv[r].version + 1
<1>1. resv[r] \in ReservationRow /\ version \in Nat /\ 0 \in 0..MaxInt
    BY RowTypes, SizeAssumption DEF CoreInv
<1>2. row = [resv[r] EXCEPT !.status = "refunded", !.pending = FALSE, !.target = 0,
                            !.version = version]
    BY DEF RefundedRow
<1> HIDE DEF row, version
<1>3. row \in ReservationRow
    BY <1>1, <1>2, Zenon DEF ReservationRow
<1>4. /\ row.status = "refunded" /\ row.version = version /\ row.reserved = resv[r].reserved
      /\ row.tokenReserved = resv[r].tokenReserved /\ row.funding = resv[r].funding
    BY <1>1, <1>2 DEF ReservationRow
<1> QED BY <1>1, <1>3, <1>4 DEF RowHolds, CoreInv, HoldsAgree, row, version

\* An intent changes neither the hold nor the funding.
LEMMA IntentRowFields ==
    ASSUME CoreInv, NEW r \in Requests, NEW target \in 0..MaxInt, resv[r].status = "reserved"
    PROVE  /\ RowHolds(r, IntentRow(r, target))
           /\ IntentRow(r, target).status = "reserved"
           /\ IntentRow(r, target).reserved = resv[r].reserved
           /\ IntentRow(r, target).funding = resv[r].funding
           /\ IntentRow(r, target).freeze = resv[r].freeze
           /\ IntentRow(r, target).version = resv[r].version + 1
<1> DEFINE row == IntentRow(r, target)
           version == resv[r].version + 1
<1>1. resv[r] \in ReservationRow /\ version \in Nat
    BY RowTypes DEF CoreInv
<1>2. row = [resv[r] EXCEPT !.pending = TRUE, !.target = target, !.version = version]
    BY DEF IntentRow
<1> HIDE DEF row, version
<1>3. row \in ReservationRow
    BY <1>1, <1>2, Zenon DEF ReservationRow
<1>4. /\ row.status = resv[r].status /\ row.version = version
      /\ row.reserved = resv[r].reserved /\ row.tokenReserved = resv[r].tokenReserved
      /\ row.funding = resv[r].funding /\ row.freeze = resv[r].freeze
    BY <1>1, <1>2 DEF ReservationRow
<1> QED BY <1>1, <1>3, <1>4 DEF RowHolds, CoreInv, HoldsAgree, row, version

\* Nor does a shortfall, whose amount is what the hold lacks.
LEMMA ShortfallRowFields ==
    ASSUME CoreInv, NEW r \in Requests, NEW target \in 0..MaxInt,
           NEW cause \in BillingSettlementFailures,
           resv[r].status = "reserved", target > resv[r].reserved
    PROVE  /\ RowHolds(r, ShortfallRow(r, target, cause))
           /\ ShortfallRow(r, target, cause).status = "reserved"
           /\ ShortfallRow(r, target, cause).reserved = resv[r].reserved
           /\ ShortfallRow(r, target, cause).funding = resv[r].funding
           /\ ShortfallRow(r, target, cause).freeze = TRUE
           /\ ShortfallRow(r, target, cause).version = resv[r].version + 1
<1> DEFINE row == ShortfallRow(r, target, cause)
           version == resv[r].version + 1
           short == target - resv[r].reserved
           prev == PaymentFreezePreviousUserStatus(UserOf[r])
<1>1. resv[r] \in ReservationRow /\ version \in Nat /\ short \in 0..MaxInt
    BY RowTypes, SizeAssumption DEF CoreInv
<1>2. prev \in Status
    BY IdentityAssumption
    DEF PaymentFreezePreviousUserStatus, CoreInv, TypeOK, AccountRow, Status
<1>3. row = [resv[r] EXCEPT !.pending = TRUE, !.target = target, !.cause = cause,
                            !.shortfall = short, !.freeze = TRUE, !.reviewed = TRUE,
                            !.prevStatus = prev, !.version = version]
    BY DEF ShortfallRow
<1> HIDE DEF row, version, short, prev
<1>4. row \in ReservationRow
    BY <1>1, <1>2, <1>3, Zenon DEF ReservationRow
<1>5. /\ row.status = resv[r].status /\ row.version = version
      /\ row.reserved = resv[r].reserved /\ row.tokenReserved = resv[r].tokenReserved
      /\ row.funding = resv[r].funding /\ row.freeze = TRUE
    BY <1>1, <1>3 DEF ReservationRow
<1> QED BY <1>1, <1>4, <1>5 DEF RowHolds, CoreInv, HoldsAgree, row, version

-----------------------------------------------------------------------------
\* Posting well-typed entries keeps the key set well typed.
LEMMA PostType ==
    ASSUME TypeOK, NEW entries, entries \subseteq Requests \X Phases \X Nat, Post(entries)
    PROVE  keys' \subseteq Requests \X Phases \X Nat
BY DEF Post, TypeOK

\* The key of a ledger entry.
LEMMA KeyType ==
    ASSUME NEW r \in Requests, NEW phase \in Phases, NEW n \in Nat
    PROVE  <<r, phase, n>> \in Requests \X Phases \X Nat
OBVIOUS

\* Freezing, releasing or leaving an account keeps it well typed.
LEMMA AccountTypes ==
    ASSUME TypeOK, NEW u \in Users, NEW prev, NEW other,
           Freeze(u) \/ ReleaseUserPaymentFreeze(u, prev, other) \/ UNCHANGED acct
    PROVE  acct' \in [Users -> AccountRow]
<1>1. acct \in [Users -> AccountRow] /\ acct[u].status \in Status
    BY DEF TypeOK, AccountRow
<1>2. \A status \in Status, frozen \in BOOLEAN :
        [acct EXCEPT ![u] = [status |-> status, frozen |-> frozen]] \in [Users -> AccountRow]
    BY <1>1 DEF AccountRow
<1>3. CASE Freeze(u)
    BY <1>2, <1>3 DEF Freeze, Status
<1>4. CASE ReleaseUserPaymentFreeze(u, prev, other)
    <2>1. (IF prev = "enabled" THEN "enabled" ELSE acct[u].status) \in Status
        BY <1>1 DEF Status
    <2>2. CASE other \/ ~acct[u].frozen
        BY <1>1, <1>4, <2>2 DEF ReleaseUserPaymentFreeze
    <2>3. CASE ~(other \/ ~acct[u].frozen)
        BY <1>2, <1>4, <2>1, <2>3, Zenon DEF ReleaseUserPaymentFreeze
    <2> QED BY <2>2, <2>3
<1> QED BY <1>1, <1>3, <1>4

\* The release at the end of a terminal transition does.
LEMMA ReleaseType ==
    ASSUME TypeOK, NEW r \in Requests, ReleaseAfterFinalization(r)
    PROVE  acct' \in [Users -> AccountRow]
<1>1. UserOf[r] \in Users
    BY IdentityAssumption
<1> QED BY <1>1, AccountTypes DEF ReleaseAfterFinalization

\* persistBillingReservationSettlementIntentTx, in every mode.
LEMMA IntentCore ==
    ASSUME CoreInv, NEW r \in Requests, NEW target \in 0..MaxInt, NEW mode,
           PersistSettlementIntent(r, target, mode)
    PROVE  CoreInv'
<1>1. resv[r].status = "reserved" /\ resv' = [resv EXCEPT ![r] = IntentRow(r, target)]
    BY DEF PersistSettlementIntent, IntentIsNew
<1>2. keys' \subseteq Requests \X Phases \X Nat
    <2>1. <<r, "settle_intent", resv[r].version + 1>> \in Requests \X Phases \X Nat
        BY RowTypes, KeyType DEF CoreInv, Phases
    <2> QED BY <2>1, PostType DEF PersistSettlementIntent, CoreInv
<1>3. resv' \in [Requests -> ReservationRow] /\ HoldsAgree' /\ RecordMirrorsReservation'
    <2>1. pre' = pre
        BY DEF PersistSettlementIntent
    <2>2. resv[r].funding = "subscription" => pre[r] = RecordFor(resv[r])
        BY <1>1 DEF CoreInv, RecordMirrorsReservation, RecordFor
    <2> QED BY <1>1, <2>1, <2>2, IntentRowFields, RowChange DEF RecordFor
<1> QED BY <1>2, <1>3 DEF PersistSettlementIntent, CoreInv, TypeOK

\* A shortfall is recorded only for a target above the hold.
LEMMA ShortfallOk ==
    ASSUME NEW r \in Requests, NEW target, resv[r].status = "reserved",
           ShortfallErr(r, target) = "ok"
    PROVE  ~(target <= resv[r].reserved)
BY DEF ShortfallErr

\* MarkBillingReservationSettlementShortfall.
LEMMA MarkCore ==
    ASSUME CoreInv, NEW r \in Requests, NEW target \in 0..MaxInt,
           NEW cause \in BillingSettlementFailures,
           MarkBillingReservationSettlementShortfall(r, target, cause)
    PROVE  CoreInv'
<1>0. UserOf[r] \in Users
    BY IdentityAssumption
<1>1. acct' \in [Users -> AccountRow]
    BY <1>0, AccountTypes DEF CoreInv, MarkBillingReservationSettlementShortfall
<1>2. CASE SameShortfall(r, target, cause)
    BY <1>1, <1>2
    DEF MarkBillingReservationSettlementShortfall, CoreInv, TypeOK, HoldsAgree,
        RecordMirrorsReservation
<1>3. CASE ~SameShortfall(r, target, cause)
    <2>1. /\ resv[r].status = "reserved" /\ target > resv[r].reserved
          /\ resv' = [resv EXCEPT ![r] = ShortfallRow(r, target, cause)]
        <3>1. resv[r].status = "reserved" /\ ~(target <= resv[r].reserved)
            BY ShortfallOk DEF MarkBillingReservationSettlementShortfall
        <3> QED
            BY <1>3, <3>1, RowTypes, SizeAssumption
            DEF MarkBillingReservationSettlementShortfall, CoreInv
    <2>2. keys' \subseteq Requests \X Phases \X Nat
        <3>1. <<r, "settle_shortfall", resv[r].version + 1>> \in Requests \X Phases \X Nat
            BY RowTypes, KeyType DEF CoreInv, Phases
        <3> QED
            BY <1>3, <3>1, PostType DEF MarkBillingReservationSettlementShortfall, CoreInv
    <2>3. resv' \in [Requests -> ReservationRow] /\ HoldsAgree' /\ RecordMirrorsReservation'
        <3>1. pre' = pre
            BY DEF MarkBillingReservationSettlementShortfall
        <3>2. resv[r].funding = "subscription" => pre[r] = RecordFor(resv[r])
            BY <2>1 DEF CoreInv, RecordMirrorsReservation, RecordFor
        <3> DEFINE row == ShortfallRow(r, target, cause)
        <3>3. /\ RowHolds(r, row) /\ row.reserved = resv[r].reserved
              /\ row.funding = resv[r].funding
            BY <2>1, ShortfallRowFields
        <3> HIDE DEF row
        <3>4. row.funding = "subscription" => pre'[r] = RecordFor(row)
            BY <3>1, <3>2, <3>3 DEF RecordFor
        <3>5. resv' = [resv EXCEPT ![r] = row]
            BY <2>1 DEF row
        <3> QED BY <3>1, <3>3, <3>4, <3>5, RowChange
    <2> QED
        BY <1>1, <2>2, <2>3 DEF MarkBillingReservationSettlementShortfall, CoreInv, TypeOK
<1> QED BY <1>2, <1>3

\* The pre-consume record of an adjusted reservation has the adjusted amount.
LEMMA AdjustedRecordFacts ==
    ASSUME CoreInv, NEW r \in Requests, NEW target \in 0..MaxInt, resv[r].status = "reserved",
           pre' = AdjustedRecord(r, target)
    PROVE  /\ pre' \in [Requests -> PreConsumeRow]
           /\ \A p \in Requests \ {r} : pre'[p] = pre[p]
           /\ resv[r].funding = "subscription" =>
                 pre'[r] = [status |-> "consumed", amount |-> target]
<1>1. CASE resv[r].funding = "subscription"
    <2>1. pre[r] = [status |-> "consumed", amount |-> resv[r].reserved]
        BY <1>1 DEF CoreInv, RecordMirrorsReservation
    <2>2. pre[r].amount + (target - resv[r].reserved) = target
        BY <2>1, RowTypes, SizeAssumption DEF CoreInv
    <2>3. pre' = [pre EXCEPT ![r] = [status |-> "consumed", amount |-> target]]
        <3> DEFINE amount == pre[r].amount + (target - resv[r].reserved)
        <3>1. pre' = [pre EXCEPT ![r] = [pre[r] EXCEPT !.amount = amount]]
            BY <1>1 DEF AdjustedRecord
        <3>2. amount = target
            BY <2>2
        <3> HIDE DEF amount
        <3>3. [pre[r] EXCEPT !.amount = amount] = [status |-> "consumed", amount |-> target]
            BY <2>1, <3>2
        <3> QED BY <3>1, <3>3
    <2>4. [status |-> "consumed", amount |-> target] \in PreConsumeRow
        BY DEF PreConsumeRow
    <2> QED BY <2>3, <2>4 DEF CoreInv, TypeOK
<1>2. CASE resv[r].funding # "subscription"
    BY <1>2 DEF AdjustedRecord, CoreInv, TypeOK
<1> QED BY <1>1, <1>2

\* ExtendBillingReservation.
LEMMA ExtendCore ==
    ASSUME CoreInv, NEW r \in Requests, NEW target \in 0..MaxInt,
           ExtendBillingReservation(r, target)
    PROVE  CoreInv'
<1>0. resv[r].reserved \in 0..MaxInt /\ target > resv[r].reserved
    BY RowTypes DEF CoreInv, ExtendBillingReservation
<1>1. AdjustErr(r, target, "reserve", FALSE) = "ok"
    <2>1. ~(target <= resv[r].reserved)
        BY <1>0, SizeAssumption
    <2> QED BY <2>1 DEF ExtendBillingReservation, ExtendErr
<1>2. /\ quota' \in [Users -> 0..MaxInt]
      /\ sub' \in [Subs -> SubscriptionRow]
      /\ tok' \in [Tokens -> TokenRow]
      /\ net' \in [Requests -> LedgerTotals]
    BY <1>1, AdjustOk, MoveBalancesType DEF ExtendBillingReservation, MoveHold, CoreInv
<1>3. resv[r].status = "reserved"
    BY <1>1, AdjustOk DEF CoreInv
<1>4. pre' = AdjustedRecord(r, target) /\ resv' = [resv EXCEPT ![r] = AdjustedRow(r, target)]
    BY DEF ExtendBillingReservation
<1>5. pre' \in [Requests -> PreConsumeRow]
    BY <1>3, <1>4, AdjustedRecordFacts
<1>6. resv' \in [Requests -> ReservationRow] /\ HoldsAgree' /\ RecordMirrorsReservation'
    <2> DEFINE row == AdjustedRow(r, target)
    <2>1. RowHolds(r, row) /\ row.reserved = target /\ row.funding = resv[r].funding
        BY <1>3, AdjustedRowFields
    <2>2. resv' = [resv EXCEPT ![r] = row]
        BY <1>4
    <2> HIDE DEF row
    <2>3. /\ \A p \in Requests \ {r} : pre'[p] = pre[p]
          /\ row.funding = "subscription" => pre'[r] = RecordFor(row)
        BY <1>3, <1>4, <2>1, AdjustedRecordFacts DEF RecordFor
    <2> QED BY <2>1, <2>2, <2>3, RowChange
<1>7. keys' \subseteq Requests \X Phases \X Nat
    <2>1. <<r, "reserve", resv[r].version + 1>> \in Requests \X Phases \X Nat
        BY RowTypes, KeyType DEF CoreInv, Phases
    <2> QED BY <2>1, PostType DEF ExtendBillingReservation, CoreInv
<1> QED
    BY <1>2, <1>5, <1>6, <1>7 DEF ExtendBillingReservation, CoreInv, TypeOK

\* What settleBillingReservationTx does to everything but the row.
LEMMA SettleBalancesCore ==
    ASSUME CoreInv, NEW r \in Requests, NEW q \in 0..MaxInt, SettleBalances(r, q)
    PROVE  /\ resv[r].status = "reserved"
           /\ quota' \in [Users -> 0..MaxInt]
           /\ sub' \in [Subs -> SubscriptionRow]
           /\ tok' \in [Tokens -> TokenRow]
           /\ net' \in [Requests -> LedgerTotals]
           /\ acct' \in [Users -> AccountRow]
           /\ pre' \in [Requests -> PreConsumeRow]
           /\ \A p \in Requests \ {r} : pre'[p] = pre[p]
           /\ debt' = debt
<1>1. resv[r].status = "reserved" /\ SettleErr(r, q) = "ok"
    BY DEF SettleBalances
<1>2. /\ quota' \in [Users -> 0..MaxInt]
      /\ sub' \in [Subs -> SubscriptionRow]
      /\ tok' \in [Tokens -> TokenRow]
      /\ net' \in [Requests -> LedgerTotals]
    BY <1>1, SettleOk, MoveBalancesType DEF SettleBalances, MoveHold, CoreInv
<1>3. acct' \in [Users -> AccountRow]
    BY ReleaseType DEF SettleBalances, CoreInv
<1>4. pre' = AdjustedRecord(r, q) /\ debt' = debt
    BY DEF SettleBalances
<1> QED BY <1>1, <1>2, <1>3, <1>4, AdjustedRecordFacts

\* What refundBillingReservationTx does to everything but the row.
LEMMA RefundBalancesCore ==
    ASSUME CoreInv, NEW r \in Requests, RefundBalances(r)
    PROVE  /\ resv[r].status = "reserved"
           /\ quota' \in [Users -> 0..MaxInt]
           /\ sub' \in [Subs -> SubscriptionRow]
           /\ tok' \in [Tokens -> TokenRow]
           /\ net' \in [Requests -> LedgerTotals]
           /\ acct' \in [Users -> AccountRow]
           /\ pre' \in [Requests -> PreConsumeRow]
           /\ \A p \in Requests \ {r} : pre'[p] = pre[p]
           /\ debt' = debt
<1>1. resv[r].status = "reserved" /\ RefundErr(r) = "ok"
    BY DEF RefundBalances
<1>2. /\ quota' \in [Users -> 0..MaxInt]
      /\ sub' \in [Subs -> SubscriptionRow]
      /\ tok' \in [Tokens -> TokenRow]
      /\ net' \in [Requests -> LedgerTotals]
    BY <1>1, RefundOk, MoveBalancesType DEF RefundBalances, CoreInv
<1>3. acct' \in [Users -> AccountRow] /\ debt' = debt
    BY ReleaseType DEF RefundBalances, CoreInv
<1>4. pre' \in [Requests -> PreConsumeRow] /\ \A p \in Requests \ {r} : pre'[p] = pre[p]
    BY DEF RefundBalances, CoreInv, TypeOK, PreConsumeRow
<1> QED BY <1>1, <1>2, <1>3, <1>4

\* A further revision of a row changes nothing else.
LEMMA NextRevision ==
    ASSUME NEW r \in Requests, NEW x, RowHolds(r, x)
    PROVE  /\ RowHolds(r, Revised(x))
           /\ Revised(x).status = x.status /\ Revised(x).reserved = x.reserved
           /\ Revised(x).funding = x.funding /\ Revised(x).version = x.version + 1
           /\ x.version + 1 \in Nat
<1> DEFINE version == x.version + 1
           y == Revised(x)
<1>1. x \in ReservationRow /\ version \in Nat /\ y = [x EXCEPT !.version = version]
    BY RowFields DEF RowHolds, Revised
<1> HIDE DEF version, y
<1>2. y \in ReservationRow
    BY <1>1, Zenon DEF ReservationRow
<1>3. /\ y.status = x.status /\ y.reserved = x.reserved /\ y.tokenReserved = x.tokenReserved
      /\ y.settled = x.settled /\ y.version = version /\ y.funding = x.funding
    BY <1>1 DEF ReservationRow
<1>4. RowHolds(r, y)
    BY <1>2, <1>3 DEF RowHolds
<1> QED BY <1>1, <1>3, <1>4 DEF version, y

\* A terminal row needs no pre-consume record any more.
LEMMA TerminalRowCore ==
    ASSUME CoreInv, NEW r \in Requests, NEW row, RowHolds(r, row), row.status # "reserved",
           resv' = [resv EXCEPT ![r] = row],
           \A p \in Requests \ {r} : pre'[p] = pre[p]
    PROVE  /\ resv' \in [Requests -> ReservationRow]
           /\ HoldsAgree' /\ RecordMirrorsReservation'
BY RowChange

\* Every caller of settleBillingReservationTx.
LEMMA SettleCore ==
    ASSUME CoreInv, NEW r \in Requests, NEW q \in 0..MaxInt,
           \/ SettleBillingReservation(r, q)
           \/ ResolveByAdminSettle(r, q, resv[r].version)
           \/ SettleTaskBillingReservation(r, q)
    PROVE  CoreInv'
<1> DEFINE row == SettledRow(r, q)
<1>1. SettleBalances(r, q)
    BY DEF SettleBillingReservation, ResolveByAdminSettle, SettleTaskBillingReservation
<1>2. /\ resv[r].status = "reserved"
      /\ quota' \in [Users -> 0..MaxInt]
      /\ sub' \in [Subs -> SubscriptionRow]
      /\ tok' \in [Tokens -> TokenRow]
      /\ net' \in [Requests -> LedgerTotals]
      /\ acct' \in [Users -> AccountRow]
      /\ pre' \in [Requests -> PreConsumeRow]
      /\ \A p \in Requests \ {r} : pre'[p] = pre[p]
      /\ debt' = debt
    BY <1>1, SettleBalancesCore
<1>3. RowHolds(r, row) /\ row.status = "settled" /\ row.version \in Nat
    BY <1>2, SettledRowFields
<1>4. /\ RowHolds(r, Revised(row))
      /\ Revised(row).status = "settled"
      /\ row.version + 1 \in Nat
    BY <1>3, NextRevision
<1>5. resv[r].version + 1 \in Nat
    BY RowTypes DEF CoreInv
<1>6. task' \in [Requests -> TaskRow]
    <2>1. CASE task' = task
        BY <2>1 DEF CoreInv, TypeOK
    <2>2. CASE SettleTaskBillingReservation(r, q)
        <3>1. [task[r] EXCEPT !.quota = q, !.intent = NoIntent] \in TaskRow
            BY Zenon DEF CoreInv, TypeOK, TaskRow
        <3> QED BY <2>2, <3>1 DEF SettleTaskBillingReservation, CoreInv, TypeOK
    <2> QED BY <2>1, <2>2 DEF SettleBillingReservation, ResolveByAdminSettle
<1>7. \/ resv' = [resv EXCEPT ![r] = row]
      \/ resv' = [resv EXCEPT ![r] = Revised(row)]
    BY DEF SettleBillingReservation, ResolveByAdminSettle, SettleTaskBillingReservation
<1>8. keys' \subseteq Requests \X Phases \X Nat
    <2>1. /\ <<r, "settle", resv[r].version + 1>> \in Requests \X Phases \X Nat
          /\ <<r, "admin_resolution", row.version + 1>> \in Requests \X Phases \X Nat
        BY <1>4, <1>5, KeyType DEF Phases
    <2> HIDE DEF row
    <2>2. \/ Post({<<r, "settle", resv[r].version + 1>>})
          \/ Post({<<r, "settle", resv[r].version + 1>>,
                   <<r, "admin_resolution", row.version + 1>>})
        BY DEF SettleBillingReservation, ResolveByAdminSettle, SettleTaskBillingReservation, row
    <2> QED BY <2>1, <2>2, PostType DEF CoreInv
<1> HIDE DEF row
<1>9. resv' \in [Requests -> ReservationRow] /\ HoldsAgree' /\ RecordMirrorsReservation'
    BY <1>2, <1>3, <1>4, <1>7, TerminalRowCore
<1> QED BY <1>2, <1>6, <1>8, <1>9 DEF CoreInv, TypeOK

\* Every caller of refundBillingReservationTx.
LEMMA RefundCore ==
    ASSUME CoreInv, NEW r \in Requests,
           \/ RefundBillingReservation(r)
           \/ ResolveByAdminRefund(r, resv[r].version)
           \/ RefundTaskBillingReservation(r)
    PROVE  CoreInv'
<1> DEFINE row == RefundedRow(r)
<1>1. RefundBalances(r)
    BY DEF RefundBillingReservation, ResolveByAdminRefund, RefundTaskBillingReservation
<1>2. /\ resv[r].status = "reserved"
      /\ quota' \in [Users -> 0..MaxInt]
      /\ sub' \in [Subs -> SubscriptionRow]
      /\ tok' \in [Tokens -> TokenRow]
      /\ net' \in [Requests -> LedgerTotals]
      /\ acct' \in [Users -> AccountRow]
      /\ pre' \in [Requests -> PreConsumeRow]
      /\ \A p \in Requests \ {r} : pre'[p] = pre[p]
      /\ debt' = debt
    BY <1>1, RefundBalancesCore
<1>3. RowHolds(r, row) /\ row.status = "refunded"
    BY <1>2, RefundedRowFields
<1>4. /\ RowHolds(r, Revised(row))
      /\ Revised(row).status = "refunded"
      /\ row.version + 1 \in Nat
    BY <1>3, NextRevision
<1>5. resv[r].version + 1 \in Nat
    BY RowTypes DEF CoreInv
<1>6. task' \in [Requests -> TaskRow]
    <2>1. CASE task' = task
        BY <2>1 DEF CoreInv, TypeOK
    <2>2. CASE RefundTaskBillingReservation(r)
        <3>1. [task[r] EXCEPT !.intent = NoIntent] \in TaskRow
            BY Zenon DEF CoreInv, TypeOK, TaskRow
        <3> QED BY <2>2, <3>1 DEF RefundTaskBillingReservation, CoreInv, TypeOK
    <2> QED BY <2>1, <2>2 DEF RefundBillingReservation, ResolveByAdminRefund
<1>7. \/ resv' = [resv EXCEPT ![r] = row]
      \/ resv' = [resv EXCEPT ![r] = Revised(row)]
    BY DEF RefundBillingReservation, ResolveByAdminRefund, RefundTaskBillingReservation
<1>8. keys' \subseteq Requests \X Phases \X Nat
    <2>1. /\ <<r, "refund", resv[r].version + 1>> \in Requests \X Phases \X Nat
          /\ <<r, "admin_resolution", row.version + 1>> \in Requests \X Phases \X Nat
        BY <1>4, <1>5, KeyType DEF Phases
    <2> HIDE DEF row
    <2>2. \/ Post({<<r, "refund", resv[r].version + 1>>})
          \/ Post({<<r, "refund", resv[r].version + 1>>,
                   <<r, "admin_resolution", row.version + 1>>})
        BY DEF RefundBillingReservation, ResolveByAdminRefund, RefundTaskBillingReservation, row
    <2> QED BY <2>1, <2>2, PostType DEF CoreInv
<1> HIDE DEF row
<1>9. resv' \in [Requests -> ReservationRow] /\ HoldsAgree' /\ RecordMirrorsReservation'
    BY <1>2, <1>3, <1>4, <1>7, TerminalRowCore
<1> QED BY <1>2, <1>6, <1>8, <1>9 DEF CoreInv, TypeOK

\* recordBillingReconcileReview.
LEMMA ReviewCore ==
    ASSUME CoreInv, NEW r \in Requests, RecordBillingReconcileReview(r)
    PROVE  CoreInv'
<1> DEFINE row == [resv[r] EXCEPT !.reviewed = TRUE]
<1>1. resv[r] \in ReservationRow /\ resv[r].version \in Nat /\ resv[r].status = "reserved"
    BY RowTypes DEF CoreInv, RecordBillingReconcileReview
<1>2. row \in ReservationRow
    BY <1>1, Zenon DEF ReservationRow
<1>3. /\ row.status = resv[r].status /\ row.reserved = resv[r].reserved
      /\ row.tokenReserved = resv[r].tokenReserved /\ row.funding = resv[r].funding
    BY <1>1 DEF ReservationRow
<1>4. resv' = [resv EXCEPT ![r] = row] /\ pre' = pre
    BY DEF RecordBillingReconcileReview
<1>5. keys' \subseteq Requests \X Phases \X Nat
    <2>1. <<r, "reconcile_review", resv[r].version>> \in Requests \X Phases \X Nat
        BY <1>1, KeyType DEF Phases
    <2> QED BY <2>1, PostType DEF RecordBillingReconcileReview, CoreInv
<1> HIDE DEF row
<1>6. RowHolds(r, row)
    BY <1>1, <1>2, <1>3 DEF RowHolds, CoreInv, HoldsAgree
<1>7. row.funding = "subscription" => pre'[r] = RecordFor(row)
    BY <1>1, <1>3, <1>4 DEF CoreInv, RecordMirrorsReservation, RecordFor
<1>8. resv' \in [Requests -> ReservationRow] /\ HoldsAgree' /\ RecordMirrorsReservation'
    BY <1>4, <1>6, <1>7, RowChange
<1> QED BY <1>5, <1>8 DEF RecordBillingReconcileReview, CoreInv, TypeOK

\* CreateTaskWithBillingReservation, for a first and a repeated binding.
LEMMA CreateTaskCore ==
    ASSUME CoreInv, NEW r \in Requests, NEW target \in 0..MaxInt, NEW done \in BOOLEAN,
           CreateTaskWithBillingReservation(r, target, done)
    PROVE  CoreInv'
<1> DEFINE row == AdjustedRow(r, target)
           version == row.version + 1
           linked == [row EXCEPT !.bound = TRUE]
           bound == Revised(linked)
<1>1. AdjustErr(r, target, "reserve", FALSE) = "ok" /\ resv[r].status = "reserved"
    BY DEF CreateTaskWithBillingReservation, CreateTaskErr
<1>2. /\ quota' \in [Users -> 0..MaxInt]
      /\ sub' \in [Subs -> SubscriptionRow]
      /\ tok' \in [Tokens -> TokenRow]
      /\ net' \in [Requests -> LedgerTotals]
    BY <1>1, AdjustOk, MoveBalancesType DEF CreateTaskWithBillingReservation, MoveHold, CoreInv
<1>3. /\ pre' \in [Requests -> PreConsumeRow]
      /\ \A p \in Requests \ {r} : pre'[p] = pre[p]
      /\ resv[r].funding = "subscription" =>
            pre'[r] = [status |-> "consumed", amount |-> target]
    BY <1>1, AdjustedRecordFacts DEF CreateTaskWithBillingReservation
<1>4. /\ RowHolds(r, row) /\ row \in ReservationRow /\ row.reserved = target
      /\ row.funding = resv[r].funding /\ row.status = "reserved"
      /\ row.version \in Nat /\ version \in Nat
    BY <1>1, AdjustedRowFields, RowFields DEF RowHolds
<1>5. \/ resv' = [resv EXCEPT ![r] = row]
      \/ resv' = [resv EXCEPT ![r] = bound]
    BY DEF CreateTaskWithBillingReservation
<1>6. task' \in [Requests -> TaskRow]
    <2>1. [status |-> IF done THEN "success" ELSE "active", quota |-> target,
           intent |-> IF done THEN target ELSE NoIntent] \in TaskRow
        BY DEF TaskRow
    <2>2. CASE task' = task
        BY <2>2 DEF CoreInv, TypeOK
    <2> QED BY <2>1, <2>2 DEF CreateTaskWithBillingReservation, CoreInv, TypeOK
<1>7. keys' \subseteq Requests \X Phases \X Nat
    <2>1. /\ <<r, "reserve", row.version>> \in Requests \X Phases \X Nat
          /\ <<r, "bind", version>> \in Requests \X Phases \X Nat
        BY <1>4, KeyType DEF Phases
    <2>2. \E entries \in SUBSET {<<r, "reserve", row.version>>, <<r, "bind", version>>} :
            Post(entries)
        BY DEF CreateTaskWithBillingReservation
    <2> HIDE DEF row, version
    <2> QED BY <2>1, <2>2, PostType DEF CoreInv
<1> HIDE DEF row, version
<1>8. linked \in ReservationRow
    BY <1>4, Zenon DEF ReservationRow
<1>9. /\ linked.status = "reserved" /\ linked.reserved = target
      /\ linked.tokenReserved = row.tokenReserved /\ linked.funding = row.funding
    BY <1>4 DEF ReservationRow
<1>10. /\ RowHolds(r, bound) /\ bound.status = "reserved" /\ bound.reserved = target
       /\ bound.funding = row.funding
    <2> HIDE DEF linked
    <2>1. RowHolds(r, linked)
        BY <1>4, <1>8, <1>9 DEF RowHolds
    <2> QED BY <1>9, <2>1, NextRevision
<1> HIDE DEF bound
<1>11. resv' \in [Requests -> ReservationRow] /\ HoldsAgree' /\ RecordMirrorsReservation'
    <2>1. \A x \in {row, bound} : x.funding = "subscription" => pre'[r] = RecordFor(x)
        BY <1>3, <1>4, <1>10 DEF RecordFor
    <2> QED BY <1>3, <1>4, <1>5, <1>10, <2>1, RowChange
<1> QED
    BY <1>2, <1>3, <1>6, <1>7, <1>11 DEF CreateTaskWithBillingReservation, CoreInv, TypeOK

\* The row of a request that has no reservation yet.
LEMMA AbsentRowType == AbsentRow \in ReservationRow
<1>1. 0 \in 0..MaxInt /\ 0 \in Nat
    BY SizeAssumption
<1> QED BY <1>1, Zenon DEF AbsentRow, ReservationRow, NoSub, Status

\* The row PreConsumeBillingReservation inserts.
LEMMA FreshRowFields ==
    ASSUME NEW r \in Requests, NEW q \in 0..MaxInt, NEW funding \in {"wallet", "subscription"}
    PROVE  LET row == FreshRow(r, funding, q) IN
           /\ RowHolds(r, row) /\ row.status = "reserved" /\ row.reserved = q
           /\ row.funding = funding /\ row.version = 1 /\ row.freeze = FALSE
<1> DEFINE hold == IF TokenOf[r] = NoToken THEN 0 ELSE q
           row == FreshRow(r, funding, q)
<1>1. 0 \in 0..MaxInt /\ 0 \in Nat /\ 1 \in Nat /\ hold \in 0..MaxInt
    BY SizeAssumption
<1>2. AbsentRow \in ReservationRow /\ AbsentRow.freeze = FALSE
    BY AbsentRowType DEF AbsentRow
<1>3. row = [AbsentRow EXCEPT !.status = "reserved", !.funding = funding, !.initial = q,
                              !.reserved = q, !.version = 1, !.tokenReserved = hold]
    BY DEF FreshRow
<1> HIDE DEF hold, row
<1>4. row \in ReservationRow
    BY <1>1, <1>2, <1>3, Zenon DEF ReservationRow
<1>5. /\ row.status = "reserved" /\ row.reserved = q /\ row.tokenReserved = hold
      /\ row.funding = funding /\ row.version = 1 /\ row.freeze = AbsentRow.freeze
    BY <1>2, <1>3 DEF ReservationRow
<1> QED BY <1>2, <1>4, <1>5 DEF RowHolds, hold, row

\* The same for a subscription, with its id and quota period.
LEMMA SubscriptionFreshRowFields ==
    ASSUME NEW r \in Requests, NEW q \in 0..MaxInt, NEW s \in Subs, NEW epoch \in Nat
    PROVE  LET row == SubscriptionFreshRow(r, q, s, epoch) IN
           /\ RowHolds(r, row) /\ row.status = "reserved" /\ row.reserved = q
           /\ row.funding = "subscription" /\ row.version = 1
<1> DEFINE fresh == FreshRow(r, "subscription", q)
           row == SubscriptionFreshRow(r, q, s, epoch)
<1>1. /\ fresh \in ReservationRow /\ fresh.status = "reserved" /\ fresh.reserved = q
      /\ fresh.funding = "subscription" /\ fresh.version = 1 /\ fresh.freeze = FALSE
      /\ RowHolds(r, fresh)
    BY FreshRowFields DEF RowHolds
<1> HIDE DEF fresh
<1>2. row = [fresh EXCEPT !.subId = s, !.epoch = epoch]
    BY DEF fresh, SubscriptionFreshRow
<1> HIDE DEF row
<1>3. row \in ReservationRow
    BY <1>1, <1>2, Zenon DEF ReservationRow
<1>4. /\ row.status = fresh.status /\ row.reserved = fresh.reserved
      /\ row.tokenReserved = fresh.tokenReserved /\ row.funding = fresh.funding
      /\ row.version = fresh.version /\ row.freeze = fresh.freeze
    BY <1>1, <1>2 DEF ReservationRow
<1> QED BY <1>1, <1>3, <1>4 DEF RowHolds, row

\* The first charge keeps the token's counters in range.
LEMMA TokenChargeType ==
    ASSUME TypeOK, NEW r \in Requests, NEW q \in 0..MaxInt, NEW funding,
           resv[r].status = "absent", PreConsumeErr(r, funding, q) = "ok", TokenCharge(r, q)
    PROVE  /\ tok' \in [Tokens -> TokenRow]
           /\ \A t \in Tokens : tok'[t].exists = tok[t].exists
<1>1. q \in Int /\ TokenOf[r] \in Tokens \cup {NoToken}
    BY IdentityAssumption, SizeAssumption
<1>2. CASE TokenOf[r] = NoToken
    BY <1>2 DEF TokenCharge, TypeOK
<1>3. CASE TokenOf[r] # NoToken
    <2>1. TokenErr(TokenOf[r], q) = "ok"
        BY <1>3 DEF PreConsumeErr, Then
    <2>2. /\ TokenAfter(TokenOf[r], q) \in TokenRow
          /\ TokenAfter(TokenOf[r], q).exists = tok[TokenOf[r]].exists
        BY <1>1, <1>3, <2>1, TokenAfterType
    <2> QED BY <1>1, <1>3, <2>2 DEF TokenCharge, TypeOK
<1> QED BY <1>2, <1>3

\* The first ledger entry of a request.
LEMMA FirstEntryType ==
    ASSUME NEW r \in Requests, NEW funding, NEW q \in 0..MaxInt
    PROVE  FirstEntry(r, funding, q) \in LedgerTotals
BY SizeAssumption DEF FirstEntry, LedgerTotals

\* PreConsumeBillingReservation from the wallet.
LEMMA PreConsumeWalletCore ==
    ASSUME CoreInv, NEW r \in Requests, NEW q \in 0..MaxInt, PreConsumeWallet(r, q)
    PROVE  CoreInv'
<1>1. resv[r].status = "absent" /\ PreConsumeErr(r, "wallet", q) = "ok"
    BY DEF PreConsumeWallet
<1>2. quota' \in [Users -> 0..MaxInt]
    <2>1. UserErr(UserOf[r], q) = "ok"
        BY <1>1 DEF PreConsumeErr, Then
    <2>2. quota[UserOf[r]] - q \in 0..MaxInt
        BY <2>1, UserErrOk, IdentityAssumption, SizeAssumption DEF CoreInv
    <2> QED BY <2>2 DEF PreConsumeWallet, CoreInv, TypeOK
<1>3. tok' \in [Tokens -> TokenRow]
    BY <1>1, TokenChargeType DEF PreConsumeWallet, CoreInv
<1>4. net' \in [Requests -> LedgerTotals]
    BY FirstEntryType DEF PreConsumeWallet, CoreInv, TypeOK
<1>5. keys' \subseteq Requests \X Phases \X Nat
    <2>1. <<r, "reserve", 1>> \in Requests \X Phases \X Nat
        BY KeyType DEF Phases
    <2> QED BY <2>1, PostType DEF PreConsumeWallet, CoreInv
<1>6. resv' \in [Requests -> ReservationRow] /\ HoldsAgree' /\ RecordMirrorsReservation'
    <2> DEFINE row == FreshRow(r, "wallet", q)
    <2>1. RowHolds(r, row) /\ row.funding = "wallet"
        BY FreshRowFields
    <2>2. resv' = [resv EXCEPT ![r] = row] /\ pre' = pre
        BY DEF PreConsumeWallet
    <2> HIDE DEF row
    <2> QED BY <2>1, <2>2, RowChange
<1> QED
    BY <1>2, <1>3, <1>4, <1>5, <1>6 DEF PreConsumeWallet, CoreInv, TypeOK

\* A quota reset keeps a subscription well typed.
LEMMA ResetIfDueType ==
    ASSUME NEW x \in SubscriptionRow
    PROVE  ResetIfDue(x) \in SubscriptionRow
<1> DEFINE total == Larger(x.total, x.used)
           version == x.version + 1
<1>1. total \in Nat /\ version \in Nat /\ 0 \in Nat
    BY DEF SubscriptionRow, Larger
<1>2. CASE x.due
    <2>1. ResetIfDue(x) = [x EXCEPT !.total = total, !.used = 0, !.version = version,
                                    !.due = FALSE]
        BY <1>2 DEF ResetIfDue
    <2> HIDE DEF total, version
    <2> QED BY <1>1, <2>1, Zenon DEF SubscriptionRow
<1>3. CASE ~x.due
    BY <1>3 DEF ResetIfDue
<1> QED BY <1>2, <1>3

\* PreConsumeBillingReservation from a subscription: the scanned
\* subscriptions are reset, one is charged, and the record is inserted.
LEMMA PreConsumeSubscriptionCore ==
    ASSUME CoreInv, NEW r \in Requests, NEW q \in 0..MaxInt, PreConsumeSubscription(r, q)
    PROVE  CoreInv'
<1>1. resv[r].status = "absent" /\ PreConsumeErr(r, "subscription", q) = "ok"
    BY DEF PreConsumeSubscription
<1>2. tok' \in [Tokens -> TokenRow]
    BY <1>1, TokenChargeType DEF PreConsumeSubscription, CoreInv
<1>3. net' \in [Requests -> LedgerTotals]
    BY FirstEntryType DEF PreConsumeSubscription, CoreInv, TypeOK
<1>4. keys' \subseteq Requests \X Phases \X Nat
    <2>1. <<r, "reserve", 1>> \in Requests \X Phases \X Nat
        BY KeyType DEF Phases
    <2> QED BY <2>1, PostType DEF PreConsumeSubscription, CoreInv
<1>5. PICK s \in Subs :
        LET charged == ResetIfDue(sub[s]) IN
        /\ sub' = [p \in Subs |->
             IF p = s
             THEN [charged EXCEPT !.total = Larger(@, charged.used) + q, !.used = @ + q]
             ELSE IF p \in ActiveSubs(UserOf[r]) /\ p < s
                  THEN ResetIfDue(sub[p]) ELSE sub[p]]
        /\ resv' = [resv EXCEPT ![r] = SubscriptionFreshRow(r, q, s, charged.version)]
    BY DEF PreConsumeSubscription, Pick, ActiveSubs
<1> DEFINE charged == ResetIfDue(sub[s])
           row == SubscriptionFreshRow(r, q, s, charged.version)
<1>6. \A p \in Subs : sub[p] \in SubscriptionRow /\ ResetIfDue(sub[p]) \in SubscriptionRow
    BY ResetIfDueType DEF CoreInv, TypeOK
<1>7. charged \in SubscriptionRow /\ charged.version \in Nat
    BY <1>6 DEF SubscriptionRow
<1>8. sub' \in [Subs -> SubscriptionRow]
    <2> DEFINE total == Larger(charged.total, charged.used) + q
               used == charged.used + q
    <2>1. total \in Nat /\ used \in Nat
        BY <1>7, SizeAssumption DEF SubscriptionRow, Larger
    <2> HIDE DEF total, used
    <2>2. [charged EXCEPT !.total = total, !.used = used] \in SubscriptionRow
        BY <1>7, <2>1, Zenon DEF SubscriptionRow
    <2>3. [charged EXCEPT !.total = Larger(@, charged.used) + q, !.used = @ + q]
            \in SubscriptionRow
        BY <2>2 DEF total, used
    <2> HIDE DEF charged
    <2> QED BY <1>5, <1>6, <2>3 DEF charged
<1>9. /\ pre' \in [Requests -> PreConsumeRow]
      /\ \A p \in Requests \ {r} : pre'[p] = pre[p]
      /\ pre'[r] = [status |-> "consumed", amount |-> q]
    BY DEF PreConsumeSubscription, CoreInv, TypeOK, PreConsumeRow
<1>10. resv' \in [Requests -> ReservationRow] /\ HoldsAgree' /\ RecordMirrorsReservation'
    <2>1. RowHolds(r, row) /\ row.reserved = q
        <3>1. \A epoch \in Nat : /\ RowHolds(r, SubscriptionFreshRow(r, q, s, epoch))
                               /\ SubscriptionFreshRow(r, q, s, epoch).reserved = q
            BY SubscriptionFreshRowFields
        <3> HIDE DEF charged
        <3> QED BY <1>7, <3>1
    <2>2. resv' = [resv EXCEPT ![r] = row]
        BY <1>5
    <2> HIDE DEF row
    <2>3. pre'[r] = RecordFor(row)
        BY <1>9, <2>1 DEF RecordFor
    <2> QED BY <1>9, <2>1, <2>2, <2>3, RowChange
<1> QED
    BY <1>2, <1>3, <1>4, <1>8, <1>9, <1>10 DEF PreConsumeSubscription, CoreInv, TypeOK

\* The seeded database satisfies the invariant.
LEMMA InitCore == Init => CoreInv
<1> SUFFICES ASSUME Init PROVE CoreInv
    OBVIOUS
<1>1. 0 \in 0..MaxInt /\ 0 \in Nat /\ 0 \in Int /\ 0 \in MinInt..MaxInt
    BY SizeAssumption DEF MinInt
<1>2. quota \in [Users -> 0..MaxInt] /\ keys \subseteq Requests \X Phases \X Nat
    BY SizeAssumption DEF Init
<1>3. acct \in [Users -> AccountRow]
    BY IdentityAssumption DEF Init, AccountRow, Status
<1>4. tok \in [Tokens -> TokenRow]
    BY <1>1, SizeAssumption DEF Init, TokenRow
<1>5. sub \in [Subs -> SubscriptionRow]
    BY <1>1, SizeAssumption DEF Init, SubscriptionRow
<1>6. resv \in [Requests -> ReservationRow]
    BY AbsentRowType DEF Init
<1>7. pre \in [Requests -> PreConsumeRow] /\ task \in [Requests -> TaskRow]
    BY <1>1 DEF Init, PreConsumeRow, TaskRow
<1>8. debt \in [Users -> DebtRow]
    BY DEF Init, DebtRow, Status
<1>9. net \in [Requests -> LedgerTotals]
    BY <1>1 DEF Init, NoDelta, LedgerTotals
<1>10. \A r \in Requests :
         /\ resv[r].status = "absent" /\ resv[r].reserved = 0 /\ resv[r].tokenReserved = 0
    BY DEF Init, AbsentRow
<1>11. HoldsAgree /\ RecordMirrorsReservation
    BY <1>10 DEF HoldsAgree, RecordMirrorsReservation
<1> QED
    BY <1>2, <1>3, <1>4, <1>5, <1>6, <1>7, <1>8, <1>9, <1>11 DEF CoreInv, TypeOK

\* A task changes its state: no balance and no reservation does.
LEMMA TaskOutcomeCore ==
    ASSUME CoreInv, NEW r \in Requests, NEW q \in 0..MaxInt,
           TaskSucceeds(r, q) \/ TaskFails(r) \/ SettleTaskAgain(r, q)
    PROVE  CoreInv'
<1>1. task \in [Requests -> TaskRow] /\ task[r] \in TaskRow
    BY DEF CoreInv, TypeOK
<1>2. /\ [task[r] EXCEPT !.status = "success", !.intent = q] \in TaskRow
      /\ [task[r] EXCEPT !.status = "failure"] \in TaskRow
      /\ [task[r] EXCEPT !.quota = q, !.intent = NoIntent] \in TaskRow
    BY <1>1, Zenon DEF TaskRow
<1>3. task' \in [Requests -> TaskRow]
    BY <1>1, <1>2 DEF TaskSucceeds, TaskFails, SettleTaskAgain
<1> QED
    BY <1>3 DEF TaskSucceeds, TaskFails, SettleTaskAgain, CoreInv, TypeOK, HoldsAgree,
                RecordMirrorsReservation

\* A manual change of a wallet stays within the column's range.
LEMMA WalletCore ==
    ASSUME CoreInv, NEW u \in Users, NEW q \in ManualAmounts,
           IncreaseUserQuota(u, q) \/ DecreaseUserQuota(u, q) \/ OverrideUserQuota(u, q)
    PROVE  CoreInv'
<1>1. quota' \in [Users -> 0..MaxInt]
    BY SizeAssumption
    DEF CoreInv, TypeOK, IncreaseUserQuota, DecreaseUserQuota, OverrideUserQuota
<1> QED
    BY <1>1 DEF IncreaseUserQuota, DecreaseUserQuota, OverrideUserQuota, CoreInv, TypeOK,
                HoldsAgree, RecordMirrorsReservation

\* Deleting a token leaves its counters and every reservation alone.
LEMMA DeleteTokenCore ==
    ASSUME CoreInv, NEW t \in Tokens, DeleteToken(t)
    PROVE  CoreInv'
<1>1. tok[t] \in TokenRow
    BY DEF CoreInv, TypeOK
<1>2. [tok[t] EXCEPT !.exists = FALSE] \in TokenRow
    BY <1>1, Zenon DEF TokenRow
<1>3. tok' \in [Tokens -> TokenRow]
    BY <1>2 DEF DeleteToken, CoreInv, TypeOK
<1> QED
    BY <1>3 DEF DeleteToken, CoreInv, TypeOK, HoldsAgree, RecordMirrorsReservation

\* Periods elapse, subscriptions are reset and end: the reservations they fund stay.
LEMMA SubscriptionCore ==
    ASSUME CoreInv, NEW s \in Subs, NEW advance \in BOOLEAN,
           \/ PeriodElapses(s) \/ ResetDueSubscription(s)
           \/ AdminResetSubscription(s, advance) \/ EndSubscription(s)
    PROVE  CoreInv'
<1> DEFINE x == sub[s]
           total == Larger(x.total, x.used)
           version == x.version + 1
           due == x.due /\ ~advance
<1>1. x \in SubscriptionRow
    BY DEF CoreInv, TypeOK
<1>2. total \in Nat /\ version \in Nat /\ 0 \in Nat /\ due \in BOOLEAN
    BY <1>1 DEF SubscriptionRow, Larger
<1>3. ResetIfDue(x) \in SubscriptionRow
    BY <1>1, ResetIfDueType
<1>4. /\ [x EXCEPT !.due = TRUE] \in SubscriptionRow
      /\ [x EXCEPT !.active = FALSE] \in SubscriptionRow
    <2> HIDE DEF x
    <2> QED BY <1>1, Zenon DEF SubscriptionRow
<1>5. [x EXCEPT !.total = total, !.used = 0, !.version = version, !.due = due]
        \in SubscriptionRow
    <2> HIDE DEF x, total, version, due
    <2> QED BY <1>1, <1>2, Zenon DEF SubscriptionRow
<1>6. \E row \in SubscriptionRow : sub' = [sub EXCEPT ![s] = row]
    <2>1. CASE PeriodElapses(s)
        BY <1>4, <2>1 DEF PeriodElapses
    <2>2. CASE ResetDueSubscription(s)
        BY <1>3, <2>2 DEF ResetDueSubscription
    <2>3. CASE AdminResetSubscription(s, advance)
        BY <1>5, <2>3 DEF AdminResetSubscription
    <2>4. CASE EndSubscription(s)
        BY <1>4, <2>4 DEF EndSubscription
    <2> QED BY <2>1, <2>2, <2>3, <2>4
<1>7. sub' \in [Subs -> SubscriptionRow]
    BY <1>6 DEF CoreInv, TypeOK
<1> QED
    BY <1>7 DEF PeriodElapses, ResetDueSubscription, AdminResetSubscription, EndSubscription,
                CoreInv, TypeOK, HoldsAgree, RecordMirrorsReservation

\* Cleanup takes no record of an open reservation.
LEMMA CleanupCore ==
    ASSUME CoreInv, NEW r \in Requests, CleanupSubscriptionPreConsumeRecord(r)
    PROVE  CoreInv'
<1>1. [status |-> "none", amount |-> 0] \in PreConsumeRow
    BY SizeAssumption DEF PreConsumeRow
<1>2. pre' \in [Requests -> PreConsumeRow] /\ \A p \in Requests \ {r} : pre'[p] = pre[p]
    BY <1>1 DEF CleanupSubscriptionPreConsumeRecord, CoreInv, TypeOK
<1>3. resv' = resv /\ resv[r].status # "reserved"
    BY DEF CleanupSubscriptionPreConsumeRecord
<1>4. RecordMirrorsReservation' /\ HoldsAgree'
    BY <1>2, <1>3 DEF CoreInv, RecordMirrorsReservation, HoldsAgree
<1> QED
    BY <1>2, <1>4 DEF CleanupSubscriptionPreConsumeRecord, CoreInv, TypeOK

\* A liability or an administrator changes the account, not the quota.
LEMMA AccountCore ==
    ASSUME CoreInv, NEW u \in Users,
           \/ AddPaymentDebt(u) \/ ResolvePaymentDebt(u)
           \/ ManageUserDisable(u) \/ EnableUserIfNoPaymentFreeze(u)
    PROVE  CoreInv'
<1>1. /\ acct \in [Users -> AccountRow] /\ acct[u] \in AccountRow /\ acct[u].status \in Status
      /\ debt \in [Users -> DebtRow] /\ debt[u] \in DebtRow
    BY DEF CoreInv, TypeOK, AccountRow
<1>2. acct' \in [Users -> AccountRow]
    <2>1. CASE AddPaymentDebt(u) \/ ResolvePaymentDebt(u)
        BY <2>1, AccountTypes DEF CoreInv, AddPaymentDebt, ResolvePaymentDebt
    <2>2. CASE ManageUserDisable(u)
        <3>1. [acct[u] EXCEPT !.status = "disabled"] \in AccountRow
            BY <1>1, Zenon DEF AccountRow, Status
        <3> QED BY <1>1, <2>2, <3>1 DEF ManageUserDisable
    <2>3. CASE EnableUserIfNoPaymentFreeze(u)
        BY <1>1, <2>3 DEF EnableUserIfNoPaymentFreeze, AccountRow, Status
    <2> QED BY <2>1, <2>2, <2>3
<1>3. debt' \in [Users -> DebtRow]
    <2>1. CASE AddPaymentDebt(u)
        <3>1. PaymentFreezePreviousUserStatus(u) \in Status
            BY <1>1 DEF PaymentFreezePreviousUserStatus, Status
        <3> QED BY <1>1, <2>1, <3>1 DEF AddPaymentDebt, DebtRow
    <2>2. CASE ResolvePaymentDebt(u)
        <3>1. [debt[u] EXCEPT !.open = FALSE] \in DebtRow
            BY <1>1, Zenon DEF DebtRow
        <3> QED BY <1>1, <2>2, <3>1 DEF ResolvePaymentDebt
    <2>3. CASE ManageUserDisable(u) \/ EnableUserIfNoPaymentFreeze(u)
        BY <1>1, <2>3 DEF ManageUserDisable, EnableUserIfNoPaymentFreeze
    <2> QED BY <2>1, <2>2, <2>3
<1> QED
    BY <1>2, <1>3
    DEF AddPaymentDebt, ResolvePaymentDebt, ManageUserDisable, EnableUserIfNoPaymentFreeze,
        CoreInv, TypeOK, HoldsAgree, RecordMirrorsReservation

\* Every action preserves the core invariant.
LEMMA StepCore == CoreInv /\ [Next]_vars => CoreInv'
<1> SUFFICES ASSUME CoreInv, [Next]_vars PROVE CoreInv'
    OBVIOUS
<1>1. Amounts \subseteq 0..MaxInt /\ FailureCodes \subseteq BillingSettlementFailures
      /\ TaskRequests \subseteq Requests
    BY SizeAssumption, IdentityAssumption
<1>2. ASSUME NEW r \in Requests, RequestStep(r) PROVE CoreInv'
    <2>1. ASSUME NEW q \in Amounts,
                 \/ PrepareBillingReservationSettlement(r, q)
                 \/ AdvanceUnboundBillingReservationSettlementIntent(r, q)
          PROVE  CoreInv'
        BY <1>1, <2>1, IntentCore DEF PrepareBillingReservationSettlement,
                               AdvanceUnboundBillingReservationSettlementIntent
    <2> QED
        BY <1>1, <1>2, <2>1, PreConsumeWalletCore, PreConsumeSubscriptionCore, ExtendCore,
           MarkCore, SettleCore, RefundCore, ReviewCore
        DEF RequestStep
<1>3. ASSUME NEW r \in TaskRequests, TaskStep(r) PROVE CoreInv'
    <2>1. 0 \in 0..MaxInt
        BY SizeAssumption
    <2>2. ASSUME NEW q \in Amounts, PrepareTaskBillingReservationSettlement(r, q)
          PROVE  CoreInv'
        BY <1>1, <2>2, IntentCore DEF PrepareTaskBillingReservationSettlement
    <2> QED
        BY <1>1, <1>3, <2>1, <2>2, CreateTaskCore, TaskOutcomeCore, SettleCore, RefundCore
        DEF TaskStep
<1>4. ASSUME AccountStep PROVE CoreInv'
    BY <1>4, WalletCore, DeleteTokenCore, SubscriptionCore, CleanupCore, AccountCore
    DEF AccountStep
<1>5. CASE UNCHANGED vars
    BY <1>5 DEF vars, CoreInv, TypeOK, HoldsAgree, RecordMirrorsReservation
<1> QED BY <1>2, <1>3, <1>4, <1>5 DEF Next

\* The inductive invariant of the reservations: types, equal holds and
\* matching pre-consume records are preserved only together (a settlement
\* stays in range because the token holds what the funding source holds).
THEOREM CoreCorrect == Spec => []CoreInv
<1> QED BY InitCore, StepCore, PTL DEF Spec

\* Every balance, counter and row stays in the range of its column: no wallet
\* or token is overdrawn and no counter overflows, whatever the callers do.
THEOREM TypeCorrect == Spec => []TypeOK
<1>1. CoreInv => TypeOK
    BY DEF CoreInv
<1> QED BY <1>1, CoreCorrect, PTL

\* The token is always held for the quota the funding source is held for, and
\* a reservation is settled at exactly what it holds.
THEOREM HoldsAlwaysAgree == Spec => []HoldsAgree
<1>1. CoreInv => HoldsAgree
    BY DEF CoreInv
<1> QED BY <1>1, CoreCorrect, PTL

\* An open subscription reservation always finds its pre-consume record, with
\* its amount: cleanup, resets and retries cannot make settlement impossible.
THEOREM RecordsMirrorReservations == Spec => []RecordMirrorsReservation
<1>1. CoreInv => RecordMirrorsReservation
    BY DEF CoreInv
<1> QED BY <1>1, CoreCorrect, PTL

-----------------------------------------------------------------------------
(***************************************************************************)
(* II.  The ledger                                                         *)
(***************************************************************************)

\* LedgerMirrorsHold for one request with row x, ledger totals n and, if
\* usesToken, an existing token.
Mirrors(r, x, n, usesToken) ==
    LET open == x.status \in {"reserved", "settled"}
        held == IF open THEN x.reserved ELSE 0
        heldToken == IF open THEN x.tokenReserved ELSE 0 IN
    /\ n.user = IF x.funding = "wallet" THEN -held ELSE 0
    /\ n.subTotal = IF x.funding = "subscription" THEN held ELSE 0
    /\ usesToken => /\ n.tokUsed = heldToken
                    /\ n.tokRemain = IF TokenOf[r] \in Unlimited THEN 0 ELSE -heldToken

UsesToken(r) == TokenOf[r] # NoToken /\ tok[TokenOf[r]].exists

\* A row that does not exist has no revision yet.
UnwrittenRows == \A r \in Requests : resv[r].status = "absent" => resv[r].version = 0

LedgerInv == CoreInv /\ LedgerMirrorsHold /\ LedgerBehindRevision /\ UnwrittenRows

Quiet ==
    /\ resv' = resv /\ net' = net /\ keys' = keys
    /\ \A t \in Tokens : tok'[t].exists => tok[t].exists

\* Only r's ledger gains entries, and the wallet moves by what it gains.
Moved(r) ==
    /\ \A p \in Requests \ {r} : net'[p] = net[p]
    /\ quota' = [quota EXCEPT ![UserOf[r]] = @ + net'[r].user - net[r].user]
    /\ \A t \in Tokens : tok'[t].exists = tok[t].exists

\* Ledger entries of r that are not ahead of revision v.
Behind(entries, r, v) == \A k \in entries : k[1] = r /\ k[3] <= v

Recorded(r) ==
    /\ resv[r].status \in {"absent", "reserved"}
    /\ Moved(r)
    /\ \A p \in Requests \ {r} : resv'[p] = resv[p]
    /\ resv'[r].status # "absent"
    /\ resv[r].status = "absent" => resv'[r].status = "reserved"
    /\ resv'[r].version >= resv[r].version
    /\ Behind(keys' \ keys, r, resv'[r].version)
    /\ Mirrors(r, resv'[r], net'[r], UsesToken(r))

-----------------------------------------------------------------------------
\* The invariant, request by request.
LEMMA MirrorsEach ==
    LedgerMirrorsHold <=> \A r \in Requests : Mirrors(r, resv[r], net[r], UsesToken(r))
BY DEF LedgerMirrorsHold, Mirrors, UsesToken, Held, HeldToken

\* The provers do not evaluate -0.
LEMMA MinusZero ==
    ASSUME NEW n \in Int, n = 0
    PROVE  -n = 0
<1>1. PICK m : m = -n
    OBVIOUS
<1>2. m + n = 0 /\ m \in Int
    BY <1>1
<1>3. m = 0
    BY <1>2
<1> QED BY <1>1, <1>3

\* A row that holds nothing is mirrored by an empty ledger.
LEMMA EmptyMirrors ==
    ASSUME NEW r \in Requests, NEW x, x.status \notin {"reserved", "settled"}, NEW n, NEW usesToken,
           n.user = 0, n.subTotal = 0, usesToken => n.tokUsed = 0 /\ n.tokRemain = 0
    PROVE  Mirrors(r, x, n, usesToken)
<1> DEFINE open == x.status \in {"reserved", "settled"}
           held == IF open THEN x.reserved ELSE 0
           heldToken == IF open THEN x.tokenReserved ELSE 0
<1>1. held = 0 /\ held \in Int /\ heldToken = 0 /\ heldToken \in Int
    OBVIOUS
<1> HIDE DEF held, heldToken
<1>2. -held = 0 /\ -heldToken = 0
    BY <1>1, MinusZero
<1>3. /\ n.user = IF x.funding = "wallet" THEN -held ELSE 0
      /\ n.subTotal = IF x.funding = "subscription" THEN held ELSE 0
      /\ usesToken => /\ n.tokUsed = heldToken
                      /\ n.tokRemain = IF TokenOf[r] \in Unlimited THEN 0 ELSE -heldToken
    BY <1>1, <1>2
<1> QED BY <1>3, Zenon DEF Mirrors, held, heldToken

\* An empty row has no wallet entries that do not cancel out.
LEMMA MirroredEmpty ==
    ASSUME NEW r \in Requests, NEW x, x.status \notin {"reserved", "settled"}, NEW n,
           NEW usesToken, Mirrors(r, x, n, usesToken)
    PROVE  n.user = 0
<1> DEFINE held == IF x.status \in {"reserved", "settled"} THEN x.reserved ELSE 0
<1>1. held = 0 /\ held \in Int
    OBVIOUS
<1>2. n.user = IF x.funding = "wallet" THEN -held ELSE 0
    BY Zenon DEF Mirrors
<1> HIDE DEF held
<1>3. -held = 0
    BY <1>1, MinusZero
<1> QED BY <1>2, <1>3

\* MoveBalances adds to a request's ledger exactly what its holds move by, and
\* the wallet moves with it.
LEMMA MoveRecorded ==
    ASSUME CoreInv, LedgerMirrorsHold, NEW r \in Requests, resv[r].status = "reserved",
           NEW delta \in Int, NEW tokenDelta \in Int,
           FundingOk(r, delta), TokenOk(r, tokenDelta), MoveBalances(r, delta, tokenDelta)
    PROVE  /\ Moved(r)
           /\ net'[r].user =
                 IF resv[r].funding = "wallet" THEN -(resv[r].reserved + delta) ELSE 0
           /\ net'[r].subTotal =
                 IF resv[r].funding = "subscription" THEN resv[r].reserved + delta ELSE 0
           /\ UsesToken(r) =>
                 /\ net'[r].tokUsed = resv[r].tokenReserved + tokenDelta
                 /\ net'[r].tokRemain = IF TokenOf[r] \in Unlimited THEN 0
                                        ELSE -(resv[r].tokenReserved + tokenDelta)
<1> DEFINE n == net[r]
           x == resv[r]
           e == EntryFor(r, delta, tokenDelta)
<1>1. /\ x \in ReservationRow /\ x.funding \in {"wallet", "subscription"}
      /\ x.reserved \in 0..MaxInt /\ x.tokenReserved \in 0..MaxInt
    BY RowTypes, RowFields DEF CoreInv
<1>2. /\ n.user \in Int /\ n.subTotal \in Int /\ n.tokUsed \in Int /\ n.tokRemain \in Int
      /\ net \in [Requests -> LedgerTotals]
    BY DEF CoreInv, TypeOK, LedgerTotals
<1>3. /\ n.user = IF x.funding = "wallet" THEN -x.reserved ELSE 0
      /\ n.subTotal = IF x.funding = "subscription" THEN x.reserved ELSE 0
      /\ UsesToken(r) => /\ n.tokUsed = x.tokenReserved
                         /\ n.tokRemain = IF TokenOf[r] \in Unlimited THEN 0
                                          ELSE -x.tokenReserved
    BY MirrorsEach DEF Mirrors
<1>4. /\ e.user = IF x.funding = "wallet" THEN -delta ELSE 0
      /\ e.subTotal = IF x.funding = "subscription" THEN delta ELSE 0
      /\ UsesToken(r) => /\ e.tokUsed = tokenDelta
                         /\ e.tokRemain = IF TokenOf[r] \in Unlimited THEN 0 ELSE -tokenDelta
    BY DEF EntryFor, UsesToken
<1>5. /\ net' = [net EXCEPT ![r] = Plus(n, e)]
      /\ quota' = IF x.funding = "wallet" THEN [quota EXCEPT ![UserOf[r]] = @ - delta] ELSE quota
    BY DEF MoveBalances
<1> HIDE DEF e
<1>6. /\ net'[r].user = n.user + e.user /\ net'[r].subTotal = n.subTotal + e.subTotal
      /\ net'[r].tokUsed = n.tokUsed + e.tokUsed
      /\ net'[r].tokRemain = n.tokRemain + e.tokRemain
    BY <1>2, <1>5 DEF Plus
<1>7. \A p \in Requests \ {r} : net'[p] = net[p]
    BY <1>2, <1>5
<1>8. \A t \in Tokens : tok'[t].exists = tok[t].exists
    BY MoveBalancesType DEF CoreInv
<1>9. quota' = [quota EXCEPT ![UserOf[r]] = @ + net'[r].user - net[r].user]
    <2>1. UserOf[r] \in Users /\ quota \in [Users -> 0..MaxInt] /\ quota[UserOf[r]] \in Int
        BY IdentityAssumption, SizeAssumption DEF CoreInv, TypeOK
    <2>2. CASE x.funding = "wallet"
        <3>1. quota[UserOf[r]] + net'[r].user - net[r].user = quota[UserOf[r]] - delta
            BY <1>2, <1>4, <1>6, <2>1, <2>2
        <3> QED BY <1>5, <2>2, <3>1
    <2>3. CASE x.funding # "wallet"
        <3>1. quota[UserOf[r]] + net'[r].user - net[r].user = quota[UserOf[r]]
            BY <1>2, <1>4, <1>6, <2>1, <2>3
        <3> QED BY <1>5, <2>1, <2>3, <3>1
    <2> QED BY <2>2, <2>3
<1>10. /\ net'[r].user = IF x.funding = "wallet" THEN -(x.reserved + delta) ELSE 0
       /\ net'[r].subTotal = IF x.funding = "subscription" THEN x.reserved + delta ELSE 0
    BY <1>1, <1>3, <1>4, <1>6, SizeAssumption
<1>11. UsesToken(r) =>
         /\ net'[r].tokUsed = x.tokenReserved + tokenDelta
         /\ net'[r].tokRemain = IF TokenOf[r] \in Unlimited THEN 0
                                ELSE -(x.tokenReserved + tokenDelta)
    BY <1>1, <1>3, <1>4, <1>6, SizeAssumption
<1> QED BY <1>7, <1>8, <1>9, <1>10, <1>11 DEF Moved

\* After MoveHold the ledger mirrors a row that holds the target.
LEMMA MoveHoldMirrors ==
    ASSUME CoreInv, LedgerMirrorsHold, NEW r \in Requests, resv[r].status = "reserved",
           NEW target \in 0..MaxInt, MoveHold(r, target),
           FundingOk(r, target - resv[r].reserved), TokenOk(r, target - resv[r].reserved),
           NEW row, RowHolds(r, row), row.status \in {"reserved", "settled"},
           row.reserved = target, row.funding = resv[r].funding
    PROVE  /\ Moved(r)
           /\ Mirrors(r, row, net'[r], UsesToken(r))
<1> DEFINE delta == target - resv[r].reserved
<1>1. /\ resv[r].reserved \in 0..MaxInt /\ delta \in Int
      /\ resv[r].reserved + delta = target
    BY RowTypes, SizeAssumption DEF CoreInv
<1>2. UsesToken(r) => /\ resv[r].tokenReserved = resv[r].reserved
                      /\ row.tokenReserved = target
    BY DEF CoreInv, HoldsAgree, RowHolds, UsesToken
<1>3. MoveBalances(r, delta, delta)
    BY DEF MoveHold
<1> HIDE DEF delta
<1>4. FundingOk(r, delta) /\ TokenOk(r, delta)
    BY DEF delta
<1>5. /\ Moved(r)
      /\ net'[r].user = IF resv[r].funding = "wallet" THEN -target ELSE 0
      /\ net'[r].subTotal = IF resv[r].funding = "subscription" THEN target ELSE 0
      /\ UsesToken(r) =>
            /\ net'[r].tokUsed = target
            /\ net'[r].tokRemain = IF TokenOf[r] \in Unlimited THEN 0 ELSE -target
    BY <1>1, <1>2, <1>3, <1>4, MoveRecorded
<1>6. Mirrors(r, row, net'[r], UsesToken(r))
    BY <1>2, <1>5 DEF Mirrors
<1> QED BY <1>5, <1>6

\* One row is replaced by a later revision and ledger entries are posted.
LEMMA Written ==
    ASSUME CoreInv, NEW r \in Requests, NEW row, resv' = [resv EXCEPT ![r] = row],
           NEW entries, Post(entries), Behind(entries, r, row.version)
    PROVE  /\ resv'[r] = row
           /\ \A p \in Requests \ {r} : resv'[p] = resv[p]
           /\ Behind(keys' \ keys, r, resv'[r].version)
<1>1. resv'[r] = row /\ \A p \in Requests \ {r} : resv'[p] = resv[p]
    BY DEF CoreInv, TypeOK
<1>2. Behind(keys' \ keys, r, row.version)
    BY DEF Post, Behind
<1> QED BY <1>1, <1>2

\* Nothing but the row and the keys changes: the ledger still mirrors the row
\* if the row holds what it held.
LEMMA RowOnlyRecorded ==
    ASSUME CoreInv, LedgerMirrorsHold, NEW r \in Requests, NEW row,
           resv[r].status = "reserved", row.status = "reserved",
           row.reserved = resv[r].reserved, row.tokenReserved = resv[r].tokenReserved,
           row.funding = resv[r].funding, row.version >= resv[r].version,
           resv' = [resv EXCEPT ![r] = row],
           NEW entries, Post(entries), Behind(entries, r, row.version),
           UNCHANGED <<quota, tok, net>>
    PROVE  Recorded(r)
<1>1. Mirrors(r, row, net'[r], UsesToken(r))
    BY MirrorsEach DEF Mirrors
<1>2. quota' = [quota EXCEPT ![UserOf[r]] = @ + net'[r].user - net[r].user]
    <2>0. quota \in [Users -> 0..MaxInt] /\ UserOf[r] \in Users
        BY IdentityAssumption DEF CoreInv, TypeOK
    <2>1. quota[UserOf[r]] \in Int
        BY <2>0, SizeAssumption
    <2>2. net[r].user \in Int
        BY DEF CoreInv, TypeOK, LedgerTotals
    <2>3. quota[UserOf[r]] + net[r].user - net[r].user = quota[UserOf[r]]
        BY <2>1, <2>2
    <2> QED BY <2>0, <2>3
<1>3. resv'[r] = row /\ \A p \in Requests \ {r} : resv'[p] = resv[p]
    BY DEF CoreInv, TypeOK
<1>4. Behind(keys' \ keys, r, row.version)
    BY DEF Post, Behind
<1> QED BY <1>1, <1>2, <1>3, <1>4 DEF Recorded, Moved

-----------------------------------------------------------------------------
\* A settlement intent is a new revision of an open row and moves nothing.
LEMMA IntentRecorded ==
    ASSUME CoreInv, LedgerMirrorsHold, NEW r \in Requests, NEW target \in 0..MaxInt, NEW mode,
           PersistSettlementIntent(r, target, mode)
    PROVE  Recorded(r)
<1> DEFINE row == IntentRow(r, target)
           entries == {<<r, "settle_intent", resv[r].version + 1>>}
<1>1. resv[r].status = "reserved" /\ resv' = [resv EXCEPT ![r] = row] /\ Post(entries)
    BY DEF PersistSettlementIntent, IntentIsNew
<1>2. /\ row.status = "reserved" /\ row.reserved = resv[r].reserved
      /\ row.funding = resv[r].funding /\ row.version = resv[r].version + 1
      /\ row.tokenReserved = resv[r].tokenReserved
    BY <1>1, IntentRowFields DEF RowHolds, CoreInv, HoldsAgree
<1>3. resv[r].version \in Nat
    BY RowTypes DEF CoreInv
<1> HIDE DEF row
<1>4. Behind(entries, r, row.version)
    BY <1>2, <1>3 DEF Behind
<1> HIDE DEF entries
<1>5. row.version >= resv[r].version /\ UNCHANGED <<quota, tok, net>>
    BY <1>2, <1>3 DEF PersistSettlementIntent
<1> QED BY <1>1, <1>2, <1>4, <1>5, RowOnlyRecorded

\* A shortfall is a new revision of an open row, or already recorded.
LEMMA MarkRecorded ==
    ASSUME CoreInv, LedgerMirrorsHold, NEW r \in Requests, NEW target \in 0..MaxInt,
           NEW cause \in BillingSettlementFailures,
           MarkBillingReservationSettlementShortfall(r, target, cause)
    PROVE  Quiet \/ Recorded(r)
<1>1. resv[r].status = "reserved" /\ UNCHANGED <<quota, tok, net>>
    BY DEF MarkBillingReservationSettlementShortfall
<1>2. CASE SameShortfall(r, target, cause)
    BY <1>2 DEF MarkBillingReservationSettlementShortfall, Quiet
<1>3. CASE ~SameShortfall(r, target, cause)
    <2> DEFINE row == ShortfallRow(r, target, cause)
               entries == {<<r, "settle_shortfall", resv[r].version + 1>>}
    <2>1. target > resv[r].reserved
        BY <1>1, ShortfallOk, RowTypes, SizeAssumption
        DEF MarkBillingReservationSettlementShortfall, CoreInv
    <2>2. resv' = [resv EXCEPT ![r] = row] /\ Post(entries)
        BY <1>3 DEF MarkBillingReservationSettlementShortfall
    <2>3. /\ row.status = "reserved" /\ row.reserved = resv[r].reserved
          /\ row.funding = resv[r].funding /\ row.version = resv[r].version + 1
          /\ RowHolds(r, row)
        BY <1>1, <2>1, ShortfallRowFields
    <2>4. resv[r].version \in Nat
        BY RowTypes DEF CoreInv
    <2> HIDE DEF row
    <2>5. Behind(entries, r, row.version)
        BY <2>3, <2>4 DEF Behind
    <2> HIDE DEF entries
    <2>6. row.version >= resv[r].version /\ row.tokenReserved = resv[r].tokenReserved
        BY <2>3, <2>4 DEF RowHolds, CoreInv, HoldsAgree
    <2> QED BY <1>1, <2>2, <2>3, <2>5, <2>6, RowOnlyRecorded
<1> QED BY <1>2, <1>3

\* A reconciliation review marks an open row at its own revision.
LEMMA ReviewRecorded ==
    ASSUME CoreInv, LedgerMirrorsHold, NEW r \in Requests, RecordBillingReconcileReview(r)
    PROVE  Recorded(r)
<1> DEFINE row == [resv[r] EXCEPT !.reviewed = TRUE]
           entries == {<<r, "reconcile_review", resv[r].version>>}
<1>1. resv[r] \in ReservationRow /\ resv[r].version \in Nat /\ resv[r].status = "reserved"
    BY RowTypes DEF CoreInv, RecordBillingReconcileReview
<1>2. /\ row.status = resv[r].status /\ row.reserved = resv[r].reserved
      /\ row.tokenReserved = resv[r].tokenReserved /\ row.funding = resv[r].funding
      /\ row.version = resv[r].version
    BY <1>1 DEF ReservationRow
<1>3. resv' = [resv EXCEPT ![r] = row] /\ Post(entries) /\ UNCHANGED <<quota, tok, net>>
    BY DEF RecordBillingReconcileReview
<1> HIDE DEF row
<1>4. Behind(entries, r, row.version)
    BY <1>1, <1>2 DEF Behind
<1>5. row.version >= resv[r].version
    BY <1>1, <1>2
<1> HIDE DEF entries
<1> QED BY <1>1, <1>2, <1>3, <1>4, <1>5, RowOnlyRecorded

\* An extension moves the hold to its target and records the difference.
LEMMA ExtendRecorded ==
    ASSUME CoreInv, LedgerMirrorsHold, NEW r \in Requests, NEW target \in 0..MaxInt,
           ExtendBillingReservation(r, target)
    PROVE  Recorded(r)
<1> DEFINE row == AdjustedRow(r, target)
           entries == {<<r, "reserve", resv[r].version + 1>>}
<1>0. resv[r].reserved \in 0..MaxInt /\ resv[r].version \in Nat /\ target > resv[r].reserved
    BY RowTypes DEF CoreInv, ExtendBillingReservation
<1>1. AdjustErr(r, target, "reserve", FALSE) = "ok"
    <2>1. ~(target <= resv[r].reserved)
        BY <1>0, SizeAssumption
    <2> QED BY <2>1 DEF ExtendBillingReservation, ExtendErr
<1>2. /\ resv[r].status = "reserved"
      /\ FundingOk(r, target - resv[r].reserved) /\ TokenOk(r, target - resv[r].reserved)
    BY <1>1, AdjustOk DEF CoreInv
<1>3. /\ RowHolds(r, row) /\ row.reserved = target /\ row.status = "reserved"
      /\ row.funding = resv[r].funding
      /\ row.version = IF target = resv[r].reserved THEN resv[r].version ELSE resv[r].version + 1
    BY <1>2, AdjustedRowFields
<1>4. resv' = [resv EXCEPT ![r] = row] /\ Post(entries) /\ MoveHold(r, target)
    BY DEF ExtendBillingReservation
<1> HIDE DEF row
<1>5. row.version = resv[r].version + 1
    BY <1>0, <1>3, SizeAssumption
<1>6. Behind(entries, r, row.version)
    BY <1>0, <1>5 DEF Behind
<1> HIDE DEF entries
<1>7. /\ Moved(r)
      /\ Mirrors(r, row, net'[r], UsesToken(r))
    BY <1>2, <1>3, <1>4, MoveHoldMirrors
<1>8. row.version >= resv[r].version
    BY <1>0, <1>5
<1>9. /\ resv'[r] = row /\ \A p \in Requests \ {r} : resv'[p] = resv[p]
      /\ Behind(keys' \ keys, r, resv'[r].version)
    BY <1>2, <1>4, <1>6, <1>7, <1>8, Written
<1> QED BY <1>2, <1>3, <1>7, <1>8, <1>9 DEF Recorded

\* The three callers of settleBillingReservationTx leave the ledger at the
\* settled quota; the administrator's adds one more revision.
LEMMA SettleRecorded ==
    ASSUME CoreInv, LedgerMirrorsHold, NEW r \in Requests, NEW q \in 0..MaxInt,
           \/ SettleBillingReservation(r, q)
           \/ ResolveByAdminSettle(r, q, resv[r].version)
           \/ SettleTaskBillingReservation(r, q)
    PROVE  Recorded(r)
<1> DEFINE row == SettledRow(r, q)
<1>1. /\ resv[r].status = "reserved" /\ SettleErr(r, q) = "ok" /\ MoveHold(r, q)
    BY DEF SettleBillingReservation, ResolveByAdminSettle, SettleTaskBillingReservation,
           SettleBalances
<1>2. FundingOk(r, q - resv[r].reserved) /\ TokenOk(r, q - resv[r].reserved)
    BY <1>1, SettleOk DEF CoreInv
<1>3. /\ RowHolds(r, row) /\ row.status = "settled" /\ row.reserved = q
      /\ row.funding = resv[r].funding /\ row.version \in Nat /\ row.version > resv[r].version
    BY <1>1, SettledRowFields
<1>4. /\ RowHolds(r, Revised(row)) /\ Revised(row).status = "settled"
      /\ Revised(row).reserved = q /\ Revised(row).funding = resv[r].funding
      /\ Revised(row).version = row.version + 1
    BY <1>3, NextRevision
<1>5. resv[r].version \in Nat
    BY RowTypes DEF CoreInv
<1>6. \/ /\ resv' = [resv EXCEPT ![r] = row]
         /\ Post({<<r, "settle", resv[r].version + 1>>})
      \/ /\ resv' = [resv EXCEPT ![r] = Revised(row)]
         /\ Post({<<r, "settle", resv[r].version + 1>>,
                  <<r, "admin_resolution", row.version + 1>>})
    BY DEF SettleBillingReservation, ResolveByAdminSettle, SettleTaskBillingReservation
<1> HIDE DEF row
<1>7. PICK new, entries :
        /\ resv' = [resv EXCEPT ![r] = new] /\ Post(entries)
        /\ RowHolds(r, new) /\ new.status = "settled" /\ new.reserved = q
        /\ new.funding = resv[r].funding /\ new.version >= resv[r].version
        /\ Behind(entries, r, new.version)
    <2>1. /\ row.version >= resv[r].version /\ Revised(row).version >= resv[r].version
          /\ Behind({<<r, "settle", resv[r].version + 1>>}, r, row.version)
          /\ Behind({<<r, "settle", resv[r].version + 1>>,
                       <<r, "admin_resolution", row.version + 1>>}, r, Revised(row).version)
        BY <1>3, <1>4, <1>5 DEF Behind
    <2> QED BY <1>3, <1>4, <1>6, <2>1
<1>8. /\ Moved(r)
      /\ Mirrors(r, new, net'[r], UsesToken(r))
    BY <1>1, <1>2, <1>7, MoveHoldMirrors
<1>9. /\ resv'[r] = new /\ \A p \in Requests \ {r} : resv'[p] = resv[p]
      /\ Behind(keys' \ keys, r, resv'[r].version)
    BY <1>1, <1>7, <1>8, Written
<1> QED BY <1>1, <1>7, <1>8, <1>9 DEF Recorded

\* The three callers of refundBillingReservationTx bring the ledger to zero.
LEMMA RefundRecorded ==
    ASSUME CoreInv, LedgerMirrorsHold, NEW r \in Requests,
           \/ RefundBillingReservation(r)
           \/ ResolveByAdminRefund(r, resv[r].version)
           \/ RefundTaskBillingReservation(r)
    PROVE  Recorded(r)
<1> DEFINE row == RefundedRow(r)
           delta == -resv[r].reserved
           tokenDelta == -resv[r].tokenReserved
<1>1. /\ resv[r].status = "reserved" /\ RefundErr(r) = "ok"
      /\ MoveBalances(r, delta, tokenDelta)
    BY DEF RefundBillingReservation, ResolveByAdminRefund, RefundTaskBillingReservation,
           RefundBalances
<1>2. /\ FundingOk(r, delta) /\ TokenOk(r, tokenDelta) /\ delta \in Int /\ tokenDelta \in Int
      /\ resv[r].reserved + delta = 0 /\ resv[r].tokenReserved + tokenDelta = 0
      /\ resv[r].version \in Nat
    BY <1>1, RefundOk, RowTypes, SizeAssumption DEF CoreInv
<1>3. /\ RowHolds(r, row) /\ row.status = "refunded"
      /\ row.funding = resv[r].funding /\ row.version = resv[r].version + 1
    BY <1>1, RefundedRowFields
<1>4. /\ Revised(row).status = "refunded" /\ Revised(row).funding = resv[r].funding
      /\ Revised(row).version = row.version + 1
    BY <1>3, NextRevision
<1>5. \/ /\ resv' = [resv EXCEPT ![r] = row]
         /\ Post({<<r, "refund", resv[r].version + 1>>})
      \/ /\ resv' = [resv EXCEPT ![r] = Revised(row)]
         /\ Post({<<r, "refund", resv[r].version + 1>>,
                  <<r, "admin_resolution", row.version + 1>>})
    BY DEF RefundBillingReservation, ResolveByAdminRefund, RefundTaskBillingReservation
<1> HIDE DEF row, delta, tokenDelta
<1>6. PICK new, entries :
        /\ resv' = [resv EXCEPT ![r] = new] /\ Post(entries)
        /\ new.status = "refunded" /\ new.funding = resv[r].funding
        /\ new.version >= resv[r].version
        /\ Behind(entries, r, new.version)
    <2>1. /\ row.version >= resv[r].version /\ Revised(row).version >= resv[r].version
          /\ Behind({<<r, "refund", resv[r].version + 1>>}, r, row.version)
          /\ Behind({<<r, "refund", resv[r].version + 1>>,
                       <<r, "admin_resolution", row.version + 1>>}, r, Revised(row).version)
        BY <1>2, <1>3, <1>4 DEF Behind
    <2> QED BY <1>3, <1>4, <1>5, <2>1
<1>7. /\ Moved(r)
      /\ net'[r].user = 0 /\ net'[r].subTotal = 0
      /\ UsesToken(r) => net'[r].tokUsed = 0 /\ net'[r].tokRemain = 0
    BY <1>1, <1>2, MoveRecorded
<1>8. Mirrors(r, new, net'[r], UsesToken(r))
    <2>1. new.status \notin {"reserved", "settled"}
        BY <1>6
    <2> QED BY <1>7, <2>1, EmptyMirrors
<1>9. /\ resv'[r] = new /\ \A p \in Requests \ {r} : resv'[p] = resv[p]
      /\ Behind(keys' \ keys, r, resv'[r].version)
    BY <1>1, <1>6, <1>7, <1>8, Written
<1> QED BY <1>1, <1>6, <1>7, <1>8, <1>9 DEF Recorded

\* Binding a task moves the hold to the task's quota and records both.
LEMMA CreateTaskRecorded ==
    ASSUME CoreInv, LedgerMirrorsHold, NEW r \in Requests, NEW target \in 0..MaxInt,
           NEW done \in BOOLEAN, CreateTaskWithBillingReservation(r, target, done)
    PROVE  Recorded(r)
<1> DEFINE row == AdjustedRow(r, target)
           linked == [row EXCEPT !.bound = TRUE]
           all == {<<r, "reserve", row.version>>, <<r, "bind", row.version + 1>>}
<1>1. /\ AdjustErr(r, target, "reserve", FALSE) = "ok" /\ resv[r].status = "reserved"
      /\ MoveHold(r, target)
    BY DEF CreateTaskWithBillingReservation, CreateTaskErr
<1>2. FundingOk(r, target - resv[r].reserved) /\ TokenOk(r, target - resv[r].reserved)
    BY <1>1, AdjustOk DEF CoreInv
<1>3. /\ RowHolds(r, row) /\ row \in ReservationRow /\ row.reserved = target
      /\ row.funding = resv[r].funding /\ row.status = "reserved"
      /\ resv[r].version \in Nat /\ row.version \in Nat
      /\ row.version = IF target = resv[r].reserved THEN resv[r].version ELSE resv[r].version + 1
    BY <1>1, AdjustedRowFields, RowTypes, RowFields DEF RowHolds, CoreInv
<1>4. \/ /\ resv' = [resv EXCEPT ![r] = row]
         /\ \E entries \in SUBSET {<<r, "reserve", row.version>>} : Post(entries)
      \/ /\ resv' = [resv EXCEPT ![r] = Revised(linked)]
         /\ \E entries \in SUBSET all : Post(entries)
    BY DEF CreateTaskWithBillingReservation
<1> HIDE DEF row
<1>5. /\ RowHolds(r, Revised(linked)) /\ Revised(linked).status = "reserved"
      /\ Revised(linked).reserved = target /\ Revised(linked).funding = resv[r].funding
      /\ Revised(linked).version = row.version + 1
    <2>1. linked \in ReservationRow
        BY <1>3, Zenon DEF ReservationRow
    <2>2. /\ linked.status = "reserved" /\ linked.reserved = target
          /\ linked.tokenReserved = row.tokenReserved /\ linked.funding = row.funding
          /\ linked.version = row.version
        BY <1>3 DEF ReservationRow
    <2> HIDE DEF linked
    <2>3. RowHolds(r, linked)
        BY <1>3, <2>1, <2>2 DEF RowHolds
    <2> QED BY <1>3, <2>2, <2>3, NextRevision
<1> HIDE DEF linked
<1>6. PICK new, entries :
        /\ resv' = [resv EXCEPT ![r] = new] /\ Post(entries)
        /\ RowHolds(r, new) /\ new.status = "reserved" /\ new.reserved = target
        /\ new.funding = resv[r].funding /\ new.version >= resv[r].version
        /\ Behind(entries, r, new.version)
    <2>1. /\ row.version >= resv[r].version /\ Revised(linked).version >= resv[r].version
          /\ Behind({<<r, "reserve", row.version>>}, r, row.version)
          /\ Behind(all, r, Revised(linked).version)
        BY <1>3, <1>5 DEF Behind
    <2> QED BY <1>3, <1>4, <1>5, <2>1 DEF Behind
<1>7. /\ Moved(r)
      /\ Mirrors(r, new, net'[r], UsesToken(r))
    BY <1>1, <1>2, <1>6, MoveHoldMirrors
<1>8. /\ resv'[r] = new /\ \A p \in Requests \ {r} : resv'[p] = resv[p]
      /\ Behind(keys' \ keys, r, resv'[r].version)
    BY <1>1, <1>6, <1>7, Written
<1> QED BY <1>1, <1>6, <1>7, <1>8 DEF Recorded

\* Before its first hold a request has an empty ledger; the first entry mirrors
\* the fresh row.
LEMMA PreConsumeRecorded ==
    ASSUME CoreInv, LedgerMirrorsHold, UnwrittenRows, NEW r \in Requests, NEW q \in 0..MaxInt,
           PreConsumeWallet(r, q) \/ PreConsumeSubscription(r, q)
    PROVE  Recorded(r)
<1> DEFINE entries == {<<r, "reserve", 1>>}
<1>1. resv[r].status = "absent" /\ TokenCharge(r, q) /\ Post(entries)
    BY DEF PreConsumeWallet, PreConsumeSubscription
<1>2. \A t \in Tokens : tok'[t].exists = tok[t].exists
    <2>1. PreConsumeErr(r, "wallet", q) = "ok" \/ PreConsumeErr(r, "subscription", q) = "ok"
        BY DEF PreConsumeWallet, PreConsumeSubscription
    <2> QED BY <1>1, <2>1, TokenChargeType DEF CoreInv
<1>3. net[r].user = 0 /\ net \in [Requests -> LedgerTotals]
    <2>1. Mirrors(r, resv[r], net[r], UsesToken(r)) /\ resv[r].status \notin {"reserved", "settled"}
        BY <1>1, MirrorsEach
    <2> QED BY <2>1, MirroredEmpty DEF CoreInv, TypeOK
<1>4. PICK funding \in {"wallet", "subscription"}, row \in ReservationRow :
        /\ RowHolds(r, row) /\ row.status = "reserved" /\ row.reserved = q
        /\ row.funding = funding /\ row.version = 1
        /\ resv' = [resv EXCEPT ![r] = row]
        /\ net' = [net EXCEPT ![r] = FirstEntry(r, funding, q)]
        /\ quota' = IF funding = "wallet" THEN [quota EXCEPT ![UserOf[r]] = @ - q] ELSE quota
    <2>1. CASE PreConsumeWallet(r, q)
        <3> DEFINE row == FreshRow(r, "wallet", q)
        <3>1. /\ RowHolds(r, row) /\ row.status = "reserved" /\ row.reserved = q
              /\ row.funding = "wallet" /\ row.version = 1
            BY FreshRowFields
        <3>2. /\ resv' = [resv EXCEPT ![r] = row]
              /\ net' = [net EXCEPT ![r] = FirstEntry(r, "wallet", q)]
              /\ quota' = [quota EXCEPT ![UserOf[r]] = @ - q]
            BY <2>1 DEF PreConsumeWallet
        <3> HIDE DEF row
        <3>3. row \in ReservationRow
            BY <3>1 DEF RowHolds
        <3> QED BY <3>1, <3>2, <3>3
    <2>2. CASE PreConsumeSubscription(r, q)
        <3>1. PICK s \in Subs : resv' = [resv EXCEPT ![r] =
                                  SubscriptionFreshRow(r, q, s, ResetIfDue(sub[s]).version)]
            BY <2>2 DEF PreConsumeSubscription, Pick, ActiveSubs
        <3> DEFINE epoch == ResetIfDue(sub[s]).version
                   row == SubscriptionFreshRow(r, q, s, epoch)
        <3>2. epoch \in Nat
            BY ResetIfDueType DEF CoreInv, TypeOK, SubscriptionRow
        <3>3. /\ resv' = [resv EXCEPT ![r] = row]
              /\ net' = [net EXCEPT ![r] = FirstEntry(r, "subscription", q)]
              /\ quota' = quota
            BY <2>2, <3>1 DEF PreConsumeSubscription
        <3> HIDE DEF epoch
        <3>4. /\ RowHolds(r, row) /\ row.status = "reserved" /\ row.reserved = q
              /\ row.funding = "subscription" /\ row.version = 1
            BY <3>2, SubscriptionFreshRowFields
        <3> HIDE DEF row
        <3>5. row \in ReservationRow
            BY <3>4 DEF RowHolds
        <3> QED BY <3>3, <3>4, <3>5
    <2> QED BY <2>1, <2>2
<1>5. /\ resv[r].version = 0 /\ q \in Int /\ UserOf[r] \in Users
      /\ quota \in [Users -> 0..MaxInt] /\ quota[UserOf[r]] \in Int
    BY <1>1, IdentityAssumption, SizeAssumption DEF UnwrittenRows, CoreInv, TypeOK
<1>6. /\ resv'[r] = row /\ \A p \in Requests \ {r} : resv'[p] = resv[p]
      /\ Behind(keys' \ keys, r, resv'[r].version)
    <2>1. Behind(entries, r, row.version)
        BY <1>4 DEF Behind
    <2> HIDE DEF entries
    <2> QED BY <1>1, <1>4, <2>1, Written
<1>7. net'[r] = FirstEntry(r, funding, q) /\ \A p \in Requests \ {r} : net'[p] = net[p]
    BY <1>3, <1>4
<1>8. /\ net'[r].user = IF funding = "wallet" THEN -q ELSE 0
      /\ net'[r].subTotal = IF funding = "subscription" THEN q ELSE 0
      /\ UsesToken(r) => /\ net'[r].tokUsed = q
                         /\ net'[r].tokRemain = IF TokenOf[r] \in Unlimited THEN 0 ELSE -q
    BY <1>7 DEF FirstEntry, UsesToken
<1>9. Mirrors(r, row, net'[r], UsesToken(r))
    <2>1. UsesToken(r) => row.tokenReserved = q
        BY <1>4 DEF RowHolds, UsesToken
    <2> QED BY <1>4, <1>8, <2>1 DEF Mirrors
<1>10. quota' = [quota EXCEPT ![UserOf[r]] = @ + net'[r].user - net[r].user]
    <2>1. CASE funding = "wallet"
        <3>1. quota[UserOf[r]] + net'[r].user - net[r].user = quota[UserOf[r]] - q
            BY <1>3, <1>5, <1>8, <2>1
        <3> QED BY <1>4, <2>1, <3>1
    <2>2. CASE funding # "wallet"
        <3>1. quota[UserOf[r]] + net'[r].user - net[r].user = quota[UserOf[r]]
            BY <1>3, <1>5, <1>8, <2>2
        <3> QED BY <1>4, <1>5, <2>2, <3>1
    <2> QED BY <2>1, <2>2
<1>11. resv'[r].version >= resv[r].version /\ resv'[r].status = "reserved"
    BY <1>4, <1>5, <1>6
<1> QED BY <1>1, <1>2, <1>6, <1>7, <1>9, <1>10, <1>11 DEF Recorded, Moved

-----------------------------------------------------------------------------
\* Every step is quiet, or recorded for one request.
LEMMA StepRecorded ==
    ASSUME CoreInv, LedgerMirrorsHold, UnwrittenRows, [Next]_vars
    PROVE  Quiet \/ \E r \in Requests : Recorded(r)
<1>1. /\ Amounts \subseteq 0..MaxInt /\ FailureCodes \subseteq BillingSettlementFailures
      /\ TaskRequests \subseteq Requests
    BY SizeAssumption, IdentityAssumption
<1>2. ASSUME NEW r \in Requests, RequestStep(r) PROVE Quiet \/ Recorded(r)
    <2>1. ASSUME NEW q \in Amounts,
                 \/ PrepareBillingReservationSettlement(r, q)
                 \/ AdvanceUnboundBillingReservationSettlementIntent(r, q)
          PROVE  Recorded(r)
        BY <1>1, <2>1, IntentRecorded DEF PrepareBillingReservationSettlement,
                               AdvanceUnboundBillingReservationSettlementIntent
    <2> QED
        BY <1>1, <1>2, <2>1, PreConsumeRecorded, ExtendRecorded, MarkRecorded, SettleRecorded,
           RefundRecorded, ReviewRecorded
        DEF RequestStep
<1>3. ASSUME NEW r \in TaskRequests, TaskStep(r) PROVE Quiet \/ Recorded(r)
    <2>1. ASSUME NEW q \in Amounts, PrepareTaskBillingReservationSettlement(r, q)
          PROVE  Recorded(r)
        BY <1>1, <2>1, IntentRecorded DEF PrepareTaskBillingReservationSettlement
    <2>2. ASSUME NEW q \in Amounts, TaskSucceeds(r, q) \/ SettleTaskAgain(r, q)
          PROVE  Quiet
        BY <2>2 DEF TaskSucceeds, SettleTaskAgain, Quiet
    <2>3. ASSUME TaskFails(r) PROVE Quiet
        BY <2>3 DEF TaskFails, Quiet
    <2> QED
        BY <1>1, <1>3, <2>1, <2>2, <2>3, CreateTaskRecorded, SettleRecorded, RefundRecorded
        DEF TaskStep
<1>4. ASSUME AccountStep PROVE Quiet
    <2>1. ASSUME NEW t \in Tokens, DeleteToken(t) PROVE Quiet
        <3>1. tok' = [tok EXCEPT ![t] = [tok[t] EXCEPT !.exists = FALSE]]
            BY <2>1 DEF DeleteToken
        <3>2. tok \in [Tokens -> TokenRow] /\ ~[tok[t] EXCEPT !.exists = FALSE].exists
            BY DEF CoreInv, TypeOK, TokenRow
        <3>3. \A p \in Tokens : tok'[p].exists => tok[p].exists
            BY <3>1, <3>2
        <3> QED BY <2>1, <3>3 DEF DeleteToken, Quiet
    <2>2. ASSUME NEW u \in Users, NEW q \in ManualAmounts,
                 \/ IncreaseUserQuota(u, q) \/ DecreaseUserQuota(u, q) \/ OverrideUserQuota(u, q)
          PROVE  Quiet
        BY <2>2 DEF IncreaseUserQuota, DecreaseUserQuota, OverrideUserQuota, Quiet
    <2>3. ASSUME NEW u \in Users,
                 \/ AddPaymentDebt(u) \/ ResolvePaymentDebt(u)
                 \/ ManageUserDisable(u) \/ EnableUserIfNoPaymentFreeze(u)
          PROVE  Quiet
        BY <2>3 DEF AddPaymentDebt, ResolvePaymentDebt, ManageUserDisable,
                    EnableUserIfNoPaymentFreeze, Quiet
    <2>4. ASSUME NEW s \in Subs, NEW advance \in BOOLEAN,
                 \/ PeriodElapses(s) \/ ResetDueSubscription(s)
                 \/ AdminResetSubscription(s, advance) \/ EndSubscription(s)
          PROVE  Quiet
        BY <2>4 DEF PeriodElapses, ResetDueSubscription, AdminResetSubscription,
                    EndSubscription, Quiet
    <2>5. ASSUME NEW r \in Requests, CleanupSubscriptionPreConsumeRecord(r) PROVE Quiet
        BY <2>5 DEF CleanupSubscriptionPreConsumeRecord, Quiet
    <2> QED BY <1>4, <2>1, <2>2, <2>3, <2>4, <2>5 DEF AccountStep
<1>5. CASE UNCHANGED vars
    BY <1>5 DEF vars, Quiet
<1> QED BY <1>1, <1>2, <1>3, <1>4, <1>5 DEF Next

\* No reservation, no entry: the invariant holds initially.
LEMMA InitLedger == Init => LedgerInv
<1> SUFFICES ASSUME Init PROVE LedgerInv
    OBVIOUS
<1>1. CoreInv
    BY InitCore
<1>2. \A r \in Requests :
        /\ resv[r].status = "absent" /\ resv[r].version = 0
        /\ net[r].user = 0 /\ net[r].subTotal = 0 /\ net[r].tokUsed = 0 /\ net[r].tokRemain = 0
    BY DEF Init, AbsentRow, NoDelta
<1>3. \A r \in Requests : Mirrors(r, resv[r], net[r], UsesToken(r))
    BY <1>2, EmptyMirrors
<1>4. LedgerBehindRevision /\ UnwrittenRows
    BY <1>2 DEF Init, LedgerBehindRevision, UnwrittenRows
<1> QED BY <1>1, <1>3, <1>4, MirrorsEach DEF LedgerInv

\* A quiet step and a recorded one both preserve the invariant.
LEMMA StepLedger == LedgerInv /\ [Next]_vars => LedgerInv'
<1> SUFFICES ASSUME LedgerInv, [Next]_vars PROVE LedgerInv'
    OBVIOUS
<1>1. CoreInv'
    BY StepCore DEF LedgerInv
<1>2. /\ \A r \in Requests : Mirrors(r, resv[r], net[r], UsesToken(r))
      /\ \A r \in Requests : resv[r].version \in Nat
      /\ keys \subseteq Requests \X Phases \X Nat
    BY MirrorsEach, RowTypes DEF LedgerInv, CoreInv, TypeOK
<1>3. CASE Quiet
    <2>1. \A r \in Requests : UsesToken(r)' => UsesToken(r)
        BY <1>3, IdentityAssumption DEF Quiet, UsesToken
    <2>2. \A r \in Requests : Mirrors(r, resv'[r], net'[r], UsesToken(r)')
        BY <1>2, <1>3, <2>1 DEF Quiet, Mirrors
    <2>3. LedgerMirrorsHold'
        BY <2>2 DEF LedgerMirrorsHold, Mirrors, UsesToken, Held, HeldToken
    <2>4. LedgerBehindRevision' /\ UnwrittenRows'
        BY <1>3 DEF Quiet, LedgerInv, LedgerBehindRevision, UnwrittenRows
    <2> QED BY <1>1, <2>3, <2>4 DEF LedgerInv
<1>4. CASE \E r \in Requests : Recorded(r)
    <2>1. PICK r \in Requests : Recorded(r)
        BY <1>4
    <2>2. \A p \in Requests : UsesToken(p)' <=> UsesToken(p)
        BY <2>1, IdentityAssumption DEF Recorded, Moved, UsesToken
    <2>3. \A p \in Requests : Mirrors(p, resv'[p], net'[p], UsesToken(p)')
        BY <1>2, <2>1, <2>2 DEF Recorded, Moved, Mirrors
    <2>4. LedgerMirrorsHold'
        BY <2>3 DEF LedgerMirrorsHold, Mirrors, UsesToken, Held, HeldToken
    <2>5. LedgerBehindRevision'
        <3> SUFFICES ASSUME NEW k \in keys' PROVE k[3] <= resv'[k[1]].version
            BY DEF LedgerBehindRevision
        <3>1. CASE k \in keys
            <4>1. k[1] \in Requests /\ k[3] \in Nat /\ k[3] <= resv[k[1]].version
                BY <1>2, <3>1 DEF LedgerInv, LedgerBehindRevision
            <4>2. resv'[k[1]] = resv[k[1]] \/ (k[1] = r /\ resv'[r].version >= resv[r].version)
                BY <2>1, <4>1 DEF Recorded
            <4>3. resv'[r].version \in Nat
                BY <1>1, RowFields DEF CoreInv, TypeOK
            <4> QED BY <1>2, <4>1, <4>2, <4>3
        <3>2. CASE k \notin keys
            BY <2>1, <3>2 DEF Recorded, Behind
        <3> QED BY <3>1, <3>2
    <2>6. UnwrittenRows'
        BY <2>1 DEF Recorded, LedgerInv, UnwrittenRows
    <2> QED BY <1>1, <2>4, <2>5, <2>6 DEF LedgerInv
<1> QED BY <1>3, <1>4, StepRecorded DEF LedgerInv

\* The inductive invariant of the ledger: the core invariant, the mirror, the
\* revisions, and that a row that does not exist has no revision.
THEOREM LedgerCorrect == Spec => []LedgerInv
<1> QED BY InitLedger, StepLedger, PTL DEF Spec

\* However often a reservation is extended, settled, refunded or retried, its
\* quota_ledger entries add up to what it holds.
THEOREM LedgerAlwaysMirrorsHold == Spec => []LedgerMirrorsHold
<1>1. LedgerInv => LedgerMirrorsHold
    BY DEF LedgerInv
<1> QED BY <1>1, LedgerCorrect, PTL

\* No transaction of billing_reservation.go meets the unique index of
\* quota_ledger: every entry is at or behind its reservation's revision.
THEOREM LedgerNeverCollides == Spec => []LedgerBehindRevision
<1>1. LedgerInv => LedgerBehindRevision
    BY DEF LedgerInv
<1> QED BY <1>1, LedgerCorrect, PTL

\* A settled or refunded reservation is never touched again, by no caller and
\* no retry.
THEOREM TerminalForGood == Spec => TerminalIsFinal
<1>1. ASSUME LedgerInv, [Next]_vars
      PROVE  \A r \in Requests : resv[r].status \in {"settled", "refunded"} =>
                resv'[r] = resv[r] /\ net'[r] = net[r]
    <2>1. CASE Quiet
        BY <2>1 DEF Quiet
    <2>2. CASE \E r \in Requests : Recorded(r)
        BY <2>2 DEF Recorded, Moved
    <2> QED BY <1>1, <2>1, <2>2, StepRecorded DEF LedgerInv
<1> QED BY <1>1, LedgerCorrect, PTL DEF Spec, TerminalIsFinal

\* A transaction on a request moves the wallet of the request's user by what
\* it enters in the ledger, and nobody else's.
THEOREM WalletAlwaysMovesWithLedger == Spec => WalletMovesWithLedger
<1>1. ASSUME LedgerInv, [Next]_vars
      PROVE  \A r \in Requests : resv'[r] # resv[r] \/ net'[r] # net[r] =>
                /\ quota' = [quota EXCEPT ![UserOf[r]] = @ + net'[r].user - net[r].user]
                /\ \A p \in Requests \ {r} : net'[p] = net[p]
    <2>1. CASE Quiet
        BY <2>1 DEF Quiet
    <2>2. CASE \E r \in Requests : Recorded(r)
        BY <2>2 DEF Recorded, Moved
    <2> QED BY <1>1, <2>1, <2>2, StepRecorded DEF LedgerInv
<1> QED BY <1>1, LedgerCorrect, PTL DEF Spec, WalletMovesWithLedger

-----------------------------------------------------------------------------
(* BillingReservation implements RequestCharge: a recorded step is a step of *)
(* the abstract charge, because the new row and the new ledger totals mirror *)
(* each other; a quiet step is none.                                         *)

Outcomes == [r \in Requests |-> Outcome(resv[r].status)]
Costs == [r \in Requests |-> net[r].subTotal - net[r].user]

\* What a row and ledger totals that mirror each other cost: the hold of an open
\* or settled row, nothing otherwise.
LEMMA MirroredCost ==
    ASSUME NEW r \in Requests, NEW x \in ReservationRow, NEW n, NEW used \in BOOLEAN,
           Mirrors(r, x, n, used)
    PROVE  /\ n.subTotal - n.user \in Nat
           /\ x.status \notin {"reserved", "settled"} => n.subTotal - n.user = 0
<1>1. x.reserved \in Nat /\ x.funding \in {"wallet", "subscription"}
    BY SizeAssumption, RowFields
<1> DEFINE held == IF x.status \in {"reserved", "settled"} THEN x.reserved ELSE 0
<1>2. held \in Nat
    BY <1>1
<1>3. /\ n.user = IF x.funding = "wallet" THEN -held ELSE 0
      /\ n.subTotal = IF x.funding = "subscription" THEN held ELSE 0
    BY DEF Mirrors
<1>4. x.status \notin {"reserved", "settled"} => held = 0
    OBVIOUS
<1> HIDE DEF held
<1>5. n.subTotal - n.user = held
    BY <1>1, <1>2, <1>3
<1> QED BY <1>2, <1>4, <1>5

\* A step recorded for r is a step of the abstract charge of r.
LEMMA RecordedIsCharge ==
    ASSUME LedgerInv, LedgerInv', NEW r \in Requests, Recorded(r)
    PROVE  Charges!Hold(r) \/ Charges!Charge(r) \/ Charges!GiveBack(r)
<1>1. /\ resv[r].status \in {"absent", "reserved"}
      /\ resv[r].status = "absent" => resv'[r].status = "reserved"
      /\ \A p \in Requests \ {r} : resv'[p] = resv[p] /\ net'[p] = net[p]
      /\ Mirrors(r, resv'[r], net'[r], UsesToken(r))
    BY DEF Recorded, Moved
<1>2. resv'[r] \in ReservationRow
    BY DEF LedgerInv, CoreInv, TypeOK
<1>3. UsesToken(r) \in BOOLEAN
    BY DEF UsesToken
<1> DEFINE cost == net'[r].subTotal - net'[r].user
<1>4. cost \in Nat /\ (resv'[r].status \notin {"reserved", "settled"} => cost = 0)
    BY <1>1, <1>2, <1>3, MirroredCost
<1>5. /\ Outcomes' = [Outcomes EXCEPT ![r] = Outcome(resv'[r].status)]
      /\ Costs' = [Costs EXCEPT ![r] = cost]
    BY <1>1 DEF Outcomes, Costs
<1>6. Outcomes[r] = Outcome(resv[r].status) /\ Costs'[r] = cost
    BY DEF Outcomes, Costs
<1>7. resv'[r].status \in {"absent", "reserved", "settled", "refunded"}
    BY <1>2 DEF ReservationRow
<1> HIDE DEF cost
<1>8. CASE resv'[r].status = "reserved"
    <2>1. Outcomes[r] \in {"absent", "open"} /\ Outcome(resv'[r].status) = "open"
        BY <1>1, <1>6, <1>8 DEF Outcome
    <2> QED BY <1>4, <1>5, <1>6, <2>1 DEF Charges!Hold, Charges!Move, Outcomes, Costs
<1>9. CASE resv'[r].status = "settled"
    <2>1. Outcomes[r] \in {"open"} /\ Outcome(resv'[r].status) = "charged"
        BY <1>1, <1>6, <1>9 DEF Outcome
    <2> QED BY <1>4, <1>5, <1>6, <2>1 DEF Charges!Charge, Charges!Move, Outcomes, Costs
<1>10. CASE resv'[r].status = "refunded"
    <2>1. Outcomes[r] \in {"open"} /\ Outcome(resv'[r].status) = "returned"
        BY <1>1, <1>6, <1>10 DEF Outcome
    <2>2. cost \in {0}
        BY <1>4, <1>10
    <2> QED BY <1>5, <1>6, <2>1, <2>2 DEF Charges!GiveBack, Charges!Move, Outcomes, Costs
<1>11. resv'[r].status # "absent"
    BY DEF Recorded
<1> QED BY <1>7, <1>8, <1>9, <1>10, <1>11

\* Every transaction of billing_reservation.go is a step of the abstract charge
\* of one request, or changes nothing the charge sees.
THEOREM ReservationImplementsCharge == Spec => ImplementsCharge
<1>1. Init => Charges!Init
    <2> SUFFICES ASSUME Init PROVE Charges!Init
        OBVIOUS
    <2>1. \A r \in Requests : resv[r].status = "absent" /\ net[r].user = 0 /\ net[r].subTotal = 0
        BY DEF Init, AbsentRow, NoDelta
    <2>2. \A r \in Requests : Outcome(resv[r].status) = "absent" /\ net[r].subTotal - net[r].user = 0
        BY <2>1 DEF Outcome
    <2> QED BY <2>2 DEF Charges!Init
<1>2. LedgerInv /\ LedgerInv' /\ [Next]_vars => [Charges!Next]_<<Outcomes, Costs>>
    <2> SUFFICES ASSUME LedgerInv, LedgerInv', [Next]_vars
                 PROVE  [Charges!Next]_<<Outcomes, Costs>>
        OBVIOUS
    <2>1. CASE Quiet
        BY <2>1 DEF Quiet, Outcomes, Costs
    <2>2. CASE \E r \in Requests : Recorded(r)
        BY <2>2, RecordedIsCharge DEF Charges!Next
    <2> QED BY <2>1, <2>2, StepRecorded DEF LedgerInv
<1> QED BY <1>1, <1>2, LedgerCorrect, PTL DEF Spec, ImplementsCharge, Charges!Spec, Outcomes, Costs

-----------------------------------------------------------------------------
(***************************************************************************)
(* III.  Usage and freeze                                                  *)
(***************************************************************************)

\* y is drawn on the same wallet, subscription and quota period as x.
SameAccount(x, y) == y.funding = x.funding /\ y.subId = x.subId /\ y.epoch = x.epoch

\* y remembers of the freeze what x does.
SameFreeze(x, y) == y.freeze = x.freeze /\ y.prevStatus = x.prevStatus

HoldOf(x) == IF x.status \in {"reserved", "settled"} THEN x.reserved ELSE 0

\* The row y replaces r's and the counters move by delta.
Moves(r, y, delta) ==
    /\ y \in ReservationRow /\ delta \in Int
    /\ resv' = [resv EXCEPT ![r] = y]
    /\ SameAccount(resv[r], y)
    /\ HoldOf(y) = HoldOf(resv[r]) + delta
    /\ sub' = IF resv[r].funding = "subscription"
              THEN [sub EXCEPT ![resv[r].subId] = SubscriptionAfter(r, delta)]
              ELSE sub

\* The user's account follows the freeze of y: kept, raised or ended.
FreezeFollows(r, y) ==
    /\ debt' = debt
    /\ \/ y.status = "reserved" /\ SameFreeze(resv[r], y) /\ acct' = acct
       \/ /\ y.status = "reserved" /\ y.freeze /\ Freeze(UserOf[r])
          /\ \/ y.prevStatus = PaymentFreezePreviousUserStatus(UserOf[r])
             \/ SameFreeze(resv[r], y)
       \/ y.status \in {"settled", "refunded"} /\ ReleaseAfterFinalization(r)

Follows(r) ==
    /\ resv[r].status = "reserved"
    /\ \E y, delta : Moves(r, y, delta) /\ FreezeFollows(r, y)

-----------------------------------------------------------------------------
(* The rows                                                                *)

\* A new revision, a task and a review leave account, freeze and hold alone.
LEMMA MarksKeep ==
    ASSUME NEW x \in ReservationRow
    PROVE  \A y \in {Revised(x), [x EXCEPT !.bound = TRUE], [x EXCEPT !.reviewed = TRUE]} :
              /\ y \in ReservationRow
              /\ SameAccount(x, y) /\ SameFreeze(x, y)
              /\ y.status = x.status /\ HoldOf(y) = HoldOf(x)
<1> DEFINE version == x.version + 1
<1>1. version \in Nat
    BY RowFields
<1>2. Revised(x) = [x EXCEPT !.version = version]
    BY DEF Revised
<1> HIDE DEF version
<1>3. /\ [x EXCEPT !.version = version] \in ReservationRow
      /\ [x EXCEPT !.bound = TRUE] \in ReservationRow
      /\ [x EXCEPT !.reviewed = TRUE] \in ReservationRow
    BY <1>1, Zenon DEF ReservationRow
<1>4. \A y \in {[x EXCEPT !.version = version], [x EXCEPT !.bound = TRUE],
                [x EXCEPT !.reviewed = TRUE]} :
        SameAccount(x, y) /\ SameFreeze(x, y) /\ y.status = x.status /\ HoldOf(y) = HoldOf(x)
    BY DEF ReservationRow, SameAccount, SameFreeze, HoldOf
<1> QED BY <1>2, <1>3, <1>4

\* So does an intent.
LEMMA IntentKeeps ==
    ASSUME CoreInv, NEW r \in Requests, NEW target \in 0..MaxInt, resv[r].status = "reserved"
    PROVE  LET y == IntentRow(r, target) IN
           /\ y \in ReservationRow /\ y.status = "reserved"
           /\ SameAccount(resv[r], y) /\ SameFreeze(resv[r], y)
           /\ HoldOf(y) = HoldOf(resv[r])
<1>1. resv[r] \in ReservationRow
    BY RowTypes DEF CoreInv
<1>2. IntentRow(r, target) \in ReservationRow
    BY IntentRowFields DEF RowHolds
<1> QED BY <1>1, <1>2 DEF IntentRow, ReservationRow, SameAccount, SameFreeze, HoldOf

\* A shortfall remembers the status the user goes back to.
LEMMA ShortfallKeeps ==
    ASSUME CoreInv, NEW r \in Requests, NEW target \in 0..MaxInt,
           NEW cause \in BillingSettlementFailures,
           resv[r].status = "reserved", target > resv[r].reserved
    PROVE  LET y == ShortfallRow(r, target, cause) IN
           /\ y \in ReservationRow /\ y.status = "reserved" /\ y.freeze
           /\ SameAccount(resv[r], y)
           /\ y.prevStatus = PaymentFreezePreviousUserStatus(UserOf[r])
           /\ HoldOf(y) = HoldOf(resv[r])
<1> DEFINE prev == PaymentFreezePreviousUserStatus(UserOf[r])
<1>1. resv[r] \in ReservationRow
    BY RowTypes DEF CoreInv
<1>2. ShortfallRow(r, target, cause) \in ReservationRow
    BY ShortfallRowFields DEF RowHolds
<1>3. ShortfallRow(r, target, cause) =
        [resv[r] EXCEPT !.pending = TRUE, !.target = target, !.cause = cause,
                        !.shortfall = target - resv[r].reserved,
                        !.freeze = TRUE, !.reviewed = TRUE,
                        !.prevStatus = prev, !.version = @ + 1]
    BY DEF ShortfallRow
<1> HIDE DEF prev
<1>4. LET y == ShortfallRow(r, target, cause) IN
      /\ y.status = "reserved" /\ y.freeze
      /\ SameAccount(resv[r], y) /\ y.prevStatus = prev
      /\ HoldOf(y) = HoldOf(resv[r])
    BY <1>1, <1>3 DEF ReservationRow, SameAccount, HoldOf
<1> QED BY <1>2, <1>4 DEF prev

\* An adjusted row, still open or settled, holds the target.
LEMMA AdjustmentKeeps ==
    ASSUME CoreInv, NEW r \in Requests, NEW target \in 0..MaxInt, resv[r].status = "reserved"
    PROVE  /\ LET y == AdjustedRow(r, target) IN
              /\ y \in ReservationRow /\ y.status = "reserved"
              /\ SameAccount(resv[r], y) /\ SameFreeze(resv[r], y) /\ HoldOf(y) = target
           /\ LET y == SettledRow(r, target) IN
              /\ y \in ReservationRow /\ y.status = "settled"
              /\ SameAccount(resv[r], y) /\ HoldOf(y) = target
<1> DEFINE x == AdjustedRow(r, target)
<1>1. resv[r] \in ReservationRow
    BY RowTypes DEF CoreInv
<1>2. /\ x \in ReservationRow /\ x.status = "reserved" /\ x.reserved = target
      /\ SameFreeze(resv[r], x)
    BY AdjustedRowFields DEF RowHolds, SameFreeze
<1>3. SameAccount(resv[r], x)
    BY <1>1 DEF AdjustedRow, ReservationRow, SameAccount
<1>4. /\ SettledRow(r, target) \in ReservationRow /\ SettledRow(r, target).status = "settled"
      /\ SettledRow(r, target).reserved = target
    BY SettledRowFields DEF RowHolds
<1>5. SettledRow(r, target) =
        [x EXCEPT !.status = "settled", !.settled = target,
                  !.pending = FALSE, !.target = 0, !.version = @ + 1]
    BY DEF SettledRow
<1> HIDE DEF x
<1>6. SameAccount(x, SettledRow(r, target))
    BY <1>2, <1>5 DEF ReservationRow, SameAccount
<1> QED BY <1>2, <1>3, <1>4, <1>6 DEF x, SameAccount, HoldOf

\* A refunded row holds nothing.
LEMMA RefundKeeps ==
    ASSUME CoreInv, NEW r \in Requests, resv[r].status = "reserved"
    PROVE  LET y == RefundedRow(r) IN
           /\ y \in ReservationRow /\ y.status = "refunded"
           /\ SameAccount(resv[r], y) /\ HoldOf(y) = 0
<1>1. resv[r] \in ReservationRow
    BY RowTypes DEF CoreInv
<1>2. RefundedRow(r) \in ReservationRow /\ RefundedRow(r).status = "refunded"
    BY RefundedRowFields DEF RowHolds
<1>3. SameAccount(resv[r], RefundedRow(r))
    BY <1>1 DEF RefundedRow, ReservationRow, SameAccount
<1> QED BY <1>2, <1>3 DEF HoldOf

-----------------------------------------------------------------------------
(* The steps on an open reservation                                        *)

\* A step that moves no balance.
LEMMA StillFollows ==
    ASSUME CoreInv, NEW r \in Requests, resv[r].status = "reserved",
           NEW y \in ReservationRow, resv' = [resv EXCEPT ![r] = y],
           SameAccount(resv[r], y), HoldOf(y) = HoldOf(resv[r]),
           sub' = sub, FreezeFollows(r, y)
    PROVE  Follows(r)
<1>1. resv[r].reserved \in Int /\ HoldOf(resv[r]) = resv[r].reserved
    BY RowTypes, SizeAssumption DEF CoreInv, HoldOf
<1>2. [sub EXCEPT ![resv[r].subId] = SubscriptionAfter(r, 0)] = sub
    <2>1. SubscriptionAfter(r, 0) = sub[resv[r].subId]
        BY DEF SubscriptionAfter
    <2> QED BY <2>1 DEF CoreInv, TypeOK
<1>3. Moves(r, y, 0)
    BY <1>1, <1>2 DEF Moves
<1> QED BY <1>3 DEF Follows

\* Intents.
LEMMA IntentFollows ==
    ASSUME CoreInv, NEW r \in Requests, NEW target \in 0..MaxInt, NEW mode,
           PersistSettlementIntent(r, target, mode)
    PROVE  Follows(r)
<1> DEFINE y == IntentRow(r, target)
<1>1. /\ resv[r].status = "reserved" /\ resv' = [resv EXCEPT ![r] = y]
      /\ sub' = sub /\ acct' = acct /\ debt' = debt
    BY DEF PersistSettlementIntent, IntentIsNew
<1>2. /\ y \in ReservationRow /\ y.status = "reserved"
      /\ SameAccount(resv[r], y) /\ SameFreeze(resv[r], y) /\ HoldOf(y) = HoldOf(resv[r])
    BY <1>1, IntentKeeps
<1> HIDE DEF y
<1>3. FreezeFollows(r, y)
    BY <1>1, <1>2 DEF FreezeFollows
<1> QED BY <1>1, <1>2, <1>3, StillFollows

\* Shortfalls, new and repeated.
LEMMA MarkFollows ==
    ASSUME CoreInv, NEW r \in Requests, NEW target \in 0..MaxInt,
           NEW cause \in BillingSettlementFailures,
           MarkBillingReservationSettlementShortfall(r, target, cause)
    PROVE  Follows(r)
<1>1. /\ resv[r].status = "reserved" /\ Freeze(UserOf[r]) /\ ShortfallErr(r, target) = "ok"
      /\ sub' = sub /\ debt' = debt
    BY DEF MarkBillingReservationSettlementShortfall
<1>2. CASE SameShortfall(r, target, cause)
    <2>1. resv' = resv /\ resv[r].freeze /\ resv[r] \in ReservationRow
        BY <1>2, RowTypes DEF MarkBillingReservationSettlementShortfall, SameShortfall, CoreInv
    <2>2. resv' = [resv EXCEPT ![r] = resv[r]]
        BY <2>1 DEF CoreInv, TypeOK
    <2>3. SameAccount(resv[r], resv[r]) /\ FreezeFollows(r, resv[r])
        BY <1>1, <2>1 DEF SameAccount, SameFreeze, FreezeFollows
    <2> QED BY <1>1, <2>1, <2>2, <2>3, StillFollows
<1>3. CASE ~SameShortfall(r, target, cause)
    <2> DEFINE y == ShortfallRow(r, target, cause)
    <2>1. resv' = [resv EXCEPT ![r] = y]
        BY <1>3 DEF MarkBillingReservationSettlementShortfall
    <2>2. target > resv[r].reserved
        BY <1>1, ShortfallOk, RowTypes, SizeAssumption DEF CoreInv
    <2>3. /\ y \in ReservationRow /\ y.status = "reserved" /\ y.freeze
          /\ SameAccount(resv[r], y) /\ HoldOf(y) = HoldOf(resv[r])
          /\ y.prevStatus = PaymentFreezePreviousUserStatus(UserOf[r])
        BY <1>1, <2>2, ShortfallKeeps
    <2> HIDE DEF y
    <2>4. FreezeFollows(r, y)
        BY <1>1, <2>3 DEF FreezeFollows
    <2> QED BY <1>1, <2>1, <2>3, <2>4, StillFollows
<1> QED BY <1>2, <1>3

\* Reviews.
LEMMA ReviewFollows ==
    ASSUME CoreInv, NEW r \in Requests, RecordBillingReconcileReview(r)
    PROVE  Follows(r)
<1> DEFINE y == [resv[r] EXCEPT !.reviewed = TRUE]
<1>1. /\ resv[r].status = "reserved" /\ resv' = [resv EXCEPT ![r] = y]
      /\ sub' = sub /\ acct' = acct /\ debt' = debt
    BY DEF RecordBillingReconcileReview
<1>2. /\ y \in ReservationRow /\ y.status = "reserved"
      /\ SameAccount(resv[r], y) /\ SameFreeze(resv[r], y) /\ HoldOf(y) = HoldOf(resv[r])
    BY <1>1, MarksKeep, RowTypes DEF CoreInv
<1> HIDE DEF y
<1>3. FreezeFollows(r, y)
    BY <1>1, <1>2 DEF FreezeFollows
<1> QED BY <1>1, <1>2, <1>3, StillFollows

\* A step that moves the hold to a target.
LEMMA HoldFollows ==
    ASSUME CoreInv, NEW r \in Requests, resv[r].status = "reserved",
           NEW target \in 0..MaxInt, NEW tokenDelta,
           NEW y \in ReservationRow, resv' = [resv EXCEPT ![r] = y],
           SameAccount(resv[r], y), HoldOf(y) = target,
           MoveBalances(r, target - resv[r].reserved, tokenDelta), FreezeFollows(r, y)
    PROVE  Follows(r)
<1> DEFINE delta == target - resv[r].reserved
<1>1. /\ resv[r].reserved \in Int /\ HoldOf(resv[r]) = resv[r].reserved
      /\ target \in Int
    BY RowTypes, SizeAssumption DEF CoreInv, HoldOf
<1>2. delta \in Int /\ HoldOf(y) = HoldOf(resv[r]) + delta
    BY <1>1
<1>3. sub' = IF resv[r].funding = "subscription"
             THEN [sub EXCEPT ![resv[r].subId] = SubscriptionAfter(r, delta)] ELSE sub
    BY DEF MoveBalances
<1> HIDE DEF delta
<1>4. Moves(r, y, delta)
    BY <1>2, <1>3 DEF Moves
<1> QED BY <1>4 DEF Follows

\* Extensions.
LEMMA ExtendFollows ==
    ASSUME CoreInv, NEW r \in Requests, NEW target \in 0..MaxInt,
           ExtendBillingReservation(r, target)
    PROVE  Follows(r)
<1> DEFINE y == AdjustedRow(r, target)
<1>1. /\ resv' = [resv EXCEPT ![r] = y] /\ acct' = acct /\ debt' = debt
      /\ MoveBalances(r, target - resv[r].reserved, target - resv[r].reserved)
    BY DEF ExtendBillingReservation, MoveHold
<1>2. resv[r].status = "reserved"
    BY DEF ExtendBillingReservation, ExtendErr, AdjustErr
<1>3. /\ y \in ReservationRow /\ y.status = "reserved"
      /\ SameAccount(resv[r], y) /\ SameFreeze(resv[r], y) /\ HoldOf(y) = target
    BY <1>2, AdjustmentKeeps
<1> HIDE DEF y
<1>4. FreezeFollows(r, y)
    BY <1>1, <1>3 DEF FreezeFollows
<1> QED BY <1>1, <1>2, <1>3, <1>4, HoldFollows

\* Tasks.
LEMMA CreateTaskFollows ==
    ASSUME CoreInv, NEW r \in Requests, NEW target \in 0..MaxInt, NEW done \in BOOLEAN,
           CreateTaskWithBillingReservation(r, target, done)
    PROVE  Follows(r)
<1> DEFINE x == AdjustedRow(r, target)
           bound == [x EXCEPT !.bound = TRUE]
<1>1. /\ acct' = acct /\ debt' = debt
      /\ MoveBalances(r, target - resv[r].reserved, target - resv[r].reserved)
    BY DEF CreateTaskWithBillingReservation, MoveHold
<1>2. resv[r].status = "reserved"
    BY DEF CreateTaskWithBillingReservation, CreateTaskErr
<1>3. /\ x \in ReservationRow /\ x.status = "reserved"
      /\ SameAccount(resv[r], x) /\ SameFreeze(resv[r], x) /\ HoldOf(x) = target
    BY <1>2, AdjustmentKeeps
<1>4. \/ resv' = [resv EXCEPT ![r] = x]
      \/ resv' = [resv EXCEPT ![r] = Revised(bound)]
    BY DEF CreateTaskWithBillingReservation
<1> HIDE DEF x
<1>5. /\ bound \in ReservationRow /\ SameAccount(x, bound) /\ SameFreeze(x, bound)
      /\ bound.status = x.status /\ HoldOf(bound) = HoldOf(x)
    BY <1>3, MarksKeep
<1> HIDE DEF bound
<1>6. /\ Revised(bound) \in ReservationRow
      /\ SameAccount(bound, Revised(bound)) /\ SameFreeze(bound, Revised(bound))
      /\ Revised(bound).status = bound.status /\ HoldOf(Revised(bound)) = HoldOf(bound)
    BY <1>5, MarksKeep
<1>7. PICK y \in ReservationRow :
        /\ resv' = [resv EXCEPT ![r] = y] /\ y.status = "reserved"
        /\ SameAccount(resv[r], y) /\ SameFreeze(resv[r], y) /\ HoldOf(y) = target
    BY <1>3, <1>4, <1>5, <1>6 DEF SameAccount, SameFreeze
<1>8. FreezeFollows(r, y)
    BY <1>1, <1>7 DEF FreezeFollows
<1> QED BY <1>1, <1>2, <1>7, <1>8, HoldFollows

\* Every settlement.
LEMMA SettleFollows ==
    ASSUME CoreInv, NEW r \in Requests, NEW q \in 0..MaxInt,
           \/ SettleBillingReservation(r, q)
           \/ ResolveByAdminSettle(r, q, resv[r].version)
           \/ SettleTaskBillingReservation(r, q)
    PROVE  Follows(r)
<1> DEFINE x == SettledRow(r, q)
<1>1. SettleBalances(r, q)
    BY DEF SettleBillingReservation, ResolveByAdminSettle, SettleTaskBillingReservation
<1>2. /\ resv[r].status = "reserved" /\ debt' = debt /\ ReleaseAfterFinalization(r)
      /\ MoveBalances(r, q - resv[r].reserved, q - resv[r].reserved)
    BY <1>1 DEF SettleBalances, MoveHold
<1>3. /\ x \in ReservationRow /\ x.status = "settled"
      /\ SameAccount(resv[r], x) /\ HoldOf(x) = q
    BY <1>2, AdjustmentKeeps
<1>4. \/ resv' = [resv EXCEPT ![r] = x]
      \/ resv' = [resv EXCEPT ![r] = Revised(x)]
    BY DEF SettleBillingReservation, ResolveByAdminSettle, SettleTaskBillingReservation
<1> HIDE DEF x
<1>5. /\ Revised(x) \in ReservationRow /\ SameAccount(x, Revised(x))
      /\ Revised(x).status = x.status /\ HoldOf(Revised(x)) = HoldOf(x)
    BY <1>3, MarksKeep
<1>6. PICK y \in ReservationRow :
        /\ resv' = [resv EXCEPT ![r] = y] /\ y.status = "settled"
        /\ SameAccount(resv[r], y) /\ HoldOf(y) = q
    BY <1>3, <1>4, <1>5 DEF SameAccount
<1>7. FreezeFollows(r, y)
    BY <1>2, <1>6 DEF FreezeFollows
<1> QED BY <1>2, <1>6, <1>7, HoldFollows

\* Every refund.
LEMMA RefundFollows ==
    ASSUME CoreInv, NEW r \in Requests,
           \/ RefundBillingReservation(r)
           \/ ResolveByAdminRefund(r, resv[r].version)
           \/ RefundTaskBillingReservation(r)
    PROVE  Follows(r)
<1> DEFINE x == RefundedRow(r)
<1>1. RefundBalances(r)
    BY DEF RefundBillingReservation, ResolveByAdminRefund, RefundTaskBillingReservation
<1>2. /\ resv[r].status = "reserved" /\ debt' = debt /\ ReleaseAfterFinalization(r)
      /\ MoveBalances(r, -resv[r].reserved, -resv[r].tokenReserved)
    BY <1>1 DEF RefundBalances
<1>3. /\ x \in ReservationRow /\ x.status = "refunded"
      /\ SameAccount(resv[r], x) /\ HoldOf(x) = 0
    BY <1>2, RefundKeeps
<1>4. \/ resv' = [resv EXCEPT ![r] = x]
      \/ resv' = [resv EXCEPT ![r] = Revised(x)]
    BY DEF RefundBillingReservation, ResolveByAdminRefund, RefundTaskBillingReservation
<1> HIDE DEF x
<1>5. /\ Revised(x) \in ReservationRow /\ SameAccount(x, Revised(x))
      /\ Revised(x).status = x.status /\ HoldOf(Revised(x)) = HoldOf(x)
    BY <1>3, MarksKeep
<1>6. PICK y \in ReservationRow :
        /\ resv' = [resv EXCEPT ![r] = y] /\ y.status = "refunded"
        /\ SameAccount(resv[r], y) /\ HoldOf(y) = 0
    BY <1>3, <1>4, <1>5 DEF SameAccount
<1>7. FreezeFollows(r, y)
    BY <1>2, <1>6 DEF FreezeFollows
<1>8. 0 \in 0..MaxInt /\ 0 - resv[r].reserved = -resv[r].reserved
    BY RowTypes, SizeAssumption DEF CoreInv
<1>9. MoveBalances(r, 0 - resv[r].reserved, -resv[r].tokenReserved)
    BY <1>2, <1>8
<1> QED BY <1>2, <1>6, <1>7, <1>8, <1>9, HoldFollows

Aside == resv' = resv /\ acct' = acct /\ debt' = debt /\ sub' = sub

FirstHold(r) == \E q \in 0..MaxInt : PreConsumeWallet(r, q) \/ PreConsumeSubscription(r, q)

\* Every step of a request or its task that is not its first hold follows, or
\* touches neither reservations nor accounts nor subscriptions.
LEMMA RequestFollows ==
    ASSUME CoreInv, NEW r \in Requests, RequestStep(r) \/ (r \in TaskRequests /\ TaskStep(r))
    PROVE  Follows(r) \/ Aside \/ FirstHold(r)
<1>1. /\ Amounts \subseteq 0..MaxInt /\ FailureCodes \subseteq BillingSettlementFailures
    BY SizeAssumption, IdentityAssumption
<1>2. CASE RequestStep(r)
    <2>1. ASSUME NEW q \in Amounts,
                 \/ PrepareBillingReservationSettlement(r, q)
                 \/ AdvanceUnboundBillingReservationSettlementIntent(r, q)
          PROVE  Follows(r)
        BY <1>1, <2>1, IntentFollows DEF PrepareBillingReservationSettlement,
                               AdvanceUnboundBillingReservationSettlementIntent
    <2>2. ASSUME NEW q \in Amounts, PreConsumeWallet(r, q) \/ PreConsumeSubscription(r, q)
          PROVE  FirstHold(r)
        BY <1>1, <2>2 DEF FirstHold
    <2> QED
        BY <1>1, <1>2, <2>1, <2>2, ExtendFollows, MarkFollows, SettleFollows, RefundFollows,
           ReviewFollows
        DEF RequestStep
<1>3. CASE TaskStep(r)
    <2>1. ASSUME NEW q \in Amounts, PrepareTaskBillingReservationSettlement(r, q)
          PROVE  Follows(r)
        BY <1>1, <2>1, IntentFollows DEF PrepareTaskBillingReservationSettlement
    <2>2. ASSUME NEW q \in Amounts, TaskSucceeds(r, q) \/ SettleTaskAgain(r, q)
          PROVE  Aside
        BY <2>2 DEF TaskSucceeds, SettleTaskAgain, Aside
    <2>3. ASSUME TaskFails(r) PROVE Aside
        BY <2>3 DEF TaskFails, Aside
    <2> QED
        BY <1>1, <1>3, <2>1, <2>2, <2>3, CreateTaskFollows, SettleFollows, RefundFollows
        DEF TaskStep
<1> QED BY <1>2, <1>3

-----------------------------------------------------------------------------
(* The freeze of a user                                                    *)

\* What paymentFreezePreviousUserStatusTx returns is what every open liability
\* of the user remembers.
LEMMA OneStatusRemembered ==
    ASSUME CoreInv, FrozenIffLiable, NEW u \in Users
    PROVE  /\ debt[u].open => debt[u].prevStatus = PaymentFreezePreviousUserStatus(u)
           /\ \A r \in Requests : UserOf[r] = u /\ OpenShortfall(r) =>
                 resv[r].prevStatus = PaymentFreezePreviousUserStatus(u)
<1>1. debt[u].prevStatus \in Status /\ \A r \in Requests : resv[r].prevStatus \in Status
    BY RowTypes DEF CoreInv, TypeOK, DebtRow, ReservationRow
<1>2. /\ acct[u].frozen <=> \/ debt[u].open
                            \/ \E r \in Requests : UserOf[r] = u /\ OpenShortfall(r)
      /\ acct[u].frozen => acct[u].status = "disabled"
    BY DEF FrozenIffLiable, HasOpenUserPaymentFreeze
<1>3. \A r \in Requests : UserOf[r] = u /\ OpenShortfall(r) =>
        /\ debt[u].open => debt[u].prevStatus = resv[r].prevStatus
        /\ \A p \in Requests : UserOf[p] = u /\ OpenShortfall(p) =>
              resv[p].prevStatus = resv[r].prevStatus
    BY DEF FrozenIffLiable
<1> DEFINE E == \/ debt[u].open /\ debt[u].prevStatus = "enabled"
                \/ \E r \in Requests : /\ UserOf[r] = u /\ OpenShortfall(r)
                                       /\ resv[r].prevStatus = "enabled"
<1>4. PaymentFreezePreviousUserStatus(u) = IF acct[u].frozen /\ E THEN "enabled" ELSE acct[u].status
    BY DEF PaymentFreezePreviousUserStatus
<1>5. CASE E
    <2>1. PICK c \in {"enabled"} :
            /\ debt[u].open => debt[u].prevStatus = c
            /\ \A r \in Requests : UserOf[r] = u /\ OpenShortfall(r) => resv[r].prevStatus = c
        BY <1>3, <1>5
    <2>2. acct[u].frozen
        BY <1>2, <1>5
    <2> QED BY <1>4, <1>5, <2>1, <2>2
<1>6. CASE ~E
    <2>1. /\ debt[u].open => debt[u].prevStatus = "disabled"
          /\ \A r \in Requests : UserOf[r] = u /\ OpenShortfall(r) =>
                resv[r].prevStatus = "disabled"
        BY <1>1, <1>6 DEF Status
    <2>2. acct[u].frozen => PaymentFreezePreviousUserStatus(u) = "disabled"
        BY <1>2, <1>4, <1>6
    <2> QED BY <1>2, <2>1, <2>2
<1> QED BY <1>5, <1>6

\* The freeze of one user's account.
AccountFrozen(u) ==
    /\ acct[u].frozen <=> HasOpenUserPaymentFreeze(u)
    /\ acct[u].frozen => acct[u].status = "disabled"

\* The account follows an open reservation.
LEMMA FollowsFreeze ==
    ASSUME CoreInv, FrozenIffLiable, NEW r \in Requests, Follows(r)
    PROVE  FrozenIffLiable'
<1> DEFINE u == UserOf[r]
<1>1. PICK y : /\ y \in ReservationRow /\ resv' = [resv EXCEPT ![r] = y]
               /\ FreezeFollows(r, y)
    BY DEF Follows, Moves
<1>2. /\ u \in Users /\ resv[r].status = "reserved"
      /\ \A p \in Requests : UserOf[p] \in Users
      /\ acct \in [Users -> AccountRow]
    BY IdentityAssumption DEF Follows, CoreInv, TypeOK
<1>3. resv'[r] = y /\ \A p \in Requests \ {r} : resv'[p] = resv[p]
    BY <1>1 DEF CoreInv, TypeOK
<1>4. debt' = debt
    BY <1>1 DEF FreezeFollows
<1>5. \A p \in Requests \ {r} : OpenShortfall(p)' <=> OpenShortfall(p)
    BY <1>3 DEF OpenShortfall
<1>6. \A v \in Users : AccountFrozen(v)
    BY DEF FrozenIffLiable, AccountFrozen
<1>7. CASE y.status = "reserved" /\ SameFreeze(resv[r], y) /\ acct' = acct
    <2>1. /\ \A p \in Requests : OpenShortfall(p)' <=> OpenShortfall(p)
          /\ \A p \in Requests : resv'[p].prevStatus = resv[p].prevStatus
        BY <1>2, <1>3, <1>5, <1>7 DEF OpenShortfall, SameFreeze
    <2>2. \A v \in Users : HasOpenUserPaymentFreeze(v)' <=> HasOpenUserPaymentFreeze(v)
        BY <1>4, <2>1 DEF HasOpenUserPaymentFreeze
    <2> QED BY <1>4, <1>7, <2>1, <2>2 DEF FrozenIffLiable
<1>8. CASE /\ y.status = "reserved" /\ y.freeze /\ Freeze(UserOf[r])
           /\ \/ y.prevStatus = PaymentFreezePreviousUserStatus(UserOf[r])
              \/ SameFreeze(resv[r], y)
    <2>1. OpenShortfall(r)'
        BY <1>3, <1>8 DEF OpenShortfall
    <2>2. /\ acct'[u] = [status |-> "disabled", frozen |-> TRUE]
          /\ \A v \in Users \ {u} : acct'[v] = acct[v]
        BY <1>2, <1>8 DEF Freeze
    <2>3. \A v \in Users : AccountFrozen(v)'
        <3>1. \A v \in Users \ {u} : HasOpenUserPaymentFreeze(v)' <=> HasOpenUserPaymentFreeze(v)
            BY <1>4, <1>5 DEF HasOpenUserPaymentFreeze
        <3>2. HasOpenUserPaymentFreeze(u)'
            BY <2>1 DEF HasOpenUserPaymentFreeze
        <3> QED BY <1>6, <2>2, <3>1, <3>2 DEF AccountFrozen
    <2>4. y.prevStatus = PaymentFreezePreviousUserStatus(u)
        <3>1. SameFreeze(resv[r], y) => OpenShortfall(r) /\ y.prevStatus = resv[r].prevStatus
            BY <1>2, <1>8 DEF SameFreeze, OpenShortfall
        <3> QED BY <1>2, <1>8, <3>1, OneStatusRemembered
    <2>5. /\ debt'[u].open => debt'[u].prevStatus = PaymentFreezePreviousUserStatus(u)
          /\ \A p \in Requests : UserOf[p] = u /\ OpenShortfall(p)' =>
                resv'[p].prevStatus = PaymentFreezePreviousUserStatus(u)
        BY <1>2, <1>3, <1>4, <1>5, <2>4, OneStatusRemembered
    <2>6. ASSUME NEW p \in Requests, OpenShortfall(p)'
          PROVE  /\ debt'[UserOf[p]].open => debt'[UserOf[p]].prevStatus = resv'[p].prevStatus
                 /\ \A z \in Requests : UserOf[z] = UserOf[p] /\ OpenShortfall(z)' =>
                       resv'[z].prevStatus = resv'[p].prevStatus
        <3>1. CASE UserOf[p] = u
            BY <2>5, <2>6, <3>1
        <3>2. CASE UserOf[p] # u
            <4>1. \A z \in Requests : UserOf[z] = UserOf[p] =>
                    /\ OpenShortfall(z)' <=> OpenShortfall(z)
                    /\ resv'[z] = resv[z]
                BY <1>3, <1>5, <3>2
            <4> QED BY <1>4, <2>6, <4>1 DEF FrozenIffLiable
        <3> QED BY <3>1, <3>2
    <2> QED BY <2>3, <2>6 DEF FrozenIffLiable, AccountFrozen
<1>9. CASE y.status \in {"settled", "refunded"} /\ ReleaseAfterFinalization(r)
    <2>1. ~OpenShortfall(r)'
        BY <1>3, <1>9 DEF OpenShortfall
    <2>2. \A v \in Users : AccountFrozen(v)'
        <3>1. \A v \in Users \ {u} : HasOpenUserPaymentFreeze(v)' <=> HasOpenUserPaymentFreeze(v)
            BY <1>4, <1>5 DEF HasOpenUserPaymentFreeze
        <3>2. HasOpenUserPaymentFreeze(u)' <=> OtherOpenThanReservation(r)
            BY <1>4, <1>5, <2>1 DEF HasOpenUserPaymentFreeze, OtherOpenThanReservation
        <3>3. HasOpenUserPaymentFreeze(u) <=> OtherOpenThanReservation(r) \/ resv[r].freeze
            BY <1>2 DEF HasOpenUserPaymentFreeze, OtherOpenThanReservation, OpenShortfall
        <3>4. \A v \in Users \ {u} : acct'[v] = acct[v]
            BY <1>2, <1>9 DEF ReleaseAfterFinalization, ReleaseUserPaymentFreeze
        <3>5. CASE ~resv[r].freeze \/ OtherOpenThanReservation(r)
            <4>1. acct' = acct
                BY <1>9, <3>5 DEF ReleaseAfterFinalization, ReleaseUserPaymentFreeze
            <4> QED BY <1>6, <3>1, <3>2, <3>3, <3>5, <4>1 DEF AccountFrozen
        <3>6. CASE resv[r].freeze /\ ~OtherOpenThanReservation(r)
            <4>1. acct[u].frozen
                BY <1>2, <1>6, <3>3, <3>6 DEF AccountFrozen
            <4>2. acct'[u].frozen = FALSE
                BY <1>2, <1>9, <3>6, <4>1 DEF ReleaseAfterFinalization, ReleaseUserPaymentFreeze
            <4> QED BY <1>6, <3>1, <3>2, <3>4, <3>6, <4>2 DEF AccountFrozen
        <3> QED BY <3>5, <3>6
    <2>3. \A p \in Requests : OpenShortfall(p)' =>
            p # r /\ OpenShortfall(p) /\ resv'[p] = resv[p]
        BY <1>3, <1>5, <2>1
    <2> QED BY <1>4, <2>2, <2>3 DEF FrozenIffLiable, AccountFrozen
<1> QED BY <1>1, <1>7, <1>8, <1>9 DEF FreezeFollows

\* A first hold is not a liability.
LEMMA FirstHoldFreeze ==
    ASSUME CoreInv, FrozenIffLiable, NEW r \in Requests, FirstHold(r)
    PROVE  FrozenIffLiable'
<1>1. acct' = acct /\ debt' = debt /\ resv[r].status = "absent"
    BY DEF FirstHold, PreConsumeWallet, PreConsumeSubscription
<1>2. PICK y : resv' = [resv EXCEPT ![r] = y] /\ y.freeze = FALSE
    <2>1. PICK q \in 0..MaxInt : PreConsumeWallet(r, q) \/ PreConsumeSubscription(r, q)
        BY DEF FirstHold
    <2>2. CASE PreConsumeWallet(r, q)
        <3>1. FreshRow(r, "wallet", q).freeze = FALSE
            BY FreshRowFields
        <3>2. resv' = [resv EXCEPT ![r] = FreshRow(r, "wallet", q)]
            BY <2>2 DEF PreConsumeWallet
        <3> QED BY <3>1, <3>2, Zenon
    <2>3. CASE PreConsumeSubscription(r, q)
        <3>1. PICK s \in Subs : resv' = [resv EXCEPT ![r] =
                                  SubscriptionFreshRow(r, q, s, ResetIfDue(sub[s]).version)]
            BY <2>3 DEF PreConsumeSubscription, Pick, ActiveSubs
        <3> DEFINE epoch == ResetIfDue(sub[s]).version
                   fresh == FreshRow(r, "subscription", q)
        <3>2. fresh \in ReservationRow /\ fresh.freeze = FALSE
            BY FreshRowFields DEF RowHolds
        <3>3. SubscriptionFreshRow(r, q, s, epoch) = [fresh EXCEPT !.subId = s, !.epoch = epoch]
            BY DEF SubscriptionFreshRow
        <3> HIDE DEF fresh
        <3>4. SubscriptionFreshRow(r, q, s, epoch).freeze = FALSE
            BY <3>2, <3>3 DEF ReservationRow
        <3> QED BY <3>1, <3>4
    <2> QED BY <2>1, <2>2, <2>3
<1>3. resv'[r] = y /\ \A p \in Requests \ {r} : resv'[p] = resv[p]
    BY <1>2 DEF CoreInv, TypeOK
<1>4. \A p \in Requests : OpenShortfall(p)' <=> OpenShortfall(p)
    BY <1>1, <1>2, <1>3 DEF OpenShortfall
<1>5. \A p \in Requests : OpenShortfall(p) => resv'[p] = resv[p]
    BY <1>1, <1>3 DEF OpenShortfall
<1>6. \A u \in Users : HasOpenUserPaymentFreeze(u)' <=> HasOpenUserPaymentFreeze(u)
    BY <1>1, <1>4 DEF HasOpenUserPaymentFreeze
<1> QED BY <1>1, <1>4, <1>5, <1>6 DEF FrozenIffLiable

\* Nor does anything else unfreeze a liable user or freeze another one.
LEMMA AccountFreeze ==
    ASSUME CoreInv, FrozenIffLiable, AccountStep
    PROVE  FrozenIffLiable'
<1>1. resv' = resv
    BY DEF AccountStep, IncreaseUserQuota, DecreaseUserQuota, OverrideUserQuota, AddPaymentDebt,
           ResolvePaymentDebt, ManageUserDisable, EnableUserIfNoPaymentFreeze, DeleteToken,
           PeriodElapses, ResetDueSubscription, AdminResetSubscription, EndSubscription,
           CleanupSubscriptionPreConsumeRecord
<1>2. /\ acct \in [Users -> AccountRow] /\ debt \in [Users -> DebtRow]
      /\ \A p \in Requests : UserOf[p] \in Users
    BY IdentityAssumption DEF CoreInv, TypeOK
<1>3. \A p \in Requests : OpenShortfall(p)' <=> OpenShortfall(p)
    BY <1>1 DEF OpenShortfall
<1>4. \A v \in Users : AccountFrozen(v)
    BY DEF FrozenIffLiable, AccountFrozen
<1>5. CASE acct' = acct /\ debt' = debt
    BY <1>1, <1>3, <1>5 DEF FrozenIffLiable, HasOpenUserPaymentFreeze
<1>6. ASSUME NEW u \in Users, AddPaymentDebt(u) PROVE FrozenIffLiable'
    <2>1. /\ debt'[u].open /\ debt'[u].prevStatus = PaymentFreezePreviousUserStatus(u)
          /\ \A v \in Users \ {u} : debt'[v] = debt[v] /\ acct'[v] = acct[v]
          /\ acct'[u] = [status |-> "disabled", frozen |-> TRUE]
        BY <1>2, <1>6 DEF AddPaymentDebt, Freeze
    <2>2. \A v \in Users : AccountFrozen(v)'
        BY <1>3, <1>4, <2>1 DEF AccountFrozen, HasOpenUserPaymentFreeze
    <2>3. \A p \in Requests : OpenShortfall(p) =>
            (debt'[UserOf[p]].open => debt'[UserOf[p]].prevStatus = resv[p].prevStatus)
        BY <1>2, <2>1, OneStatusRemembered DEF FrozenIffLiable
    <2> QED BY <1>1, <1>3, <2>2, <2>3 DEF FrozenIffLiable, AccountFrozen
<1>7. ASSUME NEW u \in Users, ResolvePaymentDebt(u) PROVE FrozenIffLiable'
    <2> DEFINE other == \E r \in Requests : UserOf[r] = u /\ OpenShortfall(r)
    <2>1. /\ debt[u].open /\ ~debt'[u].open
          /\ \A v \in Users \ {u} : debt'[v] = debt[v]
          /\ ReleaseUserPaymentFreeze(u, debt[u].prevStatus, other)
        BY <1>2, <1>7 DEF ResolvePaymentDebt, DebtRow
    <2>2. acct[u].frozen
        BY <1>4, <2>1 DEF AccountFrozen, HasOpenUserPaymentFreeze
    <2>3. /\ \A v \in Users \ {u} : acct'[v] = acct[v]
          /\ other => acct' = acct
          /\ ~other => acct'[u].frozen = FALSE
        BY <1>2, <2>1, <2>2 DEF ReleaseUserPaymentFreeze
    <2>4. HasOpenUserPaymentFreeze(u)' <=> other
        BY <1>3, <2>1 DEF HasOpenUserPaymentFreeze
    <2>5. \A v \in Users \ {u} : HasOpenUserPaymentFreeze(v)' <=> HasOpenUserPaymentFreeze(v)
        BY <1>3, <2>1 DEF HasOpenUserPaymentFreeze
    <2> HIDE DEF other
    <2>6. \A v \in Users : AccountFrozen(v)'
        BY <1>4, <2>2, <2>3, <2>4, <2>5 DEF AccountFrozen
    <2>7. \A p \in Requests : OpenShortfall(p) =>
            (debt'[UserOf[p]].open => debt'[UserOf[p]].prevStatus = resv[p].prevStatus)
        BY <1>2, <2>1 DEF FrozenIffLiable
    <2> QED BY <1>1, <1>3, <2>6, <2>7 DEF FrozenIffLiable, AccountFrozen
<1>8. ASSUME NEW u \in Users, ManageUserDisable(u) \/ EnableUserIfNoPaymentFreeze(u)
      PROVE  FrozenIffLiable'
    <2>1. debt' = debt /\ \A v \in Users \ {u} : acct'[v] = acct[v]
        BY <1>2, <1>8 DEF ManageUserDisable, EnableUserIfNoPaymentFreeze
    <2>2. \A v \in Users : HasOpenUserPaymentFreeze(v)' <=> HasOpenUserPaymentFreeze(v)
        BY <1>3, <2>1 DEF HasOpenUserPaymentFreeze
    <2>3. AccountFrozen(u)'
        <3>1. CASE ManageUserDisable(u)
            <4>1. acct'[u].frozen = acct[u].frozen /\ acct'[u].status = "disabled"
                BY <1>2, <3>1 DEF ManageUserDisable, AccountRow
            <4> QED BY <1>4, <2>2, <4>1 DEF AccountFrozen
        <3>2. CASE EnableUserIfNoPaymentFreeze(u)
            <4>1. acct'[u].frozen = FALSE /\ ~HasOpenUserPaymentFreeze(u)
                BY <1>2, <3>2 DEF EnableUserIfNoPaymentFreeze
            <4> QED BY <2>2, <4>1 DEF AccountFrozen
        <3> QED BY <1>8, <3>1, <3>2
    <2>4. \A v \in Users : AccountFrozen(v)'
        BY <1>4, <2>1, <2>2, <2>3 DEF AccountFrozen
    <2> QED BY <1>1, <1>3, <2>1, <2>4 DEF FrozenIffLiable, AccountFrozen
<1>9. \/ acct' = acct /\ debt' = debt
      \/ \E u \in Users : AddPaymentDebt(u) \/ ResolvePaymentDebt(u)
      \/ \E u \in Users : ManageUserDisable(u) \/ EnableUserIfNoPaymentFreeze(u)
    BY DEF AccountStep, IncreaseUserQuota, DecreaseUserQuota, OverrideUserQuota, DeleteToken,
           PeriodElapses, ResetDueSubscription, AdminResetSubscription, EndSubscription,
           CleanupSubscriptionPreConsumeRecord
<1> QED BY <1>5, <1>6, <1>7, <1>8, <1>9

\* However shortfalls and debts of a user come and go, one transaction at a
\* time the user is frozen exactly while one is open, and all of them remember
\* the same status, so that the last one to go restores the right one.
THEOREM FreezeFollowsLiabilities == Spec => []FrozenIffLiable
<1>1. Init => FrozenIffLiable
    <2> SUFFICES ASSUME Init PROVE FrozenIffLiable
        OBVIOUS
    <2>1. /\ \A u \in Users : acct[u].frozen = FALSE /\ debt[u].open = FALSE
          /\ \A r \in Requests : ~OpenShortfall(r)
        BY DEF Init, AbsentRow, OpenShortfall
    <2> QED BY <2>1 DEF FrozenIffLiable, HasOpenUserPaymentFreeze
<1>2. CoreInv /\ FrozenIffLiable /\ [Next]_vars => FrozenIffLiable'
    <2> SUFFICES ASSUME CoreInv, FrozenIffLiable, [Next]_vars PROVE FrozenIffLiable'
        OBVIOUS
    <2>1. ASSUME resv' = resv, acct' = acct, debt' = debt PROVE FrozenIffLiable'
        BY <2>1 DEF FrozenIffLiable, HasOpenUserPaymentFreeze, OpenShortfall
    <2>2. ASSUME NEW r \in Requests, RequestStep(r) \/ (r \in TaskRequests /\ TaskStep(r))
          PROVE  FrozenIffLiable'
        BY <2>1, <2>2, RequestFollows, FollowsFreeze, FirstHoldFreeze DEF Aside
    <2>3. CASE AccountStep
        BY <2>3, AccountFreeze
    <2>4. CASE UNCHANGED vars
        BY <2>1, <2>4 DEF vars
    <2>5. TaskRequests \subseteq Requests
        BY IdentityAssumption
    <2> QED BY <2>2, <2>3, <2>4, <2>5 DEF Next
<1> QED BY <1>1, <1>2, CoreCorrect, PTL DEF Spec

-----------------------------------------------------------------------------
(* The sums over the reservations of a subscription                        *)

\* The reservations in rows that hold quota of s, those of period n, and what
\* each holds.
In(rows, s) == {r \in Requests : rows[r].funding = "subscription" /\ rows[r].subId = s}
InPeriod(rows, s, n) == {r \in In(rows, s) : rows[r].epoch = n}
HoldsOf(rows) == [r \in Requests |-> HoldOf(rows[r])]
SumOf(rows, S) == SumFunctionOnSet(HoldsOf(rows), S)

\* The counters of the subscription s with row x are the sums of its holds, and
\* none of them was taken in a period to come.
PeriodSum(x, s, rows) ==
    x.used = (IF x.version = 0 THEN InitUsed ELSE 0) + SumOf(rows, InPeriod(rows, s, x.version))
LifetimeSum(x, s, rows) == Larger(x.total, x.used) = InitUsed + SumOf(rows, In(rows, s))
NoneAhead(x, s, rows) == \A r \in In(rows, s) : rows[r].epoch <= x.version

Usage(x, s, rows) ==
    PeriodSum(x, s, rows) /\ LifetimeSum(x, s, rows) /\ NoneAhead(x, s, rows)

\* A reservation is drawn on a subscription only once it has been made on it.
RowsPlaced ==
    \A r \in Requests :
        /\ resv[r].status = "absent" => resv[r].funding = "wallet"
        /\ resv[r].funding = "subscription" => resv[r].subId \in Subs

UsageInv == RowsPlaced /\ \A s \in Subs : Usage(sub[s], s, resv)

\* What the holds of rows are.
LEMMA HoldsType ==
    ASSUME NEW rows \in [Requests -> ReservationRow]
    PROVE  /\ HoldsOf(rows) \in [Requests -> Nat]
           /\ \A r \in Requests : rows[r].epoch \in Nat
<1>1. \A r \in Requests : rows[r].reserved \in Nat /\ rows[r].epoch \in Nat
    <2> TAKE r \in Requests
    <2>1. rows[r] \in ReservationRow
        OBVIOUS
    <2>2. rows[r].reserved \in 0..MaxInt /\ rows[r].epoch \in Nat
        BY <2>1 DEF ReservationRow
    <2> QED BY <2>2, SizeAssumption
<1> QED BY <1>1 DEF HoldsOf, HoldOf

\* Sums of holds are natural numbers that grow with the set.
LEMMA SumOfType ==
    ASSUME NEW rows \in [Requests -> ReservationRow], NEW T \in SUBSET Requests,
           NEW S \in SUBSET T
    PROVE  /\ SumOf(rows, S) \in Int /\ SumOf(rows, T) \in Int
           /\ SumOf(rows, S) <= SumOf(rows, T)
           /\ S = {} => SumOf(rows, S) = 0
<1>1. \A r \in Requests : HoldsOf(rows)[r] \in Nat
    BY HoldsType
<1>2. IsFiniteSet(T) /\ IsFiniteSet(S)
    BY FS_Subset, IdentityAssumption
<1>3. /\ \A x \in T : HoldsOf(rows)[x] \in Nat /\ HoldsOf(rows)[x] \in Int
      /\ \A x \in S : HoldsOf(rows)[x] \in Int
    BY <1>1
<1>4. SumFunctionOnSet(HoldsOf(rows), S) <= SumFunctionOnSet(HoldsOf(rows), T)
    BY <1>2, <1>3, SumFunctionGrows
<1>5. /\ SumFunctionOnSet(HoldsOf(rows), S) \in Int
      /\ SumFunctionOnSet(HoldsOf(rows), T) \in Int
      /\ S = {} => SumFunctionOnSet(HoldsOf(rows), S) = 0
    BY <1>2, <1>3, SumFunctionType
<1> QED BY <1>4, <1>5 DEF SumOf

\* The sum over S changes by what the hold of r changes.
Shifts(new, rows, S, r) ==
    SumOf(new, S) = SumOf(rows, S) + (HoldOf(new[r]) - HoldOf(rows[r]))

\* Replacing a row changes the sums it is in by what its hold changes, and no
\* other sum.
LEMMA SumOfReplaced ==
    ASSUME NEW rows \in [Requests -> ReservationRow], NEW r \in Requests,
           NEW new \in [Requests -> ReservationRow],
           \A p \in Requests \ {r} : new[p] = rows[p],
           NEW S \in SUBSET Requests
    PROVE  /\ r \in S => Shifts(new, rows, S, r)
           /\ r \notin S => SumOf(new, S) = SumOf(rows, S)
<1> DEFINE w == HoldsOf(rows)
           v == HoldsOf(new)
<1>1. w \in [Requests -> Nat] /\ v \in [Requests -> Nat]
    BY HoldsType
<1>2. /\ v[r] = HoldOf(new[r]) /\ w[r] = HoldOf(rows[r])
      /\ \A p \in Requests \ {r} : v[p] = w[p]
    BY DEF HoldsOf
<1>3. SumOf(new, S) = SumFunctionOnSet(v, S) /\ SumOf(rows, S) = SumFunctionOnSet(w, S)
    BY DEF SumOf
<1> HIDE DEF w, v
<1>4. \A p \in Requests : w[p] \in Nat /\ v[p] \in Nat
    BY <1>1
<1>5. /\ \A p \in S : w[p] \in Int /\ v[p] \in Int
      /\ \A p \in S \ {r} : w[p] \in Int /\ v[p] = w[p]
    BY <1>2, <1>4
<1>6. IsFiniteSet(S) /\ IsFiniteSet(S \ {r})
    BY FS_Subset, IdentityAssumption
<1>7. SumFunctionOnSet(v, S \ {r}) = SumFunctionOnSet(w, S \ {r})
    BY <1>5, <1>6, SumFunctionSame
<1>8. CASE r \in S
    <2>1. Splits(w, S, r) /\ Splits(v, S, r)
        BY <1>5, <1>6, <1>8, SumFunctionSplits
    <2>2. SumFunctionOnSet(w, S \ {r}) \in Int
        BY <1>5, <1>6, SumFunctionType
    <2>3. w[r] \in Int /\ v[r] \in Int
        BY <1>5, <1>8
    <2> QED BY <1>2, <1>3, <1>7, <1>8, <2>1, <2>2, <2>3 DEF Splits, Shifts
<1>9. CASE r \notin S
    <2>1. S \ {r} = S
        BY <1>9
    <2> QED BY <1>3, <1>7, <1>9, <2>1
<1> QED BY <1>8, <1>9

\* The sum over S grows by the hold of r when r joins.
Gains(rows, S, r) == SumOf(rows, S \cup {r}) = SumOf(rows, S) + HoldOf(rows[r])

\* A row that joins a set adds its hold.
LEMMA SumOfJoined ==
    ASSUME NEW rows \in [Requests -> ReservationRow], NEW S \in SUBSET Requests,
           NEW r \in Requests, r \notin S
    PROVE  Gains(rows, S, r)
<1> DEFINE w == HoldsOf(rows)
           T == S \cup {r}
<1>1. w \in [Requests -> Nat] /\ w[r] = HoldOf(rows[r])
    BY HoldsType DEF HoldsOf
<1>2. IsFiniteSet(T) /\ r \in T /\ T \ {r} = S /\ T \in SUBSET Requests
    BY FS_Subset, IdentityAssumption
<1> HIDE DEF w, T
<1>3. Splits(w, T, r)
    BY <1>1, <1>2, SumFunctionSplits
<1> QED BY <1>1, <1>2, <1>3 DEF Splits, SumOf, Gains, w, T

\* The sets of a subscription are sets of requests.
LEMMA InType ==
    ASSUME NEW rows, NEW s, NEW n
    PROVE  InPeriod(rows, s, n) \in SUBSET In(rows, s) /\ In(rows, s) \in SUBSET Requests
BY DEF In, InPeriod

-----------------------------------------------------------------------------
(* What each kind of step does to the counters                             *)

\* The end or the due date of a subscription does not touch its counters.
LEMMA UsageOfCounters ==
    ASSUME NEW x, NEW y, NEW s, NEW rows, Usage(x, s, rows),
           y.used = x.used, y.total = x.total, y.version = x.version
    PROVE  Usage(y, s, rows)
BY DEF Usage, PeriodSum, LifetimeSum, NoneAhead

\* A reset carries the period's counter into the lifetime counter and starts a
\* period in which nothing is held yet.
LEMMA UsageAfterReset ==
    ASSUME NEW rows \in [Requests -> ReservationRow], NEW s,
           NEW x \in SubscriptionRow, Usage(x, s, rows),
           NEW y, y.used = 0, y.total = Larger(x.total, x.used), y.version = x.version + 1
    PROVE  Usage(y, s, rows)
<1>1. x.version \in Nat /\ x.used \in Nat /\ x.total \in Nat
    BY DEF SubscriptionRow
<1>2. \A r \in In(rows, s) : rows[r].epoch \in Nat /\ rows[r].epoch <= x.version
    BY HoldsType DEF Usage, NoneAhead, In
<1>3. InPeriod(rows, s, y.version) = {}
    BY <1>1, <1>2 DEF InPeriod
<1>4. SumOf(rows, InPeriod(rows, s, y.version)) = 0
    BY <1>3, InType, SumOfType
<1>5. PeriodSum(y, s, rows)
    BY <1>1, <1>4 DEF PeriodSum
<1>6. LifetimeSum(y, s, rows)
    <2>1. Larger(y.total, y.used) = Larger(x.total, x.used)
        BY <1>1 DEF Larger
    <2> QED BY <2>1 DEF Usage, LifetimeSum
<1>7. NoneAhead(y, s, rows)
    BY <1>1, <1>2 DEF NoneAhead
<1> QED BY <1>5, <1>6, <1>7 DEF Usage

\* maybeResetUserSubscriptionWithPlanTx keeps the counters right.
LEMMA UsageAfterResetIfDue ==
    ASSUME NEW rows \in [Requests -> ReservationRow], NEW s,
           NEW x \in SubscriptionRow, Usage(x, s, rows)
    PROVE  Usage(ResetIfDue(x), s, rows)
<1> DEFINE y == ResetIfDue(x)
<1>1. CASE x.due
    <2>1. y.used = 0 /\ y.total = Larger(x.total, x.used) /\ y.version = x.version + 1
        BY <1>1 DEF ResetIfDue, SubscriptionRow
    <2> HIDE DEF y
    <2>2. Usage(y, s, rows)
        BY <2>1, UsageAfterReset
    <2> QED BY <2>2 DEF y
<1>2. CASE ~x.due
    BY <1>2 DEF ResetIfDue
<1> QED BY <1>1, <1>2

\* A row that neither was nor is drawn on s does not concern s.
LEMMA UsageElsewhere ==
    ASSUME NEW rows \in [Requests -> ReservationRow], NEW s, NEW x, Usage(x, s, rows),
           NEW r \in Requests, NEW y \in ReservationRow,
           ~(rows[r].funding = "subscription" /\ rows[r].subId = s),
           ~(y.funding = "subscription" /\ y.subId = s)
    PROVE  Usage(x, s, [rows EXCEPT ![r] = y])
<1> DEFINE new == [rows EXCEPT ![r] = y]
<1>1. new[r] = y /\ \A p \in Requests \ {r} : new[p] = rows[p]
    OBVIOUS
<1>2. new \in [Requests -> ReservationRow]
    OBVIOUS
<1> HIDE DEF new
<1>3. r \notin In(rows, s) /\ In(new, s) = In(rows, s)
    BY <1>1 DEF In
<1>4. InPeriod(new, s, x.version) = InPeriod(rows, s, x.version) /\ r \notin InPeriod(rows, s, x.version)
    BY <1>1, <1>3 DEF InPeriod, In
<1>5. \A S \in SUBSET Requests : r \notin S => SumOf(new, S) = SumOf(rows, S)
    <2> TAKE S \in SUBSET Requests
    <2> QED BY <1>1, <1>2, SumOfReplaced
<1>6. PeriodSum(x, s, new)
    <2>1. SumOf(new, InPeriod(new, s, x.version)) = SumOf(rows, InPeriod(rows, s, x.version))
        BY <1>4, <1>5, InType
    <2> QED BY <2>1 DEF PeriodSum, Usage
<1>7. LifetimeSum(x, s, new)
    <2>1. SumOf(new, In(new, s)) = SumOf(rows, In(rows, s))
        BY <1>3, <1>5, InType
    <2> QED BY <2>1 DEF LifetimeSum, Usage
<1>8. NoneAhead(x, s, new)
    <2>1. \A p \in In(rows, s) : new[p] = rows[p]
        BY <1>1, <1>3, InType
    <2> QED BY <1>3, <2>1 DEF NoneAhead, Usage
<1>9. Usage(x, s, new)
    BY <1>6, <1>7, <1>8 DEF Usage
<1> QED BY <1>9 DEF new

\* The lifetime counter, once moved, is not below the period's counter.
LEMMA LifetimeAbovePeriod ==
    ASSUME NEW rows \in [Requests -> ReservationRow], NEW s, NEW x \in SubscriptionRow,
           PeriodSum(x, s, rows), x.total = InitUsed + SumOf(rows, In(rows, s))
    PROVE  LifetimeSum(x, s, rows)
<1> DEFINE period == SumOf(rows, InPeriod(rows, s, x.version))
           all == SumOf(rows, In(rows, s))
<1>1. period \in Int /\ all \in Int /\ period <= all
    BY InType, SumOfType
<1>2. x.used = (IF x.version = 0 THEN InitUsed ELSE 0) + period
    BY DEF PeriodSum
<1>3. x.used \in Nat /\ x.total \in Nat /\ InitUsed \in Nat
    BY SizeAssumption DEF SubscriptionRow
<1> HIDE DEF period, all
<1>4. x.used <= InitUsed + all
    BY <1>1, <1>2, <1>3
<1>5. x.total = InitUsed + all
    BY DEF all
<1>6. Larger(x.total, x.used) = x.total
    BY <1>3, <1>4, <1>5 DEF Larger
<1> QED BY <1>6 DEF LifetimeSum

\* A row that keeps its account and its hold leaves the counters alone.
LEMMA UsageOfSameHold ==
    ASSUME NEW rows \in [Requests -> ReservationRow], NEW s, NEW x, Usage(x, s, rows),
           NEW r \in Requests, NEW y \in ReservationRow,
           SameAccount(rows[r], y), HoldOf(y) = HoldOf(rows[r])
    PROVE  Usage(x, s, [rows EXCEPT ![r] = y])
<1> DEFINE new == [rows EXCEPT ![r] = y]
<1>1. new[r] = y /\ \A p \in Requests \ {r} : new[p] = rows[p]
    OBVIOUS
<1> HIDE DEF new
<1>2. \A p \in Requests : SameAccount(rows[p], new[p]) /\ HoldOf(new[p]) = HoldOf(rows[p])
    BY <1>1 DEF SameAccount
<1>3. In(new, s) = In(rows, s) /\ In(rows, s) \in SUBSET Requests
    BY <1>2 DEF In, SameAccount
<1>4. InPeriod(new, s, x.version) = InPeriod(rows, s, x.version)
    BY <1>2, <1>3 DEF InPeriod, SameAccount
<1>5. HoldsOf(new) = HoldsOf(rows)
    BY <1>2 DEF HoldsOf
<1>6. \A p \in In(rows, s) : new[p].epoch = rows[p].epoch
    BY <1>2, <1>3 DEF SameAccount
<1>7. Usage(x, s, new)
    BY <1>3, <1>4, <1>5, <1>6 DEF Usage, PeriodSum, LifetimeSum, NoneAhead, SumOf
<1> QED BY <1>7 DEF new

\* A hold that moves takes the lifetime counter with it, and the period's
\* counter if it was taken in this period.
LEMMA UsageAfterMove ==
    ASSUME NEW rows \in [Requests -> ReservationRow], NEW s,
           NEW x \in SubscriptionRow, Usage(x, s, rows),
           NEW r \in In(rows, s), NEW y \in ReservationRow, SameAccount(rows[r], y),
           NEW delta \in Int, HoldOf(y) = HoldOf(rows[r]) + delta,
           NEW z \in SubscriptionRow, z.version = x.version,
           z.total = Larger(x.total, x.used) + delta,
           z.used = IF rows[r].epoch = x.version THEN x.used + delta ELSE x.used
    PROVE  Usage(z, s, [rows EXCEPT ![r] = y])
<1> DEFINE new == [rows EXCEPT ![r] = y]
           P == InPeriod(rows, s, x.version)
           A == In(rows, s)
<1>0. r \in Requests
    BY DEF In
<1>1. new[r] = y /\ \A p \in Requests \ {r} : new[p] = rows[p]
    BY <1>0
<1>2. new \in [Requests -> ReservationRow]
    OBVIOUS
<1> HIDE DEF new
<1>3. In(new, s) = A
    BY <1>1 DEF In, SameAccount
<1>4. InPeriod(new, s, z.version) = P /\ (r \in P <=> rows[r].epoch = x.version)
    BY <1>1, <1>3 DEF InPeriod, SameAccount, In
<1>5. P \in SUBSET A /\ A \in SUBSET Requests
    BY InType
<1>6. HoldOf(rows[r]) \in Int
    BY <1>0, HoldsType DEF HoldsOf
<1>7. HoldOf(y) - HoldOf(rows[r]) = delta
    BY <1>6
<1>8. /\ SumOf(new, A) = SumOf(rows, A) + delta
      /\ SumOf(new, P) = SumOf(rows, P) + (IF r \in P THEN delta ELSE 0)
    <2>1. Shifts(new, rows, A, r)
        BY <1>0, <1>1, <1>2, <1>5, SumOfReplaced
    <2>2. /\ r \in P => Shifts(new, rows, P, r)
          /\ r \notin P => SumOf(new, P) = SumOf(rows, P)
        <3>1. P \in SUBSET Requests
            BY <1>5
        <3> QED BY <1>0, <1>1, <1>2, <3>1, SumOfReplaced
    <2>3. SumOf(rows, P) \in Int
        BY <1>5, SumOfType
    <2> HIDE DEF P, A
    <2> QED BY <1>1, <1>7, <2>1, <2>2, <2>3 DEF Shifts
<1>9. SumOf(rows, A) \in Int /\ SumOf(rows, P) \in Int
    BY <1>5, SumOfType
<1>10. /\ x.used = (IF x.version = 0 THEN InitUsed ELSE 0) + SumOf(rows, P)
       /\ Larger(x.total, x.used) = InitUsed + SumOf(rows, A)
    BY DEF Usage, PeriodSum, LifetimeSum
<1>11. x.used \in Int /\ InitUsed \in Int
    BY SizeAssumption DEF SubscriptionRow
<1>12. NoneAhead(z, s, new)
    <2>1. \A p \in A : new[p].epoch = rows[p].epoch
        BY <1>1, <1>5 DEF SameAccount
    <2> QED BY <1>3, <2>1 DEF Usage, NoneAhead
<1> HIDE DEF P, A
<1>13. PeriodSum(z, s, new)
    BY <1>4, <1>8, <1>9, <1>10, <1>11 DEF PeriodSum
<1>14. z.total = InitUsed + SumOf(new, In(new, s))
    BY <1>3, <1>8, <1>9, <1>10, <1>11
<1>15. LifetimeSum(z, s, new)
    BY <1>2, <1>13, <1>14, LifetimeAbovePeriod
<1>16. Usage(z, s, new)
    BY <1>12, <1>13, <1>15 DEF Usage
<1> QED BY <1>16 DEF new

\* A first hold joins the running period.
LEMMA UsageAfterFirstHold ==
    ASSUME NEW rows \in [Requests -> ReservationRow], NEW s,
           NEW x \in SubscriptionRow, Usage(x, s, rows),
           NEW r \in Requests, r \notin In(rows, s), NEW y \in ReservationRow,
           y.funding = "subscription", y.subId = s, y.epoch = x.version,
           NEW z \in SubscriptionRow, z.version = x.version,
           z.total = Larger(x.total, x.used) + HoldOf(y), z.used = x.used + HoldOf(y)
    PROVE  Usage(z, s, [rows EXCEPT ![r] = y])
<1> DEFINE new == [rows EXCEPT ![r] = y]
           P == InPeriod(rows, s, x.version)
           A == In(rows, s)
<1>1. new[r] = y /\ \A p \in Requests \ {r} : new[p] = rows[p]
    OBVIOUS
<1>2. new \in [Requests -> ReservationRow]
    OBVIOUS
<1> HIDE DEF new
<1>3. In(new, s) = A \cup {r}
    BY <1>1 DEF In
<1>4. InPeriod(new, s, z.version) = P \cup {r}
    BY <1>1, <1>3 DEF InPeriod, In
<1>5. P \in SUBSET A /\ A \in SUBSET Requests /\ r \notin P /\ P \in SUBSET Requests
    BY InType
<1>6. HoldOf(y) \in Int
    BY <1>1, <1>2, HoldsType DEF HoldsOf
<1>7. SumOf(rows, A) \in Int /\ SumOf(rows, P) \in Int
    BY <1>5, SumOfType
<1>8. SumOf(new, A) = SumOf(rows, A) /\ SumOf(new, P) = SumOf(rows, P)
    BY <1>1, <1>2, <1>5, SumOfReplaced
<1>9. /\ SumOf(new, A \cup {r}) = SumOf(rows, A) + HoldOf(y)
      /\ SumOf(new, P \cup {r}) = SumOf(rows, P) + HoldOf(y)
    <2>1. Gains(new, A, r) /\ Gains(new, P, r)
        BY <1>2, <1>5, SumOfJoined
    <2> QED BY <1>1, <1>8, <2>1 DEF Gains
<1>10. /\ x.used = (IF x.version = 0 THEN InitUsed ELSE 0) + SumOf(rows, P)
       /\ Larger(x.total, x.used) = InitUsed + SumOf(rows, A)
    BY DEF Usage, PeriodSum, LifetimeSum
<1>11. x.used \in Int /\ InitUsed \in Int /\ x.version \in Nat
    BY SizeAssumption DEF SubscriptionRow
<1>12. NoneAhead(z, s, new)
    BY <1>1, <1>3, <1>11 DEF Usage, NoneAhead, In
<1> HIDE DEF P, A
<1>13. PeriodSum(z, s, new)
    BY <1>4, <1>6, <1>7, <1>9, <1>10, <1>11 DEF PeriodSum
<1>14. z.total = InitUsed + SumOf(new, In(new, s))
    BY <1>3, <1>6, <1>7, <1>9, <1>10, <1>11
<1>15. LifetimeSum(z, s, new)
    BY <1>2, <1>13, <1>14, LifetimeAbovePeriod
<1>16. Usage(z, s, new)
    BY <1>12, <1>13, <1>15 DEF Usage
<1> QED BY <1>16 DEF new

-----------------------------------------------------------------------------
(* The counters, step by step                                              *)

\* A reservation that moves leaves the counters of every subscription right.
LEMMA FollowsUsage ==
    ASSUME CoreInv, CoreInv', UsageInv, NEW r \in Requests, Follows(r)
    PROVE  UsageInv'
<1>1. PICK y, delta : Moves(r, y, delta) /\ FreezeFollows(r, y)
    BY DEF Follows
<1>2. /\ y \in ReservationRow /\ delta \in Int /\ resv' = [resv EXCEPT ![r] = y]
      /\ SameAccount(resv[r], y) /\ HoldOf(y) = HoldOf(resv[r]) + delta
    BY <1>1 DEF Moves
<1>3. /\ resv \in [Requests -> ReservationRow] /\ sub \in [Subs -> SubscriptionRow]
      /\ \A s \in Subs : sub'[s] \in SubscriptionRow
      /\ resv[r].status = "reserved" /\ resv'[r].status # "absent"
    <2>1. resv'[r].status # "absent"
        <3>1. resv'[r] = y
            BY <1>2 DEF CoreInv, TypeOK
        <3> QED BY <1>1, <3>1 DEF FreezeFollows
    <2> QED BY <2>1 DEF CoreInv, TypeOK, Follows
<1>4. \A s \in Subs : Usage(sub[s], s, resv)
    BY DEF UsageInv
<1>5. RowsPlaced'
    <2>1. resv'[r] = y /\ \A p \in Requests \ {r} : resv'[p] = resv[p]
        BY <1>2, <1>3
    <2> QED BY <1>2, <1>3, <2>1 DEF UsageInv, RowsPlaced, SameAccount
<1>6. ASSUME NEW s \in Subs PROVE Usage(sub'[s], s, resv')
    <2>1. CASE resv[r].funding = "subscription" /\ resv[r].subId = s
        <3>1. sub'[s] = SubscriptionAfter(r, delta)
            BY <1>1, <1>3, <2>1 DEF Moves
        <3>2. r \in In(resv, s)
            BY <2>1 DEF In
        <3>3. CASE delta = 0
            <4>1. sub'[s] = sub[s]
                BY <2>1, <3>1, <3>3 DEF SubscriptionAfter
            <4>2. HoldOf(resv[r]) \in Int
                BY <1>3, HoldsType DEF HoldsOf
            <4>3. HoldOf(y) = HoldOf(resv[r])
                BY <1>2, <3>3, <4>2
            <4> QED BY <1>2, <1>3, <1>4, <4>1, <4>3, UsageOfSameHold
        <3>4. CASE delta # 0
            <4> DEFINE z == SubscriptionAfter(r, delta)
            <4>1. /\ z.version = sub[s].version
                  /\ z.total = Larger(sub[s].total, sub[s].used) + delta
                  /\ z.used = IF resv[r].epoch = sub[s].version
                              THEN sub[s].used + delta ELSE sub[s].used
                BY <1>3, <2>1, <3>4 DEF SubscriptionAfter, SubscriptionRow, SamePeriod
            <4>2. z \in SubscriptionRow
                BY <1>3, <3>1
            <4> HIDE DEF z
            <4>3. Usage(z, s, [resv EXCEPT ![r] = y])
                BY <1>2, <1>3, <1>4, <3>2, <4>1, <4>2, UsageAfterMove
            <4> QED BY <1>2, <3>1, <4>3 DEF z
        <3> QED BY <3>3, <3>4
    <2>2. CASE ~(resv[r].funding = "subscription" /\ resv[r].subId = s)
        <3>1. sub'[s] = sub[s]
            BY <1>1, <1>3, <2>2 DEF Moves
        <3>2. ~(y.funding = "subscription" /\ y.subId = s)
            BY <1>2, <2>2 DEF SameAccount
        <3> QED BY <1>2, <1>3, <1>4, <2>2, <3>1, <3>2, UsageElsewhere
    <2> QED BY <2>1, <2>2
<1> QED BY <1>5, <1>6 DEF UsageInv

\* A first hold, after the resets it comes with, leaves them right.
LEMMA FirstHoldUsage ==
    ASSUME CoreInv, CoreInv', UsageInv, NEW r \in Requests, FirstHold(r)
    PROVE  UsageInv'
<1>1. PICK q \in 0..MaxInt : PreConsumeWallet(r, q) \/ PreConsumeSubscription(r, q)
    BY DEF FirstHold
<1>2. /\ resv \in [Requests -> ReservationRow] /\ sub \in [Subs -> SubscriptionRow]
      /\ \A s \in Subs : sub'[s] \in SubscriptionRow
    BY DEF CoreInv, TypeOK
<1>3. resv[r].status = "absent" /\ resv[r].funding = "wallet"
    BY <1>1 DEF PreConsumeWallet, PreConsumeSubscription, UsageInv, RowsPlaced
<1>4. \A s \in Subs : Usage(sub[s], s, resv) /\ r \notin In(resv, s)
    BY <1>3 DEF UsageInv, In
<1>5. CASE PreConsumeWallet(r, q)
    <2> DEFINE y == FreshRow(r, "wallet", q)
    <2>1. y \in ReservationRow /\ y.status = "reserved" /\ y.funding = "wallet"
        BY FreshRowFields DEF RowHolds
    <2>2. resv' = [resv EXCEPT ![r] = y] /\ sub' = sub
        BY <1>5 DEF PreConsumeWallet
    <2> HIDE DEF y
    <2>3. RowsPlaced'
        <3>1. resv'[r] = y /\ \A p \in Requests \ {r} : resv'[p] = resv[p]
            BY <1>2, <2>2
        <3> QED BY <2>1, <3>1 DEF UsageInv, RowsPlaced
    <2>4. \A s \in Subs : Usage(sub[s], s, [resv EXCEPT ![r] = y])
        BY <1>2, <1>3, <1>4, <2>1, UsageElsewhere
    <2> QED BY <2>2, <2>3, <2>4 DEF UsageInv
<1>6. CASE PreConsumeSubscription(r, q)
    <2>1. PICK s \in Subs :
            LET charged == ResetIfDue(sub[s]) IN
            /\ sub' = [p \in Subs |->
                 IF p = s
                 THEN [charged EXCEPT !.total = Larger(@, charged.used) + q, !.used = @ + q]
                 ELSE IF p \in ActiveSubs(UserOf[r]) /\ p < s
                      THEN ResetIfDue(sub[p]) ELSE sub[p]]
            /\ resv' = [resv EXCEPT ![r] = SubscriptionFreshRow(r, q, s, charged.version)]
        BY <1>6 DEF PreConsumeSubscription, Pick, ActiveSubs
    <2> DEFINE x == ResetIfDue(sub[s])
               epoch == x.version
               y == SubscriptionFreshRow(r, q, s, epoch)
               fresh == FreshRow(r, "subscription", q)
    <2>2. x \in SubscriptionRow /\ Usage(x, s, resv)
        BY <1>2, <1>4, ResetIfDueType, UsageAfterResetIfDue
    <2>3. sub'[s] = [x EXCEPT !.total = Larger(@, x.used) + q, !.used = @ + q]
        BY <2>1
    <2>4. \A p \in Subs \ {s} : sub'[p] = sub[p] \/ sub'[p] = ResetIfDue(sub[p])
        BY <2>1
    <2>5. resv' = [resv EXCEPT ![r] = y]
        BY <2>1
    <2> HIDE DEF x
    <2>6. /\ sub'[s].version = x.version /\ sub'[s].used = x.used + q
          /\ sub'[s].total = Larger(x.total, x.used) + q
        BY <2>2, <2>3 DEF SubscriptionRow
    <2>7. epoch \in Nat
        BY <2>2 DEF SubscriptionRow
    <2> HIDE DEF epoch
    <2>8. /\ y \in ReservationRow /\ y.status = "reserved" /\ y.reserved = q
          /\ y.funding = "subscription"
        BY <2>7, SubscriptionFreshRowFields DEF RowHolds
    <2>9. y.subId = s /\ y.epoch = epoch
        <3>1. fresh \in ReservationRow
            BY FreshRowFields DEF RowHolds
        <3>2. y = [fresh EXCEPT !.subId = s, !.epoch = epoch]
            BY DEF SubscriptionFreshRow
        <3> HIDE DEF fresh, y
        <3> QED BY <3>1, <3>2 DEF ReservationRow
    <2> HIDE DEF y
    <2>10. HoldOf(y) = q
        BY <2>8 DEF HoldOf
    <2>11. Usage(sub'[s], s, resv')
        <3>1. y.epoch = x.version
            BY <2>9 DEF epoch
        <3>2. /\ sub'[s].used = x.used + HoldOf(y)
              /\ sub'[s].total = Larger(x.total, x.used) + HoldOf(y)
            BY <2>6, <2>10
        <3>3. Usage(sub'[s], s, [resv EXCEPT ![r] = y])
            BY <1>2, <1>4, <2>2, <2>6, <2>8, <2>9, <3>1, <3>2, UsageAfterFirstHold
        <3> QED BY <2>5, <3>3
    <2>12. ASSUME NEW p \in Subs \ {s} PROVE Usage(sub'[p], p, resv')
        <3>1. Usage(sub'[p], p, resv)
            BY <1>2, <1>4, <2>4, UsageAfterResetIfDue
        <3>2. Usage(sub'[p], p, [resv EXCEPT ![r] = y])
            BY <1>2, <1>3, <2>8, <2>9, <3>1, UsageElsewhere
        <3> QED BY <2>5, <3>2
    <2>13. RowsPlaced'
        <3>1. resv'[r] = y /\ \A p \in Requests \ {r} : resv'[p] = resv[p]
            BY <1>2, <2>5
        <3> QED BY <2>8, <2>9, <3>1 DEF UsageInv, RowsPlaced
    <2> QED BY <2>11, <2>12, <2>13 DEF UsageInv
<1> QED BY <1>1, <1>5, <1>6

\* So do resets, ends and everything else that is not a reservation.
LEMMA AccountUsage ==
    ASSUME CoreInv, UsageInv, AccountStep
    PROVE  UsageInv'
<1>1. resv' = resv
    BY DEF AccountStep, IncreaseUserQuota, DecreaseUserQuota, OverrideUserQuota, AddPaymentDebt,
           ResolvePaymentDebt, ManageUserDisable, EnableUserIfNoPaymentFreeze, DeleteToken,
           PeriodElapses, ResetDueSubscription, AdminResetSubscription, EndSubscription,
           CleanupSubscriptionPreConsumeRecord
<1>2. resv \in [Requests -> ReservationRow] /\ sub \in [Subs -> SubscriptionRow]
    BY DEF CoreInv, TypeOK
<1>3. RowsPlaced' /\ \A s \in Subs : Usage(sub[s], s, resv)
    BY <1>1 DEF UsageInv, RowsPlaced
<1>4. ASSUME NEW s \in Subs, \A p \in Subs \ {s} : sub'[p] = sub[p], Usage(sub'[s], s, resv)
      PROVE  UsageInv'
    BY <1>1, <1>3, <1>4 DEF UsageInv
<1>5. CASE sub' = sub
    BY <1>1, <1>3, <1>5 DEF UsageInv
<1>6. ASSUME NEW s \in Subs, PeriodElapses(s) \/ EndSubscription(s) PROVE UsageInv'
    <2>1. /\ \A p \in Subs \ {s} : sub'[p] = sub[p]
          /\ sub'[s].used = sub[s].used /\ sub'[s].total = sub[s].total
          /\ sub'[s].version = sub[s].version
        BY <1>2, <1>6 DEF PeriodElapses, EndSubscription, SubscriptionRow
    <2>2. Usage(sub'[s], s, resv)
        BY <1>3, <2>1, UsageOfCounters
    <2> QED BY <1>4, <2>1, <2>2
<1>7. ASSUME NEW s \in Subs, ResetDueSubscription(s) PROVE UsageInv'
    <2>1. sub'[s] = ResetIfDue(sub[s]) /\ \A p \in Subs \ {s} : sub'[p] = sub[p]
        BY <1>2, <1>7 DEF ResetDueSubscription
    <2>2. Usage(sub'[s], s, resv)
        BY <1>2, <1>3, <2>1, UsageAfterResetIfDue
    <2> QED BY <1>4, <2>1, <2>2
<1>8. ASSUME NEW s \in Subs, NEW advance \in BOOLEAN, AdminResetSubscription(s, advance)
      PROVE  UsageInv'
    <2>1. /\ \A p \in Subs \ {s} : sub'[p] = sub[p]
          /\ sub'[s].used = 0 /\ sub'[s].total = Larger(sub[s].total, sub[s].used)
          /\ sub'[s].version = sub[s].version + 1
        BY <1>2, <1>8 DEF AdminResetSubscription, SubscriptionRow
    <2>2. Usage(sub'[s], s, resv)
        BY <1>2, <1>3, <2>1, UsageAfterReset
    <2> QED BY <1>4, <2>1, <2>2
<1>9. \/ sub' = sub
      \/ \E s \in Subs : PeriodElapses(s) \/ EndSubscription(s)
      \/ \E s \in Subs : ResetDueSubscription(s)
      \/ \E s \in Subs, advance \in BOOLEAN : AdminResetSubscription(s, advance)
    BY DEF AccountStep, IncreaseUserQuota, DecreaseUserQuota, OverrideUserQuota, AddPaymentDebt,
           ResolvePaymentDebt, ManageUserDisable, EnableUserIfNoPaymentFreeze, DeleteToken,
           CleanupSubscriptionPreConsumeRecord
<1> QED BY <1>5, <1>6, <1>7, <1>8, <1>9

\* Before the first reservation the counters are what the database started with.
LEMMA InitUsage == Init => UsageInv
<1> SUFFICES ASSUME Init PROVE UsageInv
    OBVIOUS
<1>1. \A r \in Requests : resv[r].funding = "wallet"
    BY DEF Init, AbsentRow
<1>2. resv \in [Requests -> ReservationRow]
    BY InitCore DEF CoreInv, TypeOK
<1>3. ASSUME NEW s \in Subs PROVE Usage(sub[s], s, resv)
    <2>1. sub[s].used = InitUsed /\ sub[s].total = 0 /\ sub[s].version = 0 /\ InitUsed \in Nat
        BY SizeAssumption DEF Init
    <2>2. In(resv, s) = {} /\ InPeriod(resv, s, sub[s].version) = {}
        BY <1>1 DEF In, InPeriod
    <2>3. SumOf(resv, {}) = 0
        BY <1>2, SumOfType
    <2> QED BY <2>1, <2>2, <2>3 DEF Usage, PeriodSum, LifetimeSum, NoneAhead, Larger
<1> QED BY <1>1, <1>3 DEF UsageInv, RowsPlaced

\* Every step leaves the counters right.
LEMMA StepUsage == CoreInv /\ CoreInv' /\ UsageInv /\ [Next]_vars => UsageInv'
<1> SUFFICES ASSUME CoreInv, CoreInv', UsageInv, [Next]_vars PROVE UsageInv'
    OBVIOUS
<1>1. ASSUME resv' = resv, sub' = sub PROVE UsageInv'
    BY <1>1 DEF UsageInv, RowsPlaced
<1>2. ASSUME NEW r \in Requests, RequestStep(r) \/ (r \in TaskRequests /\ TaskStep(r))
      PROVE  UsageInv'
    BY <1>1, <1>2, RequestFollows, FollowsUsage, FirstHoldUsage DEF Aside
<1>3. CASE AccountStep
    BY <1>3, AccountUsage
<1>4. CASE UNCHANGED vars
    BY <1>1, <1>4 DEF vars
<1>5. TaskRequests \subseteq Requests
    BY IdentityAssumption
<1> QED BY <1>2, <1>3, <1>4, <1>5 DEF Next

\* What the invariant says in the words of the properties.
LEMMA UsageMeaning == UsageInv => PeriodUsage /\ LifetimeUsage
<1> SUFFICES ASSUME UsageInv PROVE PeriodUsage /\ LifetimeUsage
    OBVIOUS
<1>1. HoldsOf(resv) = [r \in Requests |-> Held(r)]
    BY DEF HoldsOf, HoldOf, Held
<1>2. \A S : TotalHeld(S) = SumOf(resv, S)
    BY <1>1 DEF TotalHeld, SumOf
<1>3. \A s : HeldIn(s) = In(resv, s)
    BY DEF HeldIn, In
<1>4. \A s \in Subs : PeriodSum(sub[s], s, resv) /\ LifetimeSum(sub[s], s, resv)
    BY DEF UsageInv, Usage
<1>5. PeriodUsage
    BY <1>2, <1>3, <1>4 DEF PeriodUsage, PeriodSum, InPeriod
<1>6. LifetimeUsage
    BY <1>2, <1>3, <1>4 DEF LifetimeUsage, LifetimeSum
<1> QED BY <1>5, <1>6

\* Whatever resets come between reserve and settle or refund, the counter of the
\* running period is the sum of the holds taken in it.
THEOREM PeriodIsItsHolds == Spec => []PeriodUsage
BY InitUsage, StepUsage, UsageMeaning, CoreCorrect, PTL DEF Spec

\* And the lifetime counter, normalised, is the sum of all holds.
THEOREM LifetimeIsAllHolds == Spec => []LifetimeUsage
BY InitUsage, StepUsage, UsageMeaning, CoreCorrect, PTL DEF Spec

-----------------------------------------------------------------------------
(***************************************************************************)
(* IV.  The sessions                                                       *)
(***************************************************************************)

-----------------------------------------------------------------------------
(* What each transaction makes of its row, as far as a session can see     *)

\* r's row becomes y and every other row stays.
Becoming(r, y) == resv'[r] = y /\ \A p \in Requests \ {r} : resv'[p] = resv[p]

\* What a later step of a session reads of a row, apart from the hold.
SameTask(x, y) == y.status = x.status /\ y.bound = x.bound
SameIntent(x, y) == y.pending = x.pending /\ y.target = x.target

Opened(y, funding, q) ==
    y.status = "reserved" /\ ~y.bound /\ ~y.pending /\ y.reserved = q /\ y.funding = funding
Extended(x, y, q) ==
    x.status = "reserved" /\ SameTask(x, y) /\ SameIntent(x, y) /\ y.reserved = q
Intended(x, y, q) ==
    /\ x.status = "reserved" /\ SameTask(x, y) /\ y.reserved = x.reserved
    /\ y.pending /\ y.target = q
Charged(x, y, q) ==
    x.status = "reserved" /\ y.status = "settled" /\ y.settled = q /\ y.bound = x.bound /\ ~y.pending
GivenBack(x, y) ==
    x.status = "reserved" /\ y.status = "refunded" /\ y.bound = x.bound /\ ~y.pending
Marked(x, y) ==
    x.status = "reserved" /\ SameTask(x, y) /\ SameIntent(x, y) /\ y.reserved = x.reserved
Assigned(x, y) ==
    x.status = "reserved" /\ y.status = "reserved" /\ y.bound /\ SameIntent(x, y)

\* Replacing one row is the step in which only that row becomes another.
LEMMA RowBecomes ==
    ASSUME CoreInv, NEW r \in Requests, NEW y, resv' = [resv EXCEPT ![r] = y]
    PROVE  Becoming(r, y)
BY DEF CoreInv, TypeOK, Becoming

\* The adjusted row keeps task and intent.
LEMMA AdjustedShape ==
    ASSUME CoreInv, NEW r \in Requests, NEW q \in 0..MaxInt, resv[r].status = "reserved"
    PROVE  Extended(resv[r], AdjustedRow(r, q), q)
<1> DEFINE hold == TokenHold(r, q - resv[r].reserved)
           version == IF q - resv[r].reserved = 0 THEN resv[r].version ELSE resv[r].version + 1
           row == AdjustedRow(r, q)
<1>1. resv[r] \in ReservationRow
    BY RowTypes DEF CoreInv
<1>2. row = [resv[r] EXCEPT !.reserved = q, !.tokenReserved = hold, !.version = version]
    BY DEF AdjustedRow
<1> HIDE DEF hold, version, row
<1>3. /\ row.status = resv[r].status /\ row.bound = resv[r].bound /\ row.reserved = q
      /\ row.pending = resv[r].pending /\ row.target = resv[r].target
    BY <1>1, <1>2 DEF ReservationRow
<1> QED BY <1>3 DEF Extended, SameTask, SameIntent, row

\* The first hold is neither bound nor pending.
LEMMA PreConsumeShape ==
    ASSUME CoreInv, NEW r \in Requests, NEW q \in 0..MaxInt
    PROVE  /\ PreConsumeWallet(r, q) =>
                \E y : Becoming(r, y) /\ Opened(y, "wallet", q)
           /\ PreConsumeSubscription(r, q) =>
                \E y : Becoming(r, y) /\ Opened(y, "subscription", q)
<1> DEFINE hold == IF TokenOf[r] = NoToken THEN 0 ELSE q
<1>1. ASSUME NEW funding
      PROVE  FreshRow(r, funding, q) =
                [AbsentRow EXCEPT !.status = "reserved", !.funding = funding, !.initial = q,
                                  !.reserved = q, !.version = 1, !.tokenReserved = hold]
    BY DEF FreshRow
<1> HIDE DEF hold
<1>2. ASSUME NEW funding
      PROVE  Opened(FreshRow(r, funding, q), funding, q)
    <2> DEFINE row == FreshRow(r, funding, q)
    <2>1. AbsentRow \in ReservationRow /\ AbsentRow.bound = FALSE /\ AbsentRow.pending = FALSE
        BY AbsentRowType DEF AbsentRow
    <2>2. row = [AbsentRow EXCEPT !.status = "reserved", !.funding = funding, !.initial = q,
                                  !.reserved = q, !.version = 1, !.tokenReserved = hold]
        BY <1>1
    <2> HIDE DEF row
    <2>3. /\ row.status = "reserved" /\ row.bound = AbsentRow.bound
          /\ row.pending = AbsentRow.pending /\ row.reserved = q /\ row.funding = funding
        BY <2>1, <2>2 DEF ReservationRow
    <2> QED BY <2>1, <2>3 DEF Opened, row
<1>3. ASSUME NEW s, NEW epoch
      PROVE  Opened(SubscriptionFreshRow(r, q, s, epoch), "subscription", q)
    <2> DEFINE fresh == FreshRow(r, "subscription", q)
    <2>1. fresh \in ReservationRow
        BY FreshRowFields DEF RowHolds
    <2>2. Opened(fresh, "subscription", q)
        BY <1>2
    <2>3. SubscriptionFreshRow(r, q, s, epoch) = [fresh EXCEPT !.subId = s, !.epoch = epoch]
        BY DEF SubscriptionFreshRow
    <2> HIDE DEF fresh
    <2> QED BY <2>1, <2>2, <2>3 DEF Opened, ReservationRow
<1>4. ASSUME PreConsumeWallet(r, q)
      PROVE  \E y : Becoming(r, y) /\ Opened(y, "wallet", q)
    BY <1>2, <1>4, RowBecomes DEF PreConsumeWallet
<1>5. ASSUME PreConsumeSubscription(r, q)
      PROVE  \E y : Becoming(r, y) /\ Opened(y, "subscription", q)
    <2>1. PICK s \in Pick(UserOf[r], q) :
            resv' = [resv EXCEPT ![r] = SubscriptionFreshRow(r, q, s, ResetIfDue(sub[s]).version)]
        BY <1>5 DEF PreConsumeSubscription
    <2> QED BY <1>3, <2>1, RowBecomes
<1> QED BY <1>4, <1>5

\* An extension raises the hold and keeps task and intent.
LEMMA ExtendShape ==
    ASSUME CoreInv, NEW r \in Requests, NEW q \in 0..MaxInt, ExtendBillingReservation(r, q)
    PROVE  \E y : Becoming(r, y) /\ Extended(resv[r], y, q) /\ q > resv[r].reserved
<1>1. resv[r].status = "reserved" /\ q > resv[r].reserved
    <2>1. ExtendErr(r, q) = "ok" /\ q > resv[r].reserved
        BY DEF ExtendBillingReservation
    <2>2. ~(q <= resv[r].reserved)
        BY <2>1, RowTypes, SizeAssumption DEF CoreInv
    <2> QED BY <2>1, <2>2 DEF ExtendErr, AdjustErr
<1> QED BY <1>1, AdjustedShape, RowBecomes DEF ExtendBillingReservation

\* An intent puts its target on the row.
LEMMA IntentShape ==
    ASSUME CoreInv, NEW r \in Requests, NEW q \in 0..MaxInt, NEW mode,
           PersistSettlementIntent(r, q, mode)
    PROVE  \E y : Becoming(r, y) /\ Intended(resv[r], y, q)
<1> DEFINE version == resv[r].version + 1
           row == IntentRow(r, q)
<1>1. resv[r].status = "reserved" /\ resv' = [resv EXCEPT ![r] = row]
    BY DEF PersistSettlementIntent, IntentIsNew
<1>2. resv[r] \in ReservationRow
    BY RowTypes DEF CoreInv
<1>3. row = [resv[r] EXCEPT !.pending = TRUE, !.target = q, !.version = version]
    BY DEF IntentRow
<1> HIDE DEF version, row
<1>4. Intended(resv[r], row, q)
    BY <1>1, <1>2, <1>3 DEF ReservationRow, Intended, SameTask
<1> QED BY <1>1, <1>4, RowBecomes

\* So does a shortfall, if it is not on the row already.
LEMMA MarkShape ==
    ASSUME CoreInv, NEW r \in Requests, NEW q \in 0..MaxInt, NEW cause,
           MarkBillingReservationSettlementShortfall(r, q, cause)
    PROVE  \E y : Becoming(r, y) /\ Intended(resv[r], y, q)
<1> DEFINE version == resv[r].version + 1
           short == q - resv[r].reserved
           prev == PaymentFreezePreviousUserStatus(UserOf[r])
           row == ShortfallRow(r, q, cause)
<1>1. resv[r].status = "reserved"
    BY DEF MarkBillingReservationSettlementShortfall
<1>2. CASE SameShortfall(r, q, cause)
    <2>1. resv' = resv
        BY <1>2 DEF MarkBillingReservationSettlementShortfall
    <2>2. Becoming(r, resv[r])
        BY <2>1 DEF Becoming
    <2>3. Intended(resv[r], resv[r], q)
        BY <1>1, <1>2 DEF SameShortfall, Intended, SameTask
    <2> QED BY <2>2, <2>3
<1>3. CASE ~SameShortfall(r, q, cause)
    <2>1. resv' = [resv EXCEPT ![r] = row]
        BY <1>3 DEF MarkBillingReservationSettlementShortfall
    <2>2. resv[r] \in ReservationRow
        BY RowTypes DEF CoreInv
    <2>3. row = [resv[r] EXCEPT !.pending = TRUE, !.target = q, !.cause = cause,
                                !.shortfall = short, !.freeze = TRUE, !.reviewed = TRUE,
                                !.prevStatus = prev, !.version = version]
        BY DEF ShortfallRow
    <2> HIDE DEF version, short, prev, row
    <2>4. Intended(resv[r], row, q)
        BY <1>1, <2>2, <2>3 DEF ReservationRow, Intended, SameTask
    <2> QED BY <2>1, <2>4, RowBecomes
<1> QED BY <1>2, <1>3

\* A settled row is settled at the quota of the call.
LEMMA SettleShape ==
    ASSUME CoreInv, NEW r \in Requests, NEW q \in 0..MaxInt, SettleBalances(r, q),
           \/ resv' = [resv EXCEPT ![r] = SettledRow(r, q)]
           \/ resv' = [resv EXCEPT ![r] = Revised(SettledRow(r, q))]
    PROVE  \E y : Becoming(r, y) /\ Charged(resv[r], y, q)
<1> DEFINE adjusted == AdjustedRow(r, q)
           version == adjusted.version + 1
           row == SettledRow(r, q)
           later == row.version + 1
           revised == Revised(row)
<1>1. resv[r].status = "reserved"
    BY DEF SettleBalances
<1>2. adjusted \in ReservationRow /\ Extended(resv[r], adjusted, q)
    BY <1>1, AdjustedRowFields, AdjustedShape DEF RowHolds
<1>3. row \in ReservationRow
    BY <1>1, SettledRowFields DEF RowHolds
<1>4. row = [adjusted EXCEPT !.status = "settled", !.settled = q, !.pending = FALSE,
                             !.target = 0, !.version = version]
    BY DEF SettledRow
<1>5. revised = [row EXCEPT !.version = later]
    BY DEF Revised
<1> HIDE DEF adjusted, version, row, later, revised
<1>6. Charged(resv[r], row, q)
    BY <1>1, <1>2, <1>4 DEF ReservationRow, Charged, Extended, SameTask
<1>7. Charged(resv[r], revised, q)
    BY <1>3, <1>5, <1>6 DEF ReservationRow, Charged
<1>8. resv' = [resv EXCEPT ![r] = row] \/ resv' = [resv EXCEPT ![r] = revised]
    BY DEF row, revised
<1> QED BY <1>6, <1>7, <1>8, RowBecomes

\* A refunded row.
LEMMA RefundShape ==
    ASSUME CoreInv, NEW r \in Requests, RefundBalances(r),
           \/ resv' = [resv EXCEPT ![r] = RefundedRow(r)]
           \/ resv' = [resv EXCEPT ![r] = Revised(RefundedRow(r))]
    PROVE  \E y : Becoming(r, y) /\ GivenBack(resv[r], y)
<1> DEFINE version == resv[r].version + 1
           row == RefundedRow(r)
           later == row.version + 1
           revised == Revised(row)
<1>1. resv[r].status = "reserved"
    BY DEF RefundBalances
<1>2. resv[r] \in ReservationRow /\ row \in ReservationRow
    BY <1>1, RowTypes, RefundedRowFields DEF RowHolds, CoreInv
<1>3. row = [resv[r] EXCEPT !.status = "refunded", !.pending = FALSE, !.target = 0,
                            !.version = version]
    BY DEF RefundedRow
<1>4. revised = [row EXCEPT !.version = later]
    BY DEF Revised
<1> HIDE DEF version, row, later, revised
<1>5. GivenBack(resv[r], row)
    BY <1>1, <1>2, <1>3 DEF ReservationRow, GivenBack
<1>6. GivenBack(resv[r], revised)
    BY <1>2, <1>4, <1>5 DEF ReservationRow, GivenBack
<1>7. resv' = [resv EXCEPT ![r] = row] \/ resv' = [resv EXCEPT ![r] = revised]
    BY DEF row, revised
<1> QED BY <1>5, <1>6, <1>7, RowBecomes

\* A review only marks the row.
LEMMA ReviewShape ==
    ASSUME CoreInv, NEW r \in Requests, RecordBillingReconcileReview(r)
    PROVE  \E y : Becoming(r, y) /\ Marked(resv[r], y)
<1> DEFINE row == [resv[r] EXCEPT !.reviewed = TRUE]
<1>1. resv[r].status = "reserved" /\ resv' = [resv EXCEPT ![r] = row]
    BY DEF RecordBillingReconcileReview
<1>2. resv[r] \in ReservationRow
    BY RowTypes DEF CoreInv
<1>3. Marked(resv[r], row)
    BY <1>1, <1>2 DEF ReservationRow, Marked, SameTask, SameIntent
<1> HIDE DEF row
<1> QED BY <1>1, <1>3, RowBecomes

\* The row of a submitted task is bound to it.
LEMMA CreateTaskShape ==
    ASSUME CoreInv, NEW r \in Requests, NEW q \in 0..MaxInt, NEW done,
           CreateTaskWithBillingReservation(r, q, done)
    PROVE  \E y : Becoming(r, y) /\ Assigned(resv[r], y)
<1> DEFINE adjusted == AdjustedRow(r, q)
           bound == [adjusted EXCEPT !.bound = TRUE]
           version == bound.version + 1
           revised == Revised(bound)
<1>1. resv[r].status = "reserved"
    BY DEF CreateTaskWithBillingReservation, CreateTaskErr
<1>2. \/ resv[r].bound /\ resv' = [resv EXCEPT ![r] = adjusted]
      \/ ~resv[r].bound /\ resv' = [resv EXCEPT ![r] = revised]
    BY DEF CreateTaskWithBillingReservation
<1>3. adjusted \in ReservationRow /\ Extended(resv[r], adjusted, q)
    BY <1>1, AdjustedRowFields, AdjustedShape DEF RowHolds
<1> HIDE DEF adjusted
<1>4. bound \in ReservationRow /\ bound.bound /\ bound.status = adjusted.status /\ SameIntent(adjusted, bound)
    BY <1>3 DEF ReservationRow, SameIntent
<1>5. revised = [bound EXCEPT !.version = version]
    BY DEF Revised
<1> HIDE DEF bound, version, revised
<1>6. revised.bound /\ revised.status = bound.status /\ SameIntent(bound, revised)
    BY <1>4, <1>5 DEF ReservationRow, SameIntent
<1>7. resv[r].bound => Assigned(resv[r], adjusted)
    BY <1>1, <1>3 DEF Assigned, Extended, SameTask, SameIntent
<1>8. Assigned(resv[r], revised)
    BY <1>1, <1>3, <1>4, <1>6 DEF Assigned, Extended, SameTask, SameIntent
<1> QED BY <1>2, <1>7, <1>8, RowBecomes

\* One row changes as one of the transactions changes it.
RowStep(r, y) ==
    \/ \E q \in Amounts :
        \/ Opened(y, "wallet", q) \/ Opened(y, "subscription", q)
        \/ Extended(resv[r], y, q) \/ Intended(resv[r], y, q) \/ Charged(resv[r], y, q)
    \/ GivenBack(resv[r], y) \/ Marked(resv[r], y)
    \/ r \in TaskRequests /\ Assigned(resv[r], y)

\* Every transaction changes at most one row, and in one of these ways.
LEMMA StepShape ==
    ASSUME CoreInv, [Next]_vars
    PROVE  resv' = resv \/ \E r \in Requests : \E y : Becoming(r, y) /\ RowStep(r, y)
<1>1. Amounts \subseteq 0..MaxInt /\ TaskRequests \subseteq Requests
    BY SizeAssumption, IdentityAssumption
<1>2. ASSUME NEW r \in Requests, RequestStep(r)
      PROVE  \E y : Becoming(r, y) /\ RowStep(r, y)
    <2>1. ASSUME NEW q \in Amounts, PreConsumeWallet(r, q) \/ PreConsumeSubscription(r, q)
          PROVE  \E y : Becoming(r, y) /\ RowStep(r, y)
        BY <1>1, <2>1, PreConsumeShape DEF RowStep
    <2>2. ASSUME NEW q \in Amounts, ExtendBillingReservation(r, q)
          PROVE  \E y : Becoming(r, y) /\ RowStep(r, y)
        BY <1>1, <2>2, ExtendShape DEF RowStep
    <2>3. ASSUME NEW q \in Amounts,
                 \/ PrepareBillingReservationSettlement(r, q)
                 \/ AdvanceUnboundBillingReservationSettlementIntent(r, q)
          PROVE  \E y : Becoming(r, y) /\ RowStep(r, y)
        BY <1>1, <2>3, IntentShape
        DEF RowStep, PrepareBillingReservationSettlement,
            AdvanceUnboundBillingReservationSettlementIntent
    <2>4. ASSUME NEW q \in Amounts, NEW c \in FailureCodes,
                 MarkBillingReservationSettlementShortfall(r, q, c)
          PROVE  \E y : Becoming(r, y) /\ RowStep(r, y)
        BY <1>1, <2>4, MarkShape DEF RowStep
    <2>5. ASSUME NEW q \in Amounts,
                 SettleBillingReservation(r, q) \/ ResolveByAdminSettle(r, q, resv[r].version)
          PROVE  \E y : Becoming(r, y) /\ RowStep(r, y)
        BY <1>1, <2>5, SettleShape DEF RowStep, SettleBillingReservation, ResolveByAdminSettle
    <2>6. ASSUME RefundBillingReservation(r) \/ ResolveByAdminRefund(r, resv[r].version)
          PROVE  \E y : Becoming(r, y) /\ RowStep(r, y)
        BY <2>6, RefundShape DEF RowStep, RefundBillingReservation, ResolveByAdminRefund
    <2>7. ASSUME RecordBillingReconcileReview(r)
          PROVE  \E y : Becoming(r, y) /\ RowStep(r, y)
        BY <2>7, ReviewShape DEF RowStep
    <2> QED BY <1>2, <2>1, <2>2, <2>3, <2>4, <2>5, <2>6, <2>7 DEF RequestStep
<1>3. ASSUME NEW r \in TaskRequests, TaskStep(r)
      PROVE  resv' = resv \/ \E y : Becoming(r, y) /\ RowStep(r, y)
    <2>1. ASSUME NEW q \in Amounts, NEW done \in BOOLEAN,
                 CreateTaskWithBillingReservation(r, q, done)
          PROVE  \E y : Becoming(r, y) /\ RowStep(r, y)
        BY <1>1, <2>1, CreateTaskShape DEF RowStep
    <2>2. ASSUME NEW q \in Amounts, PrepareTaskBillingReservationSettlement(r, q)
          PROVE  \E y : Becoming(r, y) /\ RowStep(r, y)
        BY <1>1, <2>2, IntentShape DEF RowStep, PrepareTaskBillingReservationSettlement
    <2>3. ASSUME NEW q \in Amounts, SettleTaskBillingReservation(r, q)
          PROVE  \E y : Becoming(r, y) /\ RowStep(r, y)
        BY <1>1, <2>3, SettleShape DEF RowStep, SettleTaskBillingReservation
    <2>4. ASSUME RefundTaskBillingReservation(r)
          PROVE  \E y : Becoming(r, y) /\ RowStep(r, y)
        BY <1>1, <2>4, RefundShape DEF RowStep, RefundTaskBillingReservation
    <2>5. ASSUME NEW q \in Amounts, TaskSucceeds(r, q) \/ SettleTaskAgain(r, q)
          PROVE  resv' = resv
        BY <2>5 DEF TaskSucceeds, SettleTaskAgain
    <2>6. ASSUME TaskFails(r) PROVE resv' = resv
        BY <2>6 DEF TaskFails
    <2> QED BY <1>3, <2>1, <2>2, <2>3, <2>4, <2>5, <2>6 DEF TaskStep
<1>4. ASSUME AccountStep PROVE resv' = resv
    BY <1>4 DEF AccountStep, IncreaseUserQuota, DecreaseUserQuota, OverrideUserQuota,
        AddPaymentDebt, ResolvePaymentDebt, ManageUserDisable, EnableUserIfNoPaymentFreeze,
        DeleteToken, PeriodElapses, ResetDueSubscription, AdminResetSubscription,
        EndSubscription, CleanupSubscriptionPreConsumeRecord
<1>5. CASE UNCHANGED vars
    BY <1>5 DEF vars
<1> QED BY <1>1, <1>2, <1>3, <1>4, <1>5 DEF Next

-----------------------------------------------------------------------------
(* The targets on record were asked for, and only tasks are bound          *)

AskedRow(r, x) == (x.pending => x.target \in Amounts) /\ (x.bound => r \in TaskRequests)
AskedTask(t) ==
    /\ t.status # "none" => t.quota \in Amounts
    /\ t.intent # NoIntent => t.intent \in Amounts
AskedInv == \A r \in Requests : AskedRow(r, resv[r]) /\ AskedTask(task[r])

\* A task's row changes to one whose amounts were asked for.
LEMMA TaskAsked ==
    ASSUME CoreInv, NEW r \in Requests, AskedInv, [Next]_vars
    PROVE  AskedTask(task'[r])
<1>1. task \in [Requests -> TaskRow] /\ AskedTask(task[r]) /\ NoIntent \notin Amounts
    <2>1. Amounts \subseteq Nat
        BY SizeAssumption
    <2> QED BY <2>1 DEF CoreInv, TypeOK, AskedInv, NoIntent
<1>2. ASSUME NEW p \in Requests, NEW q \in Amounts, NEW done \in BOOLEAN,
             CreateTaskWithBillingReservation(p, q, done)
      PROVE  AskedTask(task'[r])
    <2>1. task' = task \/ task' = [task EXCEPT ![p] =
                       [status |-> IF done THEN "success" ELSE "active",
                        quota |-> q, intent |-> IF done THEN q ELSE NoIntent]]
        BY <1>2 DEF CreateTaskWithBillingReservation
    <2> QED BY <1>1, <2>1 DEF AskedTask
<1>3. ASSUME NEW p \in Requests, NEW q \in Amounts, TaskSucceeds(p, q)
      PROVE  AskedTask(task'[r])
    <2> DEFINE t == [task[p] EXCEPT !.status = "success", !.intent = q]
    <2>1. task[p].status = "active" /\ task' = [task EXCEPT ![p] = t]
        BY <1>3 DEF TaskSucceeds
    <2>2. task[p] \in TaskRow /\ AskedTask(task[p])
        BY <1>1 DEF AskedInv
    <2>3. AskedTask(t)
        BY <2>1, <2>2 DEF AskedTask, TaskRow
    <2> HIDE DEF t
    <2> QED BY <1>1, <2>1, <2>3
<1>4. ASSUME NEW p \in Requests, NEW q \in Amounts,
             SettleTaskBillingReservation(p, q) \/ SettleTaskAgain(p, q)
      PROVE  AskedTask(task'[r])
    <2> DEFINE t == [task[p] EXCEPT !.quota = q, !.intent = NoIntent]
    <2>1. task' = [task EXCEPT ![p] = t]
        BY <1>4 DEF SettleTaskBillingReservation, SettleTaskAgain
    <2>2. task[p] \in TaskRow
        BY <1>1
    <2>3. AskedTask(t)
        BY <2>2 DEF AskedTask, TaskRow
    <2> HIDE DEF t
    <2> QED BY <1>1, <2>1, <2>3
<1>5. ASSUME NEW p \in Requests, TaskFails(p) \/ RefundTaskBillingReservation(p)
      PROVE  AskedTask(task'[r])
    <2> DEFINE t == [task[p] EXCEPT !.status = "failure"]
               v == [task[p] EXCEPT !.intent = NoIntent]
    <2>1. \/ task[p].status = "active" /\ task' = [task EXCEPT ![p] = t]
          \/ task' = [task EXCEPT ![p] = v]
        BY <1>5 DEF TaskFails, RefundTaskBillingReservation
    <2>2. task[p] \in TaskRow /\ AskedTask(task[p])
        BY <1>1 DEF AskedInv
    <2>3. (task[p].status = "active" => AskedTask(t)) /\ AskedTask(v)
        BY <2>2 DEF AskedTask, TaskRow
    <2> HIDE DEF t, v
    <2> QED BY <1>1, <2>1, <2>3
<1>6. ASSUME NEW p \in Requests, RequestStep(p) PROVE task' = task
    BY <1>6 DEF RequestStep, PreConsumeWallet, PreConsumeSubscription, ExtendBillingReservation,
        PrepareBillingReservationSettlement, AdvanceUnboundBillingReservationSettlementIntent,
        PersistSettlementIntent, MarkBillingReservationSettlementShortfall,
        SettleBillingReservation, ResolveByAdminSettle, RefundBillingReservation,
        ResolveByAdminRefund, RecordBillingReconcileReview
<1>7. ASSUME NEW p \in TaskRequests, TaskStep(p) PROVE task' = task \/ AskedTask(task'[r])
    <2>1. p \in Requests
        BY IdentityAssumption
    <2>2. ASSUME NEW q \in Amounts, PrepareTaskBillingReservationSettlement(p, q)
          PROVE  task' = task
        BY <2>2 DEF PrepareTaskBillingReservationSettlement, PersistSettlementIntent
    <2> QED BY <1>2, <1>3, <1>4, <1>5, <1>7, <2>1, <2>2 DEF TaskStep
<1>8. ASSUME AccountStep PROVE task' = task
    BY <1>8 DEF AccountStep, IncreaseUserQuota, DecreaseUserQuota, OverrideUserQuota,
        AddPaymentDebt, ResolvePaymentDebt, ManageUserDisable, EnableUserIfNoPaymentFreeze,
        DeleteToken, PeriodElapses, ResetDueSubscription, AdminResetSubscription,
        EndSubscription, CleanupSubscriptionPreConsumeRecord
<1>9. CASE UNCHANGED vars
    BY <1>1, <1>9 DEF vars
<1> QED BY <1>1, <1>6, <1>7, <1>8, <1>9 DEF Next

\* So do the reservations.
LEMMA StepAsked == CoreInv /\ AskedInv /\ [Next]_vars => AskedInv'
<1> SUFFICES ASSUME CoreInv, AskedInv, [Next]_vars, NEW p \in Requests
             PROVE  AskedRow(p, resv'[p]) /\ AskedTask(task'[p])
    BY DEF AskedInv, AskedRow, AskedTask
<1>1. AskedTask(task'[p])
    BY TaskAsked
<1>2. AskedRow(p, resv[p])
    BY DEF AskedInv
<1>3. ASSUME NEW r \in Requests, NEW y, Becoming(r, y), RowStep(r, y)
      PROVE  AskedRow(p, resv'[p])
    <2>1. AskedRow(r, resv[r])
        BY DEF AskedInv
    <2>2. AskedRow(r, y)
        BY <1>3, <2>1
        DEF AskedRow, RowStep, Opened, Extended, Intended, Charged, GivenBack, Marked, Assigned,
            SameTask, SameIntent
    <2> QED BY <1>2, <1>3, <2>2 DEF Becoming
<1> QED BY <1>1, <1>2, <1>3, StepShape

\* Initially nothing is on record.
LEMMA InitAsked == Init => AskedInv
<1> SUFFICES ASSUME Init, NEW r \in Requests PROVE AskedRow(r, resv[r]) /\ AskedTask(task[r])
    BY DEF AskedInv
<1>1. resv[r] = AbsentRow /\ task[r] = [status |-> "none", quota |-> 0, intent |-> NoIntent]
    BY DEF Init
<1>2. AbsentRow.pending = FALSE /\ AbsentRow.bound = FALSE
    BY DEF AbsentRow
<1> QED BY <1>1, <1>2 DEF AskedRow, AskedTask

-----------------------------------------------------------------------------
(* Subscriptions do not come back, and none is used beyond its quota       *)

InCap(s, x) == SubCap[s] = 0 \/ x.used <= SubCap[s]
WithinCap == \A s \in Subs : InCap(s, sub[s])

\* y is what a transaction may leave of the subscription s with row x.
Ages(s, x, y) == (y.active => x.active) /\ (InCap(s, x) => InCap(s, y))

\* A reset ends no quota and starts no subscription.
LEMMA ResetAges ==
    ASSUME NEW s \in Subs, NEW x \in SubscriptionRow
    PROVE  Ages(s, x, ResetIfDue(x))
<1>1. SubCap[s] \in Nat
    BY IdentityAssumption
<1>2. CASE x.due
    <2> DEFINE total == Larger(x.total, x.used)
               version == x.version + 1
    <2>1. ResetIfDue(x) = [x EXCEPT !.total = total, !.used = 0, !.version = version,
                                    !.due = FALSE]
        BY <1>2 DEF ResetIfDue
    <2> HIDE DEF total, version
    <2>2. ResetIfDue(x).used = 0 /\ ResetIfDue(x).active = x.active
        BY <2>1 DEF SubscriptionRow
    <2> QED BY <1>1, <2>2 DEF Ages, InCap
<1>3. CASE ~x.due
    BY <1>3 DEF ResetIfDue, Ages
<1> QED BY <1>2, <1>3

\* The guard of applySubscriptionUsageDeltaTx compares with the quota.
LEMMA MoveAges ==
    ASSUME CoreInv, RowsPlaced, NEW r \in Requests, NEW delta \in Int, NEW tokenDelta,
           FundingOk(r, delta), MoveBalances(r, delta, tokenDelta), NEW s \in Subs
    PROVE  Ages(s, sub[s], sub'[s])
<1>1. CASE resv[r].funding = "subscription"
    <2> DEFINE k == resv[r].subId
               x == sub[k]
               y == SubscriptionAfter(r, delta)
               total == Larger(x.total, x.used) + delta
               used == IF SamePeriod(r) THEN x.used + delta ELSE x.used
    <2>1. /\ k \in Subs /\ sub' = [sub EXCEPT ![k] = y]
          /\ delta = 0 \/ SubscriptionErr(r, delta) = "ok"
        BY <1>1 DEF RowsPlaced, MoveBalances, FundingOk
    <2>2. /\ sub \in [Subs -> SubscriptionRow] /\ x \in SubscriptionRow /\ x.used \in Nat
          /\ SubCap[k] \in Nat
        BY <2>1, IdentityAssumption DEF CoreInv, TypeOK, SubscriptionRow
    <2>3. Ages(k, x, y)
        <3>1. CASE delta = 0
            BY <3>1 DEF SubscriptionAfter, Ages
        <3>2. CASE delta # 0
            <4>1. y = [x EXCEPT !.total = total, !.used = used]
                BY <3>2 DEF SubscriptionAfter
            <4>2. SamePeriod(r) => ~(SubCap[k] > 0 /\ x.used + delta > SubCap[k])
                BY <2>1, <3>2 DEF SubscriptionErr
            <4>3. InCap(k, x) => SubCap[k] = 0 \/ used <= SubCap[k]
                BY <2>2, <4>2 DEF InCap
            <4> HIDE DEF x, y, total, used
            <4>4. y.active = x.active /\ y.used = used
                BY <2>2, <4>1 DEF SubscriptionRow
            <4> QED BY <4>3, <4>4 DEF Ages, InCap
        <3> QED BY <3>1, <3>2
    <2> HIDE DEF y
    <2>4. s = k => sub'[s] = y
        BY <2>1, <2>2
    <2>5. s # k => sub'[s] = sub[s]
        BY <2>1, <2>2
    <2> QED BY <2>3, <2>4, <2>5 DEF Ages
<1>2. CASE resv[r].funding # "subscription"
    BY <1>2 DEF MoveBalances, Ages
<1> QED BY <1>1, <1>2

\* PreConsumeUserSubscription picks a subscription with room.
LEMMA FirstHoldAges ==
    ASSUME CoreInv, NEW r \in Requests, NEW q \in 0..MaxInt, PreConsumeSubscription(r, q),
           NEW p \in Subs
    PROVE  Ages(p, sub[p], sub'[p])
<1>1. PICK s \in Pick(UserOf[r], q) :
        LET charged == ResetIfDue(sub[s]) IN
        sub' = [t \in Subs |->
             IF t = s
             THEN [charged EXCEPT !.total = Larger(@, charged.used) + q, !.used = @ + q]
             ELSE IF t \in ActiveSubs(UserOf[r]) /\ t < s
                  THEN ResetIfDue(sub[t]) ELSE sub[t]]
    BY DEF PreConsumeSubscription
<1> DEFINE charged == ResetIfDue(sub[s])
           total == Larger(charged.total, charged.used) + q
           used == charged.used + q
           y == [charged EXCEPT !.total = total, !.used = used]
<1>2. s \in Subs /\ (SubCap[s] = 0 \/ SubCap[s] - charged.used >= q)
    BY DEF Pick, ActiveSubs, HasRoom
<1>3. /\ sub[s] \in SubscriptionRow /\ charged \in SubscriptionRow /\ charged.used \in Nat
      /\ sub[p] \in SubscriptionRow /\ SubCap[s] \in Nat /\ q \in Nat
    BY <1>2, ResetIfDueType, IdentityAssumption, SizeAssumption DEF CoreInv, TypeOK, SubscriptionRow
<1>4. Ages(s, sub[s], charged)
    BY <1>2, <1>3, ResetAges
<1>5. SubCap[s] = 0 \/ used <= SubCap[s]
    BY <1>2, <1>3
<1>6. sub' = [t \in Subs |-> IF t = s THEN y
                ELSE IF t \in ActiveSubs(UserOf[r]) /\ t < s THEN ResetIfDue(sub[t]) ELSE sub[t]]
    BY <1>1
<1> HIDE DEF charged, total, used
<1>7. y.active = charged.active /\ y.used = used
    BY <1>3 DEF SubscriptionRow
<1>8. Ages(s, sub[s], y)
    BY <1>4, <1>5, <1>7 DEF Ages, InCap
<1> HIDE DEF y
<1>9. (sub'[p] = y /\ p = s) \/ sub'[p] = ResetIfDue(sub[p]) \/ sub'[p] = sub[p]
    BY <1>6
<1>10. Ages(p, sub[p], ResetIfDue(sub[p]))
    BY <1>3, ResetAges
<1> QED BY <1>8, <1>9, <1>10 DEF Ages

\* Every other transaction leaves the subscriptions alone, resets or ends one.
LEMMA AccountAges ==
    ASSUME CoreInv, AccountStep, NEW p \in Subs
    PROVE  Ages(p, sub[p], sub'[p])
<1>1. sub \in [Subs -> SubscriptionRow]
    BY DEF CoreInv, TypeOK
<1>2. ASSUME NEW s \in Subs, NEW advance \in BOOLEAN,
             \/ PeriodElapses(s) \/ ResetDueSubscription(s)
             \/ AdminResetSubscription(s, advance) \/ EndSubscription(s)
      PROVE  Ages(p, sub[p], sub'[p])
    <2> DEFINE x == sub[s]
               total == Larger(x.total, x.used)
               version == x.version + 1
               due == x.due /\ ~advance
               reset == [x EXCEPT !.total = total, !.used = 0, !.version = version, !.due = due]
    <2>1. x \in SubscriptionRow /\ SubCap[s] \in Nat
        BY <1>1, IdentityAssumption
    <2>2. Ages(s, x, ResetIfDue(x))
        BY <2>1, ResetAges
    <2>3. Ages(s, x, [x EXCEPT !.due = TRUE]) /\ Ages(s, x, [x EXCEPT !.active = FALSE])
        <3> HIDE DEF x
        <3> QED BY <2>1 DEF SubscriptionRow, Ages, InCap
    <2>4. Ages(s, x, reset)
        <3> HIDE DEF x, total, version, due
        <3>1. reset.used = 0 /\ reset.active = x.active
            BY <2>1 DEF SubscriptionRow
        <3> QED BY <2>1, <3>1 DEF Ages, InCap
    <2>5. \E y : Ages(s, x, y) /\ sub' = [sub EXCEPT ![s] = y]
        <3>1. CASE PeriodElapses(s)
            BY <2>3, <3>1 DEF PeriodElapses
        <3>2. CASE ResetDueSubscription(s)
            BY <2>2, <3>2 DEF ResetDueSubscription
        <3>3. CASE AdminResetSubscription(s, advance)
            BY <2>4, <3>3 DEF AdminResetSubscription
        <3>4. CASE EndSubscription(s)
            BY <2>3, <3>4 DEF EndSubscription
        <3> QED BY <1>2, <3>1, <3>2, <3>3, <3>4
    <2>6. sub'[p] = sub[p] \/ (p = s /\ Ages(s, sub[s], sub'[s]))
        BY <1>1, <2>5
    <2> QED BY <2>6 DEF Ages
<1>3. CASE sub' = sub
    BY <1>3 DEF Ages
<1>4. ASSUME NEW u \in Users, NEW q \in ManualAmounts,
             \/ IncreaseUserQuota(u, q) \/ DecreaseUserQuota(u, q) \/ OverrideUserQuota(u, q)
      PROVE  sub' = sub
    BY <1>4 DEF IncreaseUserQuota, DecreaseUserQuota, OverrideUserQuota
<1>5. ASSUME NEW u \in Users,
             \/ AddPaymentDebt(u) \/ ResolvePaymentDebt(u)
             \/ ManageUserDisable(u) \/ EnableUserIfNoPaymentFreeze(u)
      PROVE  sub' = sub
    BY <1>5 DEF AddPaymentDebt, ResolvePaymentDebt, ManageUserDisable, EnableUserIfNoPaymentFreeze
<1>6. ASSUME NEW t \in Tokens, DeleteToken(t) PROVE sub' = sub
    BY <1>6 DEF DeleteToken
<1>7. ASSUME NEW r \in Requests, CleanupSubscriptionPreConsumeRecord(r) PROVE sub' = sub
    BY <1>7 DEF CleanupSubscriptionPreConsumeRecord
<1> QED BY <1>2, <1>3, <1>4, <1>5, <1>6, <1>7 DEF AccountStep

\* Transactions that move a hold.
LEMMA HoldAges ==
    ASSUME CoreInv, RowsPlaced, NEW r \in Requests, NEW q \in 0..MaxInt, NEW done, NEW p \in Subs,
           \/ ExtendBillingReservation(r, q) \/ SettleBalances(r, q) \/ RefundBalances(r)
           \/ CreateTaskWithBillingReservation(r, q, done)
    PROVE  Ages(p, sub[p], sub'[p])
<1>1. ASSUME ExtendBillingReservation(r, q)
      PROVE  MoveHold(r, q) /\ AdjustErr(r, q, "reserve", FALSE) = "ok"
    <2>1. ExtendErr(r, q) = "ok" /\ q > resv[r].reserved /\ MoveHold(r, q)
        BY <1>1 DEF ExtendBillingReservation
    <2>2. ~(q <= resv[r].reserved)
        BY <2>1, RowTypes, SizeAssumption DEF CoreInv
    <2> QED BY <2>1, <2>2 DEF ExtendErr
<1>2. ASSUME CreateTaskWithBillingReservation(r, q, done)
      PROVE  MoveHold(r, q) /\ AdjustErr(r, q, "reserve", FALSE) = "ok"
    BY <1>2 DEF CreateTaskWithBillingReservation, CreateTaskErr
<1>3. CASE ExtendBillingReservation(r, q) \/ CreateTaskWithBillingReservation(r, q, done)
    <2>1. /\ q - resv[r].reserved \in Int /\ FundingOk(r, q - resv[r].reserved)
          /\ MoveBalances(r, q - resv[r].reserved, q - resv[r].reserved)
        BY <1>1, <1>2, <1>3, AdjustOk DEF CoreInv, MoveHold
    <2> QED BY <2>1, MoveAges
<1>4. CASE SettleBalances(r, q)
    <2>1. /\ q - resv[r].reserved \in Int /\ FundingOk(r, q - resv[r].reserved)
          /\ MoveBalances(r, q - resv[r].reserved, q - resv[r].reserved)
        BY <1>4, SettleOk DEF CoreInv, MoveHold, SettleBalances
    <2> QED BY <2>1, MoveAges
<1>5. CASE RefundBalances(r)
    <2>1. /\ -resv[r].reserved \in Int /\ FundingOk(r, -resv[r].reserved)
          /\ MoveBalances(r, -resv[r].reserved, -resv[r].tokenReserved)
        BY <1>5, RefundOk DEF CoreInv, RefundBalances
    <2> QED BY <2>1, MoveAges
<1> QED BY <1>3, <1>4, <1>5

\* No step starts a subscription or takes one beyond its quota.
LEMMA StepAges ==
    ASSUME CoreInv, RowsPlaced, [Next]_vars, NEW p \in Subs
    PROVE  Ages(p, sub[p], sub'[p])
<1>1. Amounts \subseteq 0..MaxInt /\ TaskRequests \subseteq Requests /\ 0 \in 0..MaxInt
    BY SizeAssumption, IdentityAssumption
<1>2. CASE sub' = sub
    BY <1>2 DEF Ages
<1>3. ASSUME NEW r \in Requests, RequestStep(r) PROVE sub' = sub \/ Ages(p, sub[p], sub'[p])
    <2>1. ASSUME NEW q \in Amounts, PreConsumeSubscription(r, q)
          PROVE  Ages(p, sub[p], sub'[p])
        BY <1>1, <2>1, FirstHoldAges
    <2>2. ASSUME NEW q \in Amounts, ExtendBillingReservation(r, q) PROVE Ages(p, sub[p], sub'[p])
        BY <1>1, <2>2, HoldAges
    <2>3. ASSUME NEW q \in Amounts,
                 SettleBillingReservation(r, q) \/ ResolveByAdminSettle(r, q, resv[r].version)
          PROVE  Ages(p, sub[p], sub'[p])
        BY <1>1, <2>3, HoldAges DEF SettleBillingReservation, ResolveByAdminSettle
    <2>4. ASSUME RefundBillingReservation(r) \/ ResolveByAdminRefund(r, resv[r].version)
          PROVE  Ages(p, sub[p], sub'[p])
        BY <1>1, <2>4, HoldAges DEF RefundBillingReservation, ResolveByAdminRefund
    <2>5. ASSUME NEW q \in Amounts, NEW c \in FailureCodes,
                 MarkBillingReservationSettlementShortfall(r, q, c)
          PROVE  sub' = sub
        BY <2>5 DEF MarkBillingReservationSettlementShortfall
    <2>6. ASSUME NEW q \in Amounts,
                 \/ PreConsumeWallet(r, q)
                 \/ PrepareBillingReservationSettlement(r, q)
                 \/ AdvanceUnboundBillingReservationSettlementIntent(r, q)
          PROVE  sub' = sub
        BY <2>6 DEF PreConsumeWallet, PrepareBillingReservationSettlement,
            AdvanceUnboundBillingReservationSettlementIntent, PersistSettlementIntent
    <2>7. ASSUME RecordBillingReconcileReview(r) PROVE sub' = sub
        BY <2>7 DEF RecordBillingReconcileReview
    <2> QED BY <1>3, <2>1, <2>2, <2>3, <2>4, <2>5, <2>6, <2>7 DEF RequestStep
<1>4. ASSUME NEW r \in TaskRequests, TaskStep(r) PROVE sub' = sub \/ Ages(p, sub[p], sub'[p])
    <2>1. ASSUME NEW q \in Amounts, NEW done \in BOOLEAN,
                 CreateTaskWithBillingReservation(r, q, done)
          PROVE  Ages(p, sub[p], sub'[p])
        BY <1>1, <2>1, HoldAges
    <2>2. ASSUME NEW q \in Amounts, SettleTaskBillingReservation(r, q)
          PROVE  Ages(p, sub[p], sub'[p])
        BY <1>1, <2>2, HoldAges DEF SettleTaskBillingReservation
    <2>3. ASSUME RefundTaskBillingReservation(r) PROVE Ages(p, sub[p], sub'[p])
        BY <1>1, <2>3, HoldAges DEF RefundTaskBillingReservation
    <2>4. ASSUME NEW q \in Amounts,
                 \/ TaskSucceeds(r, q) \/ PrepareTaskBillingReservationSettlement(r, q)
                 \/ SettleTaskAgain(r, q)
          PROVE  sub' = sub
        BY <2>4 DEF TaskSucceeds, PrepareTaskBillingReservationSettlement,
            PersistSettlementIntent, SettleTaskAgain
    <2>5. ASSUME TaskFails(r) PROVE sub' = sub
        BY <2>5 DEF TaskFails
    <2> QED BY <1>4, <2>1, <2>2, <2>3, <2>4, <2>5 DEF TaskStep
<1>5. CASE UNCHANGED vars
    BY <1>2, <1>5 DEF vars
<1> QED BY <1>1, <1>2, <1>3, <1>4, <1>5, AccountAges DEF Next

\* Everything the sessions need to know of the reservations.
RowsInv == LedgerInv /\ UsageInv /\ AskedInv /\ WithinCap

\* It holds initially.
LEMMA InitRows == Init => RowsInv
<1> SUFFICES ASSUME Init PROVE WithinCap
    BY InitLedger, InitUsage, InitAsked DEF RowsInv
<1>1. \A s \in Subs : sub[s].used = InitUsed
    BY DEF Init
<1> QED BY <1>1, IdentityAssumption DEF WithinCap, InCap

\* And every transaction preserves it.
LEMMA StepRows == RowsInv /\ [Next]_vars => RowsInv'
<1> SUFFICES ASSUME RowsInv, [Next]_vars PROVE RowsInv'
    OBVIOUS
<1>1. LedgerInv' /\ CoreInv /\ CoreInv'
    BY StepLedger, StepCore DEF RowsInv, LedgerInv
<1>2. UsageInv' /\ AskedInv'
    BY <1>1, StepUsage, StepAsked DEF RowsInv
<1>3. WithinCap'
    <2> SUFFICES ASSUME NEW s \in Subs PROVE InCap(s, sub'[s])
        BY DEF WithinCap, InCap
    <2>1. RowsPlaced /\ InCap(s, sub[s])
        BY DEF RowsInv, UsageInv, WithinCap
    <2> QED BY <1>1, <2>1, StepAges DEF Ages
<1> QED BY <1>1, <1>2, <1>3 DEF RowsInv

\* A sum of holds is not below any of them.
LEMMA HoldInSum ==
    ASSUME NEW rows \in [Requests -> ReservationRow], NEW S \in SUBSET Requests, NEW r \in S
    PROVE  SumOf(rows, S) \in Int /\ HoldOf(rows[r]) <= SumOf(rows, S)
<1> DEFINE rest == S \ {r}
<1>1. rest \in SUBSET Requests /\ r \notin rest /\ r \in Requests /\ rest \cup {r} = S
    OBVIOUS
<1>2. Gains(rows, rest, r)
    BY <1>1, SumOfJoined
<1>3. {} \in SUBSET rest /\ rest \in SUBSET rest /\ S \in SUBSET S
    OBVIOUS
<1>4. SumOf(rows, {}) = 0 /\ SumOf(rows, {}) <= SumOf(rows, rest) /\ SumOf(rows, rest) \in Int
    BY <1>1, <1>3, SumOfType
<1>5. SumOf(rows, S) \in Int
    BY <1>3, SumOfType
<1>6. SumOf(rows, S) = SumOf(rows, rest) + HoldOf(rows[r])
    BY <1>1, <1>2 DEF Gains
<1>7. HoldOf(rows[r]) \in Nat
    BY <1>1, HoldsType DEF HoldsOf
<1> HIDE DEF rest
<1> QED BY <1>4, <1>5, <1>6, <1>7

\* The counters of a subscription are not below what an open reservation holds
\* of it, so giving the hold back fails neither check.
LEMMA RefundFits ==
    ASSUME RowsInv, NEW r \in Requests, resv[r].status = "reserved",
           resv[r].funding = "subscription"
    PROVE  SubscriptionErr(r, -resv[r].reserved) = "ok"
<1> DEFINE s == resv[r].subId
           x == sub[s]
           all == SumOf(resv, In(resv, s))
           period == SumOf(resv, InPeriod(resv, s, x.version))
           held == resv[r].reserved
<1>1. /\ resv \in [Requests -> ReservationRow] /\ s \in Subs /\ held \in Nat
      /\ HoldOf(resv[r]) = held /\ x \in SubscriptionRow
    BY RowTypes, SizeAssumption
    DEF RowsInv, LedgerInv, CoreInv, TypeOK, UsageInv, RowsPlaced, HoldOf
<1>2. x.used \in Nat /\ x.total \in Nat /\ InitUsed \in Nat /\ SubCap[s] \in Nat
    BY <1>1, SizeAssumption, IdentityAssumption DEF SubscriptionRow
<1>3. all \in Int /\ held <= all
    <2>1. r \in In(resv, s) /\ In(resv, s) \in SUBSET Requests
        BY DEF In
    <2> QED BY <1>1, <2>1, HoldInSum
<1>4. SamePeriod(r) => period \in Int /\ held <= period
    <2> SUFFICES ASSUME SamePeriod(r) PROVE period \in Int /\ held <= period
        OBVIOUS
    <2>1. r \in InPeriod(resv, s, x.version) /\ InPeriod(resv, s, x.version) \in SUBSET Requests
        BY DEF In, InPeriod, SamePeriod
    <2> QED BY <1>1, <2>1, HoldInSum
<1>5. /\ x.used = (IF x.version = 0 THEN InitUsed ELSE 0) + period
      /\ Larger(x.total, x.used) = InitUsed + all
    BY <1>1 DEF RowsInv, UsageInv, Usage, PeriodSum, LifetimeSum
<1>6. SubCap[s] = 0 \/ x.used <= SubCap[s]
    BY <1>1 DEF RowsInv, WithinCap, InCap
<1>7. Larger(x.total, x.used) + (-held) >= 0
    BY <1>1, <1>2, <1>3, <1>5
<1>8. SamePeriod(r) => x.used + (-held) >= 0
    BY <1>1, <1>2, <1>4, <1>5
<1>9. ~(SubCap[s] > 0 /\ x.used + (-held) > SubCap[s])
    BY <1>1, <1>2, <1>6
<1>10. Larger(x.total, x.used) \in Int /\ x.used + (-held) \in Int
    BY <1>1, <1>2 DEF Larger
<1>11. /\ ~(Larger(x.total, x.used) + (-held) < 0)
       /\ SamePeriod(r) => ~(x.used + (-held) < 0)
    BY <1>1, <1>7, <1>8, <1>10
<1> QED BY <1>9, <1>11 DEF SubscriptionErr

\* RefundBillingReservation of an open row can be refused for one reason only:
\* the wallet or the token would overflow.
LEMMA RefundRefused ==
    ASSUME RowsInv, NEW r \in Requests, resv[r].status = "reserved"
    PROVE  RefundErr(r) \in {"ok", "overflow"}
<1> DEFINE x == resv[r]
<1>1. x.reserved \in 0..MaxInt /\ x.tokenReserved \in 0..MaxInt
    BY RowTypes DEF RowsInv, LedgerInv, CoreInv
<1>2. UserErr(UserOf[r], -x.reserved) \in {"ok", "overflow"}
    BY <1>1, SizeAssumption DEF UserErr
<1>3. x.funding = "subscription" => PreConsumeRecordErr(r, 0) = "ok"
    <2>1. x.funding = "subscription" => pre[r].status = "consumed" /\ pre[r].amount = x.reserved
        <3>1. x.funding = "subscription" =>
                pre[r] = [status |-> "consumed", amount |-> x.reserved]
            BY DEF RowsInv, LedgerInv, CoreInv, RecordMirrorsReservation
        <3> HIDE DEF x
        <3> QED BY <3>1
    <2>2. x.reserved + 0 >= 0
        BY <1>1, SizeAssumption
    <2> QED BY <2>1, <2>2 DEF PreConsumeRecordErr
<1>4. x.tokenReserved # 0 => ReservationTokenErr(r, -x.tokenReserved, TRUE) \in {"ok", "overflow"}
    BY <1>1, SizeAssumption DEF ReservationTokenErr, TokenErr
<1>5. LedgerErr(r, "refund", x.version + 1) = "ok"
    <2>1. x.version \in Nat
        BY RowTypes DEF RowsInv, LedgerInv, CoreInv
    <2>2. <<r, "refund", x.version + 1>> \notin keys
        BY <2>1 DEF RowsInv, LedgerInv, LedgerBehindRevision
    <2> QED BY <2>2 DEF LedgerErr
<1>6. x.funding = "subscription" \/ x.funding = "wallet"
    BY RowTypes, RowFields DEF RowsInv, LedgerInv, CoreInv
<1>7. x.funding = "subscription" => SubscriptionErr(r, -x.reserved) = "ok"
    BY RefundFits
<1> DEFINE funding == IF x.funding = "wallet" THEN UserErr(UserOf[r], -x.reserved)
                      ELSE Then(SubscriptionErr(r, -x.reserved), PreConsumeRecordErr(r, 0))
           token == IF x.tokenReserved = 0 THEN "ok"
                    ELSE ReservationTokenErr(r, -x.tokenReserved, TRUE)
           ledger == LedgerErr(r, "refund", x.version + 1)
<1>8. funding \in {"ok", "overflow"}
    BY <1>2, <1>3, <1>6, <1>7 DEF Then
<1>9. token \in {"ok", "overflow"}
    BY <1>4
<1>10. RefundErr(r) = Then(funding, Then(token, ledger))
    BY DEF RefundErr
<1> HIDE DEF funding, token, ledger
<1>11. ledger = "ok"
    BY <1>5 DEF ledger
<1> QED BY <1>8, <1>9, <1>10, <1>11 DEF Then

-----------------------------------------------------------------------------
(* The errors of the transactions                                          *)

\* Every error of a balance is one of the errors a session knows.
LEMMA BalanceErrors ==
    ASSUME CoreInv, NEW r \in Requests, NEW delta \in Int
    PROVE  /\ UserErr(UserOf[r], delta) \in Errors
           /\ FundingErr(r, delta) \in Errors
           /\ TokenErr(TokenOf[r], delta) \in Errors
           /\ \A allow \in BOOLEAN : ReservationTokenErr(r, delta, allow) \in Errors
           /\ \A phase, n : LedgerErr(r, phase, n) \in Errors
<1>1. UserErr(UserOf[r], delta) \in Errors
    BY DEF UserErr, Errors, BillingSettlementFailures
<1>2. TokenErr(TokenOf[r], delta) \in Errors
    BY DEF TokenErr, Errors, BillingSettlementFailures
<1>3. SubscriptionErr(r, delta) \in Errors
    BY DEF SubscriptionErr, Errors, BillingSettlementFailures
<1>4. PreConsumeRecordErr(r, delta) \in Errors
    BY DEF PreConsumeRecordErr, Errors
<1>5. FundingErr(r, delta) \in Errors
    BY <1>1, <1>3, <1>4 DEF FundingErr, Then
<1>6. \A allow \in BOOLEAN : ReservationTokenErr(r, delta, allow) \in Errors
    BY <1>2 DEF ReservationTokenErr, Errors
<1>7. \A phase, n : LedgerErr(r, phase, n) \in Errors
    BY DEF LedgerErr, Errors
<1> QED BY <1>1, <1>2, <1>5, <1>6, <1>7

\* So is every error of adjustReservedBillingTx.
LEMMA AdjustErrors ==
    ASSUME CoreInv, NEW r \in Requests, NEW target \in 0..MaxInt, NEW phase, NEW allow \in BOOLEAN
    PROVE  AdjustErr(r, target, phase, allow) \in Errors
<1> DEFINE delta == target - resv[r].reserved
<1>1. delta \in Int
    BY RowTypes, SizeAssumption DEF CoreInv
<1> HIDE DEF delta
<1>2. /\ FundingErr(r, delta) \in Errors
      /\ ReservationTokenErr(r, delta, allow) \in Errors
      /\ LedgerErr(r, phase, resv[r].version + 1) \in Errors
    BY <1>1, BalanceErrors
<1>3. \A a, b \in Errors : Then(a, b) \in Errors
    BY DEF Then
<1>4. {"ok", "finalized", "conflict"} \subseteq Errors
    BY DEF Errors
<1>5. (IF TokenHold(r, delta) < 0 THEN "conflict" ELSE "ok") \in Errors
    BY <1>4
<1>6. Then(FundingErr(r, delta), Then(ReservationTokenErr(r, delta, allow),
           Then(IF TokenHold(r, delta) < 0 THEN "conflict" ELSE "ok",
                LedgerErr(r, phase, resv[r].version + 1)))) \in Errors
    BY <1>2, <1>3, <1>5
<1> QED BY <1>4, <1>6 DEF AdjustErr, delta

\* And every error a transaction of a session returns.
LEMMA SessionErrors ==
    ASSUME CoreInv, NEW r \in Requests, NEW q \in 0..MaxInt
    PROVE  /\ \A funding \in {"wallet", "subscription"} : PreConsumeErr(r, funding, q) \in Errors
           /\ ExtendErr(r, q) \in Errors
           /\ \A mode : IntentErr(r, q, mode) \in Errors
           /\ ShortfallErr(r, q) \in Errors
           /\ SettleErr(r, q) \in Errors
<1>1. resv[r].status \in {"absent", "reserved", "settled", "refunded"} /\ q \in Int
    BY RowTypes, RowFields, SizeAssumption DEF CoreInv
<1>2. {"ok", "not_found", "finalized", "conflict", "account_missing", "subscription_quota"} \subseteq Errors
    BY DEF Errors, BillingSettlementFailures
<1>3. \A phase : AdjustErr(r, q, phase, TRUE) \in Errors /\ AdjustErr(r, q, phase, FALSE) \in Errors
    BY AdjustErrors
<1>4. UserErr(UserOf[r], q) \in Errors /\ TokenErr(TokenOf[r], q) \in Errors
    BY <1>1, BalanceErrors
<1>5. \A n : LedgerErr(r, "settle", n) \in Errors
    BY <1>1, BalanceErrors
<1>6. ASSUME NEW funding \in {"wallet", "subscription"}
      PROVE  PreConsumeErr(r, funding, q) \in Errors
    BY <1>2, <1>4 DEF PreConsumeErr, Then
<1>7. ExtendErr(r, q) \in Errors
    BY <1>2, <1>3 DEF ExtendErr
<1>8. \A mode : IntentErr(r, q, mode) \in Errors
    BY <1>1, <1>2 DEF IntentErr
<1>9. ShortfallErr(r, q) \in Errors
    BY <1>1, <1>2 DEF ShortfallErr
<1>10. SettleErr(r, q) \in Errors
    BY <1>1, <1>2, <1>3, <1>5 DEF SettleErr
<1> QED BY <1>6, <1>7, <1>8, <1>9, <1>10

-----------------------------------------------------------------------------
(* What a session knows of its row                                         *)

Early == {"new", "preconsume", "overflow"}
Running == {"open", "extend", "advance", "mark", "intent", "settle", "refund", "bind"}
Retried == {"extend", "advance", "mark", "intent", "settle", "refund"}

\* A row only its own session may change, apart from a review and a decision
\* of an administrator.
Unaided(x) == x.status = "reserved" /\ ~x.bound

\* The liability is on the row, or the database is to blame that it is not.
OnRecord(s, x) == Unaided(x) => x.pending \/ s.code \in {"database", "overflow"}

RowFits(s, x) ==
    /\ s.pc \in Early =>
         x.status = "absent" /\ ~s.delivered /\ ~s.liabilityPending /\ s.preConsumedQuota = 0
    /\ s.pc \in Running => x.status # "absent"
    /\ s.settled => x.status = "settled"
    /\ s.refunded => x.status = "refunded"
    /\ Unaided(x) => s.preConsumedQuota <= x.reserved

CallFits(s, x) ==
    /\ s.pc = "mark" => /\ s.code \in BillingSettlementFailures
                        /\ Unaided(x) => x.pending \/ s.quota > x.reserved
    /\ s.pc = "settle" /\ Unaided(x) => x.pending /\ x.target = s.quota

LiabilityFits(s, x) ==
    /\ s.delivered => \/ s.liabilityPending \/ s.settled
                      \/ s.pc \in {"bind", "ended", "crashed"}
    /\ s.pc = "refund" => ~s.delivered /\ ~s.liabilityPending
    /\ s.pc = "ended" => OnRecord(s, x)
    /\ s.liabilityPending /\ s.pc \in {"open", "extend"} => OnRecord(s, x)

Fits(r, s, x) ==
    /\ s \in SessionState
    /\ RowFits(s, x) /\ CallFits(s, x) /\ LiabilityFits(s, x)
    /\ s.pc = "bind" => r \in TaskRequests

\* The source a session is about to charge is one the user allows, given the
\* user's active subscriptions.
FundingFits(s, active) ==
    /\ s.pc = "overflow" => s.preference = "subscription_first"
    /\ s.pc = "preconsume" =>
         /\ s.fallback = "subscription" => s.preference = "wallet_first"
         /\ s.fallback = "overflow" => s.preference = "subscription_first"
         /\ s.source = "subscription" => s.preference # "wallet_only"
         /\ s.source = "wallet" =>
              /\ s.preference # "subscription_only"
              /\ s.preference = "subscription_first" => active \cap StrictSubs = {}

SessionInv ==
    /\ ses \in [Requests -> SessionState]
    /\ \A r \in Requests : Fits(r, ses[r], resv[r])
    /\ \A r \in Requests : FundingFits(ses[r], ActiveSubs(UserOf[r]))

\* The types of a session's fields.
LEMMA SessionFields ==
    ASSUME NEW s \in SessionState
    PROVE  /\ s.preference \in Preferences /\ s.source \in {"wallet", "subscription"}
           /\ s.quota \in Amounts /\ s.quota \in 0..MaxInt /\ s.code \in Errors
           /\ s.fallback \in {"none", "subscription", "overflow"}
           /\ s.tries \in 0..MaxAttempts /\ s.calls \in 0..MaxCalls
           /\ s.preConsumedQuota \in 0..MaxInt
           /\ s.settled \in BOOLEAN /\ s.refunded \in BOOLEAN
           /\ s.liabilityPending \in BOOLEAN /\ s.delivered \in BOOLEAN
BY SizeAssumption DEF SessionState

\* t remembers of the hold, of the liability and of the call what s does.
SameHold(s, t) ==
    t.settled = s.settled /\ t.refunded = s.refunded /\ t.preConsumedQuota = s.preConsumedQuota
SameLiability(s, t) == t.delivered = s.delivered /\ t.liabilityPending = s.liabilityPending
SameCall(s, t) == t.quota = s.quota /\ t.code = s.code

\* The session after its last try.
LEMMA GiveUpFields ==
    ASSUME NEW s \in SessionState, NEW err \in Errors
    PROVE  LET t == GiveUp(s, err) IN
           /\ t \in SessionState /\ SameHold(s, t) /\ t.quota = s.quota /\ t.code = err
           /\ IF s.pc = "extend" THEN t.delivered /\ t.liabilityPending ELSE SameLiability(s, t)
           /\ t.pc = CASE s.pc = "extend" -> (IF Deterministic(err) THEN "mark" ELSE "advance")
                       [] s.pc = "settle" /\ Deterministic(err) -> "mark"
                       [] OTHER -> (IF s.pc = "refund" THEN "ended" ELSE "open")
<1> DEFINE t == GiveUp(s, err)
           after == IF Deterministic(err) THEN "mark" ELSE "advance"
           end == IF s.pc = "refund" THEN "ended" ELSE "open"
<1>0. 0 \in 0..MaxAttempts
    BY SessionAssumption
<1>1. CASE s.pc = "extend"
    <2>1. t = [s EXCEPT !.liabilityPending = TRUE, !.delivered = TRUE, !.code = err,
                        !.tries = 0, !.pc = after]
        BY <1>1 DEF GiveUp
    <2>2. after \in {"mark", "advance"}
        OBVIOUS
    <2> HIDE DEF t, after
    <2>3. t \in SessionState
        BY <1>0, <2>1, <2>2, Zenon DEF SessionState
    <2>4. /\ t.liabilityPending = TRUE /\ t.delivered = TRUE /\ t.code = err /\ t.pc = after
          /\ t.quota = s.quota /\ SameHold(s, t)
        BY <2>1 DEF SessionState, SameHold
    <2> QED BY <1>1, <2>3, <2>4 DEF t, after
<1>2. CASE s.pc = "settle" /\ Deterministic(err)
    <2>1. t = [s EXCEPT !.pc = "mark", !.code = err, !.tries = 0]
        BY <1>2 DEF GiveUp
    <2> HIDE DEF t
    <2>2. t \in SessionState
        BY <1>0, <2>1, Zenon DEF SessionState
    <2>3. /\ t.code = err /\ t.pc = "mark" /\ t.quota = s.quota /\ SameHold(s, t)
          /\ SameLiability(s, t)
        BY <2>1 DEF SessionState, SameHold, SameLiability
    <2> QED BY <1>2, <2>2, <2>3 DEF t
<1>3. CASE ~(s.pc = "extend") /\ ~(s.pc = "settle" /\ Deterministic(err))
    <2>1. t = [s EXCEPT !.pc = end, !.code = err, !.tries = 0]
        BY <1>3 DEF GiveUp
    <2>2. end \in {"ended", "open"}
        OBVIOUS
    <2> HIDE DEF t, end
    <2>3. t \in SessionState
        BY <1>0, <2>1, <2>2, Zenon DEF SessionState
    <2>4. /\ t.code = err /\ t.pc = end /\ t.quota = s.quota /\ SameHold(s, t)
          /\ SameLiability(s, t)
        BY <2>1 DEF SessionState, SameHold, SameLiability
    <2> QED BY <1>3, <2>3, <2>4 DEF t, end
<1> QED BY <1>1, <1>2, <1>3

-----------------------------------------------------------------------------
(* Tries that fail                                                         *)

\* What the transaction that a session tries makes of the row x, if anything.
Tried(s, x, y) ==
    \/ y = x
    \/ s.pc = "extend" /\ Extended(x, y, s.quota) /\ s.quota > x.reserved
    \/ s.pc \in {"advance", "mark", "intent"} /\ Intended(x, y, s.quota)
    \/ s.pc = "settle" /\ Charged(x, y, s.quota)
    \/ s.pc = "refund" /\ GivenBack(x, y)

\* What the error tells of the row.
Explained(s, x, err) ==
    \/ err = "database"
    \/ /\ s.pc = "extend" /\ Unaided(x) /\ Deterministic(err) => s.quota > x.reserved
       /\ s.pc \in {"advance", "mark", "intent"} /\ Unaided(x) => x.pending
       /\ s.pc = "refund" /\ Unaided(x) => err = "overflow"

\* One more try: everything but the count stays.
LEMMA RetryFits ==
    ASSUME NEW r, NEW s, NEW x \in ReservationRow, NEW y \in ReservationRow, Fits(r, s, x),
           s.pc \in Retried, Tried(s, x, y), s.tries + 1 < MaxAttempts
    PROVE  Fits(r, [s EXCEPT !.tries = @ + 1], y)
<1> DEFINE tries == s.tries + 1
           t == [s EXCEPT !.tries = tries]
<1>1. s \in SessionState /\ tries \in 0..MaxAttempts
    BY SessionFields, SessionAssumption DEF Fits
<1> HIDE DEF tries
<1>2. t \in SessionState
    BY <1>1, Zenon DEF SessionState
<1>3. SameHold(s, t) /\ SameLiability(s, t) /\ SameCall(s, t) /\ t.pc = s.pc
    BY <1>1 DEF SessionState, SameHold, SameLiability, SameCall
<1> HIDE DEF t
<1>4. s.preConsumedQuota \in Int /\ s.quota \in Int /\ x.reserved \in Int /\ y.reserved \in Int
    BY <1>1, SessionFields, RowFields, SizeAssumption
<1>5. RowFits(t, y)
    BY <1>3, <1>4
    DEF Fits, RowFits, Tried, Unaided, SameHold, SameLiability, Retried, Early, Running,
        Extended, Intended, Charged, GivenBack, SameTask
<1>6. CallFits(t, y)
    BY <1>3, <1>4
    DEF Fits, CallFits, Tried, Unaided, SameCall, Retried, Intended, Charged, SameTask
<1>7. LiabilityFits(t, y)
    BY <1>3
    DEF Fits, LiabilityFits, OnRecord, Tried, Unaided, SameHold, SameLiability, SameCall,
        Retried, Extended, SameTask, SameIntent
<1>8. t.pc # "bind"
    BY <1>3 DEF Retried
<1>9. Fits(r, t, y)
    BY <1>2, <1>5, <1>6, <1>7, <1>8 DEF Fits
<1> QED BY <1>9 DEF t, tries

\* The last try: a failed Reserve goes on to record its target, a shortage is
\* recorded as such, and the caller gets the error.
LEMMA GiveUpFits ==
    ASSUME NEW r, NEW s, NEW x \in ReservationRow, NEW y \in ReservationRow, Fits(r, s, x),
           s.pc \in Retried, Tried(s, x, y), NEW err \in Errors, Explained(s, y, err)
    PROVE  Fits(r, GiveUp(s, err), y)
<1> DEFINE t == GiveUp(s, err)
<1>1. s \in SessionState
    BY DEF Fits
<1>2. /\ t \in SessionState /\ SameHold(s, t) /\ t.quota = s.quota /\ t.code = err
      /\ IF s.pc = "extend" THEN t.delivered /\ t.liabilityPending ELSE SameLiability(s, t)
      /\ t.pc = CASE s.pc = "extend" -> (IF Deterministic(err) THEN "mark" ELSE "advance")
                  [] s.pc = "settle" /\ Deterministic(err) -> "mark"
                  [] OTHER -> (IF s.pc = "refund" THEN "ended" ELSE "open")
    BY <1>1, GiveUpFields
<1>3. s.preConsumedQuota \in Int /\ s.quota \in Int /\ x.reserved \in Int /\ y.reserved \in Int
    BY <1>1, SessionFields, RowFields, SizeAssumption
<1> HIDE DEF t
<1>4. t.pc \in {"mark", "advance", "open", "ended"} /\ t.pc # "bind"
    BY <1>2
<1>5. RowFits(t, y)
    BY <1>2, <1>3, <1>4
    DEF Fits, RowFits, Tried, Unaided, SameHold, Retried, Early, Running,
        Extended, Intended, Charged, GivenBack, SameTask
<1>6. CallFits(t, y)
    <2>1. t.pc = "mark" => Deterministic(err) /\ s.pc \in {"extend", "settle"}
        BY <1>2
    <2>2. Deterministic(err) => err \in BillingSettlementFailures /\ err # "database"
        BY DEF Deterministic, BillingSettlementFailures
    <2>3. s.pc = "settle" /\ Unaided(y) => y.pending
        BY DEF Fits, CallFits, Tried, Charged, Unaided
    <2>4. s.pc = "extend" /\ Unaided(y) /\ Deterministic(err) => s.quota > y.reserved
        BY <2>2 DEF Explained
    <2> QED BY <1>2, <1>4, <2>1, <2>2, <2>3, <2>4 DEF CallFits
<1>7. LiabilityFits(t, y)
    <2>1. s.pc = "settle" /\ Unaided(y) => y.pending
        BY DEF Fits, CallFits, Tried, Charged, Unaided
    <2>2. t.pc \in {"open", "ended"} => OnRecord(t, y)
        BY <1>2, <2>1 DEF OnRecord, Explained, Retried
    <2>3. t.delivered => t.liabilityPending \/ t.settled \/ t.pc = "ended"
        BY <1>2 DEF Fits, LiabilityFits, Retried, SameHold, SameLiability
    <2> QED BY <1>4, <2>2, <2>3 DEF LiabilityFits
<1>8. Fits(r, t, y)
    BY <1>2, <1>4, <1>5, <1>6, <1>7 DEF Fits
<1> QED BY <1>8 DEF t

\* A try that fails, whether it committed or not.
LEMMA FailedFits ==
    ASSUME NEW r, NEW x \in ReservationRow, NEW y \in ReservationRow, Fits(r, ses[r], x),
           ses[r].pc \in Retried, Tried(ses[r], x, y), NEW err \in Errors,
           Explained(ses[r], y, err)
    PROVE  Fits(r, Failed(r, err), y)
<1>1. CASE Retryable(ses[r].pc, err) /\ ses[r].tries + 1 < MaxAttempts
    <2>1. Fits(r, [ses[r] EXCEPT !.tries = @ + 1], y)
        BY <1>1, RetryFits
    <2> QED BY <1>1, <2>1 DEF Failed
<1>2. CASE ~(Retryable(ses[r].pc, err) /\ ses[r].tries + 1 < MaxAttempts)
    <2>1. Fits(r, GiveUp(ses[r], err), y)
        BY GiveUpFits
    <2> QED BY <1>2, <2>1 DEF Failed
<1> QED BY <1>1, <1>2

-----------------------------------------------------------------------------
(* The steps of a session                                                  *)

\* What a step of r's session makes of r's row.
OwnRow(r) ==
    \/ Tried(ses[r], resv[r], resv'[r])
    \/ ses[r].pc = "preconsume" /\ \E q : Opened(resv'[r], ses[r].source, q)
    \/ ses[r].pc = "bind" /\ Assigned(resv[r], resv'[r])

\* A step of r's session is a transaction on r's row, or none, and leaves a
\* session that fits the row.
OwnStep(r) ==
    /\ [Next]_vars
    /\ \A p \in Requests \ {r} : resv'[p] = resv[p]
    /\ OwnRow(r)
    /\ \E t : /\ Becomes(r, t) /\ Fits(r, t, resv'[r])
              /\ FundingFits(t, ActiveSubs(UserOf[r]))

\* What is known of r and its row before a step.
LEMMA SessionFacts ==
    ASSUME RowsInv, SessionInv, NEW r \in Requests
    PROVE  /\ CoreInv /\ resv[r] \in ReservationRow /\ ses[r] \in SessionState
           /\ Fits(r, ses[r], resv[r]) /\ ses[r].quota \in Amounts /\ ses[r].quota \in 0..MaxInt
           /\ [Next]_vars => resv'[r] \in ReservationRow
<1>1. CoreInv /\ resv[r] \in ReservationRow
    BY RowTypes DEF RowsInv, LedgerInv, CoreInv
<1>2. ses[r] \in SessionState /\ Fits(r, ses[r], resv[r])
    BY DEF SessionInv
<1>3. [Next]_vars => resv'[r] \in ReservationRow
    BY <1>1, StepCore DEF CoreInv, TypeOK
<1> QED BY <1>1, <1>2, <1>3, SessionFields

\* Past its first hold a session charges no other source.
LEMMA AnsweredOwn ==
    ASSUME NEW r \in Requests, [Next]_vars, \A p \in Requests \ {r} : resv'[p] = resv[p],
           OwnRow(r), NEW t, Becomes(r, t), Fits(r, t, resv'[r]), resv'[r].status # "absent"
    PROVE  OwnStep(r)
<1>1. t.pc \notin Early
    BY DEF Fits, RowFits
<1>2. FundingFits(t, ActiveSubs(UserOf[r]))
    BY <1>1 DEF FundingFits, Early
<1> QED BY <1>2 DEF OwnStep

\* A try that is refused or lost.
LEMMA FailedOwn ==
    ASSUME RowsInv, SessionInv, NEW r \in Requests, [Next]_vars,
           \A p \in Requests \ {r} : resv'[p] = resv[p], ses[r].pc \in Retried,
           Tried(ses[r], resv[r], resv'[r]), NEW err \in Errors,
           Explained(ses[r], resv'[r], err), Becomes(r, Failed(r, err))
    PROVE  OwnStep(r)
<1>1. /\ resv[r] \in ReservationRow /\ resv'[r] \in ReservationRow
      /\ Fits(r, ses[r], resv[r])
    BY SessionFacts
<1>2. Fits(r, Failed(r, err), resv'[r])
    BY <1>1, FailedFits
<1>3. resv'[r].status # "absent"
    BY <1>1 DEF Fits, RowFits, Tried, Retried, Running, Extended, Intended, Charged, GivenBack,
                SameTask
<1> QED BY <1>2, <1>3, AnsweredOwn DEF OwnRow

\* A transaction that is refused or not tried leaves the rows alone.
LEMMA NothingTried ==
    ASSUME UNCHANGED vars
    PROVE  [Next]_vars /\ resv' = resv /\ \A s, r : Tried(s, resv[r], resv'[r])
BY DEF vars, Tried

\* The session after an answer.
LEMMA ReturnedFields ==
    ASSUME NEW s \in SessionState
    PROVE  LET t == Returned(s) IN
           /\ t \in SessionState /\ t.pc = "open"
           /\ SameHold(s, t) /\ SameLiability(s, t) /\ SameCall(s, t)
<1> DEFINE t == Returned(s)
<1>1. t = [s EXCEPT !.pc = "open", !.tries = 0] /\ 0 \in 0..MaxAttempts
    BY SessionAssumption DEF Returned
<1> HIDE DEF t
<1>2. t \in SessionState
    BY <1>1, Zenon DEF SessionState
<1>3. t.pc = "open" /\ SameHold(s, t) /\ SameLiability(s, t) /\ SameCall(s, t)
    BY <1>1 DEF SessionState, SameHold, SameLiability, SameCall
<1> QED BY <1>2, <1>3 DEF t

\* ExtendBillingReservation as Reserve tries it.
LEMMA ExtendOwn ==
    ASSUME RowsInv, SessionInv, NEW r \in Requests, ExtendTry(r)
    PROVE  OwnStep(r)
<1> DEFINE s == ses[r]
           x == resv[r]
           q == ses[r].quota
           hold == Larger(q, x.reserved)
           t == [Returned(s) EXCEPT !.preConsumedQuota = hold]
           commit == ExtendBillingReservation(r, q) \/ Repeated(q <= x.reserved)
<1>1. /\ CoreInv /\ x \in ReservationRow /\ s \in SessionState /\ Fits(r, s, x)
      /\ q \in Amounts /\ q \in 0..MaxInt /\ s.pc = "extend" /\ s.pc \in Retried
    BY SessionFacts DEF ExtendTry, Retried
<1>2. q \in Int /\ x.reserved \in 0..MaxInt /\ x.reserved \in Int
    BY <1>1, RowFields, SizeAssumption
<1>3. ASSUME commit
      PROVE  /\ [Next]_vars /\ Tried(s, x, resv'[r])
             /\ \A p \in Requests \ {r} : resv'[p] = resv[p]
             /\ \/ Extended(x, resv'[r], q) /\ q > x.reserved
                \/ resv'[r] = x /\ q <= x.reserved
    <2>1. CASE ExtendBillingReservation(r, q)
        <3>1. [Next]_vars
            BY <1>1, <2>1 DEF Next, RequestStep
        <3>2. /\ \A p \in Requests \ {r} : resv'[p] = resv[p]
              /\ Extended(x, resv'[r], q) /\ q > x.reserved
            BY <1>1, <2>1, ExtendShape DEF Becoming
        <3> QED BY <1>1, <3>1, <3>2 DEF Tried
    <2>2. CASE Repeated(q <= x.reserved)
        BY <2>2, NothingTried DEF Repeated
    <2> QED BY <1>3, <2>1, <2>2
<1>4. ASSUME UNCHANGED vars, NEW err, err # "ok", err = ExtendErr(r, q) \/ err = "database"
      PROVE  err \in Errors /\ Explained(s, resv'[r], err)
    <2>1. err \in Errors
        BY <1>1, <1>4, SessionErrors DEF Errors
    <2>2. resv' = resv
        BY <1>4 DEF vars
    <2>3. err = ExtendErr(r, q) /\ q <= x.reserved => ~Deterministic(err)
        BY DEF ExtendErr, Deterministic, BillingSettlementFailures
    <2>4. Explained(s, x, err)
        BY <1>1, <1>2, <1>4, <2>3 DEF Explained
    <2> QED BY <2>1, <2>2, <2>4
<1>5. CASE ExtendErr(r, q) = "ok" /\ commit /\ Becomes(r, t)
    <2> DEFINE u == Returned(s)
               y == resv'[r]
    <2>1. /\ [Next]_vars /\ Tried(s, x, y) /\ \A p \in Requests \ {r} : resv'[p] = resv[p]
          /\ \/ Extended(x, y, q) /\ q > x.reserved
             \/ y = x /\ q <= x.reserved
        BY <1>3, <1>5
    <2>2. y \in ReservationRow
        BY <2>1, SessionFacts
    <2>3. /\ u \in SessionState /\ u.pc = "open"
          /\ SameHold(s, u) /\ SameLiability(s, u) /\ SameCall(s, u)
        BY <1>1, ReturnedFields
    <2>4. hold \in 0..MaxInt /\ hold <= y.reserved
        BY <1>1, <1>2, <2>1 DEF Larger, Extended
    <2>5. t = [u EXCEPT !.preConsumedQuota = hold]
        OBVIOUS
    <2> HIDE DEF u, t, hold
    <2>6. t \in SessionState
        BY <2>3, <2>4, <2>5, Zenon DEF SessionState
    <2>7. /\ t.pc = "open" /\ t.preConsumedQuota = hold /\ t.settled = s.settled
          /\ t.refunded = s.refunded /\ SameLiability(s, t) /\ SameCall(s, t)
        BY <2>3, <2>5 DEF SessionState, SameHold, SameLiability, SameCall
    <2>8. y.status = x.status /\ y.bound = x.bound /\ SameIntent(x, y)
        BY <2>1 DEF Extended, SameTask, SameIntent
    <2>9. RowFits(t, y)
        BY <1>1, <2>4, <2>7, <2>8 DEF Fits, RowFits, Early, Running
    <2>10. CallFits(t, y) /\ LiabilityFits(t, y)
        BY <1>1, <2>7, <2>8
        DEF Fits, CallFits, LiabilityFits, OnRecord, Unaided, SameLiability, SameCall, SameIntent
    <2>11. Fits(r, t, y)
        BY <2>6, <2>7, <2>9, <2>10 DEF Fits
    <2>12. y.status # "absent"
        BY <1>1, <2>8 DEF Fits, RowFits, Running
    <2>13. Becomes(r, t)
        BY <1>5
    <2> QED BY <2>1, <2>11, <2>12, <2>13, AnsweredOwn DEF OwnRow
<1>6. CASE ExtendErr(r, q) # "ok" /\ UNCHANGED vars /\ Becomes(r, Failed(r, ExtendErr(r, q)))
    BY <1>1, <1>4, <1>6, NothingTried, FailedOwn
<1>7. CASE (commit \/ UNCHANGED vars) /\ Becomes(r, Failed(r, "database"))
    <2>1. "database" \in Errors /\ Explained(s, resv'[r], "database")
        BY DEF Errors, Explained
    <2> QED BY <1>1, <1>3, <1>7, <2>1, NothingTried, FailedOwn
<1> QED BY <1>5, <1>6, <1>7 DEF ExtendTry, Try

\* An answer that leaves the liability on the row.
LEMMA RecordedFits ==
    ASSUME NEW r, NEW s, NEW x, NEW y, Fits(r, s, x),
           s.pc \in {"advance", "mark"}, Tried(s, x, y), Unaided(y) => y.pending
    PROVE  Fits(r, Returned(s), y)
<1> DEFINE t == Returned(s)
<1>1. s \in SessionState
    BY DEF Fits
<1>2. /\ t \in SessionState /\ t.pc = "open"
      /\ SameHold(s, t) /\ SameLiability(s, t) /\ SameCall(s, t)
    BY <1>1, ReturnedFields
<1> HIDE DEF t
<1>3. y = x \/ Intended(x, y, s.quota)
    BY DEF Tried
<1>4. y.status = x.status /\ y.bound = x.bound /\ y.reserved = x.reserved
    BY <1>3 DEF Intended, SameTask
<1>5. RowFits(t, y)
    BY <1>2, <1>4 DEF Fits, RowFits, Unaided, SameHold, Early, Running
<1>6. CallFits(t, y) /\ LiabilityFits(t, y)
    BY <1>2 DEF Fits, CallFits, LiabilityFits, OnRecord, SameHold, SameLiability
<1>7. Fits(r, t, y)
    BY <1>2, <1>5, <1>6 DEF Fits
<1> QED BY <1>7 DEF t

\* A repeated intent is one that is on the row already.
LEMMA IntentOnRow ==
    ASSUME NEW r \in Requests, NEW q, ~IntentIsNew(r, q), Unaided(resv[r])
    PROVE  resv[r].pending /\ resv[r].target = q
BY DEF IntentIsNew, Unaided

\* An intent is refused to an unbound row only if it has one.
LEMMA IntentRefused ==
    ASSUME NEW r \in Requests, NEW q, NEW mode \in {"strict", "unbound_increase"},
           IntentErr(r, q, mode) # "ok", Unaided(resv[r])
    PROVE  resv[r].pending
BY DEF IntentErr, Unaided

\* AdvanceUnboundBillingReservationSettlementIntent as Reserve tries it.
LEMMA AdvanceOwn ==
    ASSUME RowsInv, SessionInv, NEW r \in Requests, AdvanceTry(r)
    PROVE  OwnStep(r)
<1> DEFINE s == ses[r]
           x == resv[r]
           q == ses[r].quota
           err == IntentErr(r, q, "unbound_increase")
           commit == \/ AdvanceUnboundBillingReservationSettlementIntent(r, q)
                     \/ Repeated(~IntentIsNew(r, q))
<1>1. /\ CoreInv /\ x \in ReservationRow /\ s \in SessionState /\ Fits(r, s, x)
      /\ q \in Amounts /\ q \in 0..MaxInt /\ s.pc = "advance" /\ s.pc \in Retried
    BY SessionFacts DEF AdvanceTry, Retried
<1>2. ASSUME commit
      PROVE  /\ [Next]_vars /\ Tried(s, x, resv'[r])
             /\ \A p \in Requests \ {r} : resv'[p] = resv[p]
             /\ Unaided(resv'[r]) => resv'[r].pending
    <2>1. CASE AdvanceUnboundBillingReservationSettlementIntent(r, q)
        <3>1. [Next]_vars
            BY <1>1, <2>1 DEF Next, RequestStep
        <3>2. (\A p \in Requests \ {r} : resv'[p] = resv[p]) /\ Intended(x, resv'[r], q)
            BY <1>1, <2>1, IntentShape
            DEF Becoming, AdvanceUnboundBillingReservationSettlementIntent
        <3> QED BY <1>1, <3>1, <3>2 DEF Tried, Intended
    <2>2. CASE Repeated(~IntentIsNew(r, q))
        BY <2>2, NothingTried, IntentOnRow DEF Repeated
    <2> QED BY <1>2, <2>1, <2>2
<1>3. CASE err = "ok" /\ commit /\ Becomes(r, Returned(s))
    <2>1. Fits(r, Returned(s), resv'[r])
        BY <1>1, <1>2, <1>3, RecordedFits
    <2>2. resv'[r].status # "absent"
        BY <1>1, <1>2, <1>3 DEF Fits, RowFits, Running, Tried, Intended, SameTask
    <2> QED BY <1>2, <1>3, <2>1, <2>2, AnsweredOwn DEF OwnRow
<1>4. CASE err # "ok" /\ UNCHANGED vars /\ Becomes(r, Failed(r, err))
    <2>1. err \in Errors
        BY <1>1, SessionErrors
    <2>2. Explained(s, x, err)
        BY <1>1, <1>4, IntentRefused DEF Explained
    <2> HIDE DEF err
    <2> QED BY <1>1, <1>4, <2>1, <2>2, NothingTried, FailedOwn
<1>5. CASE (commit \/ UNCHANGED vars) /\ Becomes(r, Failed(r, "database"))
    <2>1. "database" \in Errors /\ Explained(s, resv'[r], "database")
        BY DEF Errors, Explained
    <2> QED BY <1>1, <1>2, <1>5, <2>1, NothingTried, FailedOwn
<1> QED BY <1>3, <1>4, <1>5 DEF AdvanceTry, Try

\* A shortfall of an unbound row is refused only if the row has a target, or
\* holds the quota.
LEMMA ShortfallRefused ==
    ASSUME NEW r \in Requests, NEW q \in Int, ShortfallErr(r, q) # "ok", Unaided(resv[r]),
           resv[r].reserved \in Int, resv[r].pending \/ q > resv[r].reserved
    PROVE  resv[r].pending
BY DEF ShortfallErr, Unaided

\* MarkBillingReservationSettlementShortfall as Reserve and Settle try it.
LEMMA MarkOwn ==
    ASSUME RowsInv, SessionInv, NEW r \in Requests, MarkTry(r)
    PROVE  OwnStep(r)
<1> DEFINE s == ses[r]
           x == resv[r]
           q == ses[r].quota
           err == ShortfallErr(r, q)
           commit == \/ MarkBillingReservationSettlementShortfall(r, q, ses[r].code)
                     \/ Repeated(Finalized(r))
<1>1. /\ CoreInv /\ x \in ReservationRow /\ s \in SessionState /\ Fits(r, s, x)
      /\ q \in Amounts /\ q \in 0..MaxInt /\ s.pc = "mark" /\ s.pc \in Retried
    BY SessionFacts DEF MarkTry, Retried
<1>2. ASSUME commit
      PROVE  /\ [Next]_vars /\ Tried(s, x, resv'[r])
             /\ \A p \in Requests \ {r} : resv'[p] = resv[p]
             /\ Unaided(resv'[r]) => resv'[r].pending
    <2>1. CASE MarkBillingReservationSettlementShortfall(r, q, ses[r].code)
        <3>1. ses[r].code \in FailureCodes
            BY <1>1, SessionAssumption DEF Fits, CallFits
        <3>2. [Next]_vars
            BY <1>1, <2>1, <3>1 DEF Next, RequestStep
        <3>3. (\A p \in Requests \ {r} : resv'[p] = resv[p]) /\ Intended(x, resv'[r], q)
            BY <1>1, <2>1, MarkShape DEF Becoming
        <3> QED BY <1>1, <3>2, <3>3 DEF Tried, Intended
    <2>2. CASE Repeated(Finalized(r))
        BY <2>2, NothingTried DEF Repeated, Finalized, Unaided
    <2> QED BY <1>2, <2>1, <2>2
<1>3. CASE err = "ok" /\ commit /\ Becomes(r, Returned(s))
    <2>1. Fits(r, Returned(s), resv'[r])
        BY <1>1, <1>2, <1>3, RecordedFits
    <2>2. resv'[r].status # "absent"
        BY <1>1, <1>2, <1>3 DEF Fits, RowFits, Running, Tried, Intended, SameTask
    <2> QED BY <1>2, <1>3, <2>1, <2>2, AnsweredOwn DEF OwnRow
<1>4. CASE err # "ok" /\ UNCHANGED vars /\ Becomes(r, Failed(r, err))
    <2>1. err \in Errors /\ q \in Int /\ x.reserved \in Int
        BY <1>1, SessionErrors, RowFields, SizeAssumption
    <2>2. Unaided(x) => x.pending \/ q > x.reserved
        BY <1>1 DEF Fits, CallFits
    <2>3. Explained(s, x, err)
        BY <1>1, <1>4, <2>1, <2>2, ShortfallRefused DEF Explained
    <2> HIDE DEF err
    <2> QED BY <1>1, <1>4, <2>1, <2>3, NothingTried, FailedOwn
<1>5. CASE (commit \/ UNCHANGED vars) /\ Becomes(r, Failed(r, "database"))
    <2>1. "database" \in Errors /\ Explained(s, resv'[r], "database")
        BY DEF Errors, Explained
    <2> QED BY <1>1, <1>2, <1>5, <2>1, NothingTried, FailedOwn
<1> QED BY <1>3, <1>4, <1>5 DEF MarkTry, Try

\* PrepareBillingReservationSettlement as Settle tries it: only the target on
\* the row lets the session go on to settle.
LEMMA IntentOwn ==
    ASSUME RowsInv, SessionInv, NEW r \in Requests, IntentTry(r)
    PROVE  OwnStep(r)
<1> DEFINE s == ses[r]
           x == resv[r]
           q == ses[r].quota
           err == IntentErr(r, q, "strict")
           t == [s EXCEPT !.pc = "settle", !.tries = 0]
           commit == \/ PrepareBillingReservationSettlement(r, q)
                     \/ Repeated(~IntentIsNew(r, q))
<1>1. /\ CoreInv /\ x \in ReservationRow /\ s \in SessionState /\ Fits(r, s, x)
      /\ q \in Amounts /\ q \in 0..MaxInt /\ s.pc = "intent" /\ s.pc \in Retried
    BY SessionFacts DEF IntentTry, Retried
<1>2. ASSUME commit
      PROVE  /\ [Next]_vars /\ Tried(s, x, resv'[r])
             /\ \A p \in Requests \ {r} : resv'[p] = resv[p]
             /\ Unaided(resv'[r]) => resv'[r].pending /\ resv'[r].target = q
    <2>1. CASE PrepareBillingReservationSettlement(r, q)
        <3>1. [Next]_vars
            BY <1>1, <2>1 DEF Next, RequestStep
        <3>2. (\A p \in Requests \ {r} : resv'[p] = resv[p]) /\ Intended(x, resv'[r], q)
            BY <1>1, <2>1, IntentShape DEF Becoming, PrepareBillingReservationSettlement
        <3> QED BY <1>1, <3>1, <3>2 DEF Tried, Intended
    <2>2. CASE Repeated(~IntentIsNew(r, q))
        BY <2>2, NothingTried, IntentOnRow DEF Repeated
    <2> QED BY <1>2, <2>1, <2>2
<1>3. CASE err = "ok" /\ commit /\ Becomes(r, t)
    <2> DEFINE y == resv'[r]
    <2>1. /\ [Next]_vars /\ Tried(s, x, y) /\ \A p \in Requests \ {r} : resv'[p] = resv[p]
          /\ Unaided(y) => y.pending /\ y.target = q
        BY <1>2, <1>3
    <2>2. 0 \in 0..MaxAttempts /\ Becomes(r, t)
        BY <1>3, SessionAssumption
    <2>3. t \in SessionState
        BY <1>1, <2>2, Zenon DEF SessionState
    <2>4. /\ t.pc = "settle" /\ SameHold(s, t) /\ SameLiability(s, t) /\ SameCall(s, t)
        BY <1>1 DEF SessionState, SameHold, SameLiability, SameCall
    <2> HIDE DEF t
    <2>5. y.status = x.status /\ y.bound = x.bound /\ y.reserved = x.reserved
        BY <1>1, <2>1 DEF Tried, Intended, SameTask
    <2>6. RowFits(t, y)
        BY <1>1, <2>4, <2>5 DEF Fits, RowFits, Unaided, SameHold, Early, Running
    <2>7. CallFits(t, y) /\ LiabilityFits(t, y)
        BY <1>1, <2>1, <2>4
        DEF Fits, CallFits, LiabilityFits, SameHold, SameLiability, SameCall
    <2>8. Fits(r, t, y)
        BY <2>3, <2>4, <2>6, <2>7 DEF Fits
    <2>9. y.status # "absent"
        BY <1>1, <2>5 DEF Fits, RowFits, Running
    <2> QED BY <2>1, <2>2, <2>8, <2>9, AnsweredOwn DEF OwnRow
<1>4. CASE err # "ok" /\ UNCHANGED vars /\ Becomes(r, Failed(r, err))
    <2>1. err \in Errors
        BY <1>1, SessionErrors
    <2>2. Explained(s, x, err)
        BY <1>1, <1>4, IntentRefused DEF Explained
    <2> HIDE DEF err
    <2> QED BY <1>1, <1>4, <2>1, <2>2, NothingTried, FailedOwn
<1>5. CASE (commit \/ UNCHANGED vars) /\ Becomes(r, Failed(r, "database"))
    <2>1. "database" \in Errors /\ Explained(s, resv'[r], "database")
        BY DEF Errors, Explained
    <2> QED BY <1>1, <1>2, <1>5, <2>1, NothingTried, FailedOwn
<1> QED BY <1>3, <1>4, <1>5 DEF IntentTry, Try

\* SettleBillingReservation as Settle tries it.
LEMMA SettleOwn ==
    ASSUME RowsInv, SessionInv, NEW r \in Requests, SettleTry(r)
    PROVE  OwnStep(r)
<1> DEFINE s == ses[r]
           x == resv[r]
           q == ses[r].quota
           err == SettleErr(r, q)
           t == [Returned(s) EXCEPT !.preConsumedQuota = q, !.settled = TRUE,
                                    !.liabilityPending = FALSE]
           commit == SettleBillingReservation(r, q) \/ Repeated(Finalized(r))
<1>1. /\ CoreInv /\ x \in ReservationRow /\ s \in SessionState /\ Fits(r, s, x)
      /\ q \in Amounts /\ q \in 0..MaxInt /\ s.pc = "settle" /\ s.pc \in Retried
    BY SessionFacts DEF SettleTry, Retried
<1>2. ASSUME commit
      PROVE  /\ [Next]_vars /\ Tried(s, x, resv'[r])
             /\ \A p \in Requests \ {r} : resv'[p] = resv[p]
             /\ \/ Charged(x, resv'[r], q)
                \/ resv'[r] = x /\ Finalized(r)
    <2>1. CASE SettleBillingReservation(r, q)
        <3>1. [Next]_vars
            BY <1>1, <2>1 DEF Next, RequestStep
        <3>2. (\A p \in Requests \ {r} : resv'[p] = resv[p]) /\ Charged(x, resv'[r], q)
            BY <1>1, <2>1, SettleShape DEF Becoming, SettleBillingReservation
        <3> QED BY <1>1, <3>1, <3>2 DEF Tried
    <2>2. CASE Repeated(Finalized(r))
        BY <2>2, NothingTried DEF Repeated
    <2> QED BY <1>2, <2>1, <2>2
<1>3. CASE err = "ok" /\ commit /\ Becomes(r, t)
    <2> DEFINE y == resv'[r]
               u == Returned(s)
    <2>1. /\ [Next]_vars /\ Tried(s, x, y) /\ \A p \in Requests \ {r} : resv'[p] = resv[p]
          /\ \/ Charged(x, y, q)
             \/ y = x /\ Finalized(r)
        BY <1>2, <1>3
    <2>2. y.status = "settled" /\ x.status # "refunded"
        <3>1. Finalized(r) => x.status = "settled"
            BY <1>3 DEF Finalized, SettleErr
        <3> QED BY <2>1, <3>1 DEF Charged
    <2>3. u \in SessionState /\ u.pc = "open" /\ SameHold(s, u) /\ SameLiability(s, u)
        BY <1>1, ReturnedFields
    <2>4. t = [u EXCEPT !.preConsumedQuota = q, !.settled = TRUE, !.liabilityPending = FALSE]
        OBVIOUS
    <2>5. Becomes(r, t)
        BY <1>3
    <2> HIDE DEF t, u
    <2>6. t \in SessionState
        BY <1>1, <2>3, <2>4, Zenon DEF SessionState
    <2>7. /\ t.pc = "open" /\ t.settled = TRUE /\ t.liabilityPending = FALSE
          /\ t.refunded = s.refunded /\ t.delivered = s.delivered
        BY <2>3, <2>4 DEF SessionState, SameHold, SameLiability
    <2>8. RowFits(t, y)
        BY <1>1, <2>2, <2>7 DEF Fits, RowFits, Unaided, Early, Running
    <2>9. CallFits(t, y) /\ LiabilityFits(t, y)
        BY <2>2, <2>7 DEF CallFits, LiabilityFits
    <2>10. Fits(r, t, y)
        BY <2>6, <2>7, <2>8, <2>9 DEF Fits
    <2> QED BY <2>1, <2>2, <2>5, <2>10, AnsweredOwn DEF OwnRow
<1>4. CASE err # "ok" /\ UNCHANGED vars /\ Becomes(r, Failed(r, err))
    <2>1. err \in Errors /\ Explained(s, x, err)
        BY <1>1, SessionErrors DEF Explained
    <2> HIDE DEF err
    <2> QED BY <1>1, <1>4, <2>1, NothingTried, FailedOwn
<1>5. CASE (commit \/ UNCHANGED vars) /\ Becomes(r, Failed(r, "database"))
    <2>1. "database" \in Errors /\ Explained(s, resv'[r], "database")
        BY DEF Errors, Explained
    <2> QED BY <1>1, <1>2, <1>5, <2>1, NothingTried, FailedOwn
<1> QED BY <1>3, <1>4, <1>5 DEF SettleTry, Try

\* RefundBillingReservation as the clean-up tries it: an open row is refused
\* only when a balance would overflow.
LEMMA RefundOwn ==
    ASSUME RowsInv, SessionInv, NEW r \in Requests, RefundTry(r)
    PROVE  OwnStep(r)
<1> DEFINE s == ses[r]
           x == resv[r]
           err == RefundErr(r)
           t == [Returned(s) EXCEPT !.pc = "ended", !.refunded = TRUE]
           commit == RefundBillingReservation(r) \/ Repeated(Finalized(r))
<1>1. /\ CoreInv /\ x \in ReservationRow /\ s \in SessionState /\ Fits(r, s, x)
      /\ s.pc = "refund" /\ s.pc \in Retried
    BY SessionFacts DEF RefundTry, Retried
<1>2. ASSUME commit
      PROVE  /\ [Next]_vars /\ Tried(s, x, resv'[r])
             /\ \A p \in Requests \ {r} : resv'[p] = resv[p]
             /\ \/ GivenBack(x, resv'[r])
                \/ resv'[r] = x /\ Finalized(r)
    <2>1. CASE RefundBillingReservation(r)
        <3>1. [Next]_vars
            BY <1>1, <2>1 DEF Next, RequestStep
        <3>2. (\A p \in Requests \ {r} : resv'[p] = resv[p]) /\ GivenBack(x, resv'[r])
            BY <1>1, <2>1, RefundShape DEF Becoming, RefundBillingReservation
        <3> QED BY <1>1, <3>1, <3>2 DEF Tried
    <2>2. CASE Repeated(Finalized(r))
        BY <2>2, NothingTried DEF Repeated
    <2> QED BY <1>2, <2>1, <2>2
<1>3. CASE err = "ok" /\ commit /\ Becomes(r, t)
    <2> DEFINE y == resv'[r]
               u == Returned(s)
    <2>1. /\ [Next]_vars /\ Tried(s, x, y) /\ \A p \in Requests \ {r} : resv'[p] = resv[p]
          /\ \/ GivenBack(x, y)
             \/ y = x /\ Finalized(r)
        BY <1>2, <1>3
    <2>2. y.status = "refunded" /\ x.status # "settled"
        <3>1. Finalized(r) => x.status = "refunded"
            BY <1>3 DEF Finalized, RefundErr
        <3> QED BY <2>1, <3>1 DEF GivenBack
    <2>3. u \in SessionState /\ SameHold(s, u) /\ SameLiability(s, u)
        BY <1>1, ReturnedFields
    <2>4. t = [u EXCEPT !.pc = "ended", !.refunded = TRUE]
        OBVIOUS
    <2>5. Becomes(r, t)
        BY <1>3
    <2> HIDE DEF t, u
    <2>6. t \in SessionState
        BY <2>3, <2>4, Zenon DEF SessionState
    <2>7. t.pc = "ended" /\ t.refunded = TRUE /\ t.settled = s.settled
        BY <2>3, <2>4 DEF SessionState, SameHold
    <2>8. RowFits(t, y)
        BY <1>1, <2>2, <2>7 DEF Fits, RowFits, Unaided, Early, Running
    <2>9. CallFits(t, y) /\ LiabilityFits(t, y)
        BY <2>2, <2>7 DEF CallFits, LiabilityFits, OnRecord, Unaided
    <2>10. Fits(r, t, y)
        BY <2>6, <2>7, <2>8, <2>9 DEF Fits
    <2> QED BY <2>1, <2>2, <2>5, <2>10, AnsweredOwn DEF OwnRow
<1>4. CASE err # "ok" /\ UNCHANGED vars /\ Becomes(r, Failed(r, err))
    <2>1. x.status = "reserved" => err = "overflow"
        BY <1>4, RefundRefused
    <2>2. x.status \in {"settled", "refunded", "absent"} => err \in Errors
        BY DEF RefundErr, Errors
    <2>3. x.status \in {"absent", "reserved", "settled", "refunded"} /\ "overflow" \in Errors
        BY <1>1, RowFields DEF Errors
    <2> HIDE DEF err
    <2>4. err \in Errors
        BY <2>1, <2>2, <2>3
    <2>5. Explained(s, x, err)
        BY <1>1, <2>1 DEF Explained, Unaided
    <2> QED BY <1>1, <1>4, <2>4, <2>5, NothingTried, FailedOwn
<1>5. CASE (commit \/ UNCHANGED vars) /\ Becomes(r, Failed(r, "database"))
    <2>1. "database" \in Errors /\ Explained(s, resv'[r], "database")
        BY DEF Errors, Explained
    <2> QED BY <1>1, <1>2, <1>5, <2>1, NothingTried, FailedOwn
<1> QED BY <1>3, <1>4, <1>5 DEF RefundTry, Try

\* CreateTaskWithBillingReservation as RelayTask tries it: afterwards the task
\* carries the reservation, or the handler settles.
LEMMA BindOwn ==
    ASSUME RowsInv, SessionInv, NEW r \in Requests, BindTry(r)
    PROVE  OwnStep(r)
<1> DEFINE s == ses[r]
           x == resv[r]
           y == resv'[r]
           q == ses[r].quota
           commit == \E done \in BOOLEAN : CreateTaskWithBillingReservation(r, q, done)
           ended == [s EXCEPT !.pc = "ended"]
           settle == [s EXCEPT !.pc = "intent", !.liabilityPending = TRUE, !.calls = MaxCalls]
<1>1. /\ CoreInv /\ x \in ReservationRow /\ s \in SessionState /\ Fits(r, s, x)
      /\ q \in Amounts /\ q \in 0..MaxInt /\ s.pc = "bind" /\ r \in TaskRequests
    <2>1. s.pc = "bind" /\ Fits(r, s, x)
        BY SessionFacts DEF BindTry
    <2> QED BY <2>1, SessionFacts DEF Fits
<1>2. ASSUME commit
      PROVE  /\ [Next]_vars /\ Assigned(x, y)
             /\ \A p \in Requests \ {r} : resv'[p] = resv[p]
    <2>1. [Next]_vars
        BY <1>1, <1>2 DEF Next, TaskStep
    <2>2. PICK done \in BOOLEAN : CreateTaskWithBillingReservation(r, q, done)
        BY <1>2
    <2> QED BY <1>1, <2>1, <2>2, CreateTaskShape DEF Becoming
<1>3. ASSUME NEW t \in SessionState, SameHold(s, t), t.delivered = s.delivered,
             y = x \/ Assigned(x, y),
             \/ t.pc = "ended" /\ y.bound
             \/ t.pc = "intent" /\ t.liabilityPending
      PROVE  Fits(r, t, y) /\ y.status # "absent"
    <2>1. y.status = x.status /\ (Unaided(y) => y = x) /\ x.status # "absent"
        BY <1>1, <1>3 DEF Assigned, Unaided, Fits, RowFits, Running
    <2>2. RowFits(t, y)
        BY <1>1, <1>3, <2>1 DEF Fits, RowFits, Unaided, SameHold, Early, Running
    <2>3. CallFits(t, y) /\ LiabilityFits(t, y)
        BY <1>3 DEF CallFits, LiabilityFits, OnRecord, Unaided
    <2> QED BY <1>3, <2>1, <2>2, <2>3 DEF Fits
<1>4. MaxCalls \in 0..MaxCalls
    BY SessionAssumption
<1>5. /\ ended \in SessionState /\ settle \in SessionState
    BY <1>1, <1>4, Zenon DEF SessionState
<1>6. /\ ended.pc = "ended" /\ SameHold(s, ended) /\ ended.delivered = s.delivered
      /\ settle.pc = "intent" /\ SameHold(s, settle) /\ settle.delivered = s.delivered
      /\ settle.liabilityPending = TRUE
    BY <1>1 DEF SessionState, SameHold
<1>7. CASE commit /\ Becomes(r, ended)
    <2>1. /\ [Next]_vars /\ Assigned(x, y) /\ \A p \in Requests \ {r} : resv'[p] = resv[p]
        BY <1>2, <1>7
    <2>2. OwnRow(r) /\ y.bound /\ Becomes(r, ended)
        BY <1>1, <1>7, <2>1 DEF OwnRow, Assigned
    <2> HIDE DEF ended
    <2>3. Fits(r, ended, y) /\ y.status # "absent"
        BY <1>3, <1>5, <1>6, <2>1, <2>2
    <2> QED BY <2>1, <2>2, <2>3, AnsweredOwn
<1>8. CASE (commit \/ UNCHANGED vars) /\ Becomes(r, settle)
    <2>1. /\ [Next]_vars /\ (y = x \/ Assigned(x, y)) /\ \A p \in Requests \ {r} : resv'[p] = resv[p]
        BY <1>2, <1>8, NothingTried
    <2>2. OwnRow(r) /\ Becomes(r, settle)
        BY <1>1, <1>8, <2>1 DEF OwnRow, Tried
    <2> HIDE DEF settle
    <2>3. Fits(r, settle, y) /\ y.status # "absent"
        BY <1>3, <1>5, <1>6, <2>1
    <2> QED BY <2>1, <2>2, <2>3, AnsweredOwn
<1> QED BY <1>7, <1>8 DEF BindTry

\* The session that goes on to charge another source.
LEMMA TryingFields ==
    ASSUME NEW s \in SessionState, NEW source \in {"wallet", "subscription"},
           NEW fallback \in {"none", "subscription", "overflow"}
    PROVE  LET t == Trying(s, source, fallback) IN
           /\ t \in SessionState /\ SameHold(s, t) /\ SameLiability(s, t)
           /\ t.preference = s.preference
           /\ t.pc = "preconsume" /\ t.source = source /\ t.fallback = fallback
<1> DEFINE t == Trying(s, source, fallback)
<1>1. t = [s EXCEPT !.pc = "preconsume", !.source = source, !.fallback = fallback]
    BY DEF Trying
<1> HIDE DEF t
<1>2. t \in SessionState
    BY <1>1, Zenon DEF SessionState
<1>3. /\ SameHold(s, t) /\ SameLiability(s, t) /\ t.preference = s.preference
      /\ t.pc = "preconsume" /\ t.source = source /\ t.fallback = fallback
    BY <1>1 DEF SessionState, SameHold, SameLiability
<1> QED BY <1>2, <1>3 DEF t

\* The session that gets no hold.
LEMMA RefusedFields ==
    ASSUME NEW s \in SessionState, NEW err \in Errors
    PROVE  LET t == Refused(s, err) IN
           /\ t \in SessionState /\ SameHold(s, t) /\ SameLiability(s, t)
           /\ t.preference = s.preference /\ t.pc = "ended" /\ t.code = err
<1> DEFINE t == Refused(s, err)
<1>1. t = [s EXCEPT !.pc = "ended", !.code = err]
    BY DEF Refused
<1> HIDE DEF t
<1>2. t \in SessionState
    BY <1>1, Zenon DEF SessionState
<1>3. /\ SameHold(s, t) /\ SameLiability(s, t) /\ t.preference = s.preference
      /\ t.pc = "ended" /\ t.code = err
    BY <1>1 DEF SessionState, SameHold, SameLiability
<1> QED BY <1>2, <1>3 DEF t

\* What NewBillingSession does after a refusal.
LEMMA AfterErrorFields ==
    ASSUME NEW s \in SessionState, NEW err \in Errors
    PROVE  LET t == AfterPreConsumeError(s, err) IN
           /\ t \in SessionState /\ SameHold(s, t) /\ SameLiability(s, t)
           /\ t.preference = s.preference
           /\ \/ /\ t.pc = "preconsume" /\ s.fallback = "subscription"
                 /\ t.source = "subscription" /\ t.fallback = "none" /\ err # "database"
              \/ t.pc = "overflow" /\ s.fallback = "overflow" /\ err # "database"
              \/ t.pc = "ended" /\ t.code = err
<1> DEFINE t == AfterPreConsumeError(s, err)
           over == [s EXCEPT !.pc = "overflow"]
<1>1. over \in SessionState
    BY Zenon DEF SessionState
<1>2. /\ SameHold(s, over) /\ SameLiability(s, over) /\ over.preference = s.preference
      /\ over.pc = "overflow"
    BY DEF SessionState, SameHold, SameLiability
<1>3. CASE err \in {"user_quota", "subscription_quota"} /\ s.fallback = "subscription"
    <2>1. t = Trying(s, "subscription", "none")
        BY <1>3 DEF AfterPreConsumeError
    <2> QED BY <1>3, <2>1, TryingFields
<1>4. CASE err \in {"user_quota", "subscription_quota"} /\ s.fallback = "overflow"
    <2>1. t = over
        BY <1>4 DEF AfterPreConsumeError
    <2> QED BY <1>1, <1>2, <1>4, <2>1
<1>5. CASE ~(err \in {"user_quota", "subscription_quota"} /\ s.fallback \in {"subscription", "overflow"})
    <2>1. t = Refused(s, err)
        BY <1>5 DEF AfterPreConsumeError
    <2> QED BY <2>1, RefusedFields
<1> QED BY <1>3, <1>4, <1>5

\* A session without a hold fits a row that does not exist.
LEMMA EarlyFits ==
    ASSUME NEW r, NEW s, NEW x, Fits(r, s, x), s.pc \in Early,
           NEW t \in SessionState, SameHold(s, t), SameLiability(s, t),
           t.pc \in Early \cup {"ended"}
    PROVE  Fits(r, t, x)
<1>1. x.status = "absent" /\ t.pc \notin {"bind", "mark", "settle", "refund", "open", "extend"} /\ ~t.delivered
    BY DEF Fits, RowFits, Early, SameLiability
<1>2. RowFits(t, x)
    BY <1>1 DEF Fits, RowFits, Unaided, SameHold, SameLiability, Early, Running
<1>3. CallFits(t, x) /\ LiabilityFits(t, x)
    BY <1>1 DEF CallFits, LiabilityFits, OnRecord, Unaided
<1> QED BY <1>1, <1>2, <1>3 DEF Fits

\* A step of a session that touches no row.
LEMMA IdleOwn ==
    ASSUME NEW r \in Requests, UNCHANGED vars, NEW t, Becomes(r, t), Fits(r, t, resv[r]),
           FundingFits(t, ActiveSubs(UserOf[r]))
    PROVE  OwnStep(r)
BY NothingTried DEF OwnStep, OwnRow

\* PreConsumeBillingReservation as NewBillingSession calls it.
LEMMA PreConsumeOwn ==
    ASSUME RowsInv, SessionInv, NEW r \in Requests, PreConsume(r)
    PROVE  OwnStep(r)
<1> DEFINE s == ses[r]
           x == resv[r]
           y == resv'[r]
           q == Estimate(r)
           err == PreConsumeErr(r, s.source, q)
           commit == IF s.source = "wallet" THEN PreConsumeWallet(r, q)
                                            ELSE PreConsumeSubscription(r, q)
           active == ActiveSubs(UserOf[r])
           open == [s EXCEPT !.pc = "open", !.preConsumedQuota = q]
<1>1. /\ CoreInv /\ x \in ReservationRow /\ s \in SessionState /\ Fits(r, s, x)
      /\ s.pc = "preconsume" /\ s.pc \in Early /\ FundingFits(s, active)
      /\ s.source \in {"wallet", "subscription"}
    BY SessionFacts, SessionFields DEF PreConsume, Early, SessionInv
<1>2. q \in Amounts /\ q \in 0..MaxInt
    <2>1. s.quota \in Amounts /\ s.quota \in 0..MaxInt
        BY <1>1, SessionFields
    <2> QED BY <2>1, SessionAssumption, SizeAssumption DEF Estimate, Larger
<1>3. ASSUME commit
      PROVE  /\ [Next]_vars /\ \A p \in Requests \ {r} : resv'[p] = resv[p]
             /\ Opened(y, s.source, q)
    <2>1. CASE s.source = "wallet"
        <3>1. PreConsumeWallet(r, q)
            BY <1>3, <2>1
        <3> HIDE DEF q
        <3>2. [Next]_vars
            BY <1>2, <3>1 DEF Next, RequestStep
        <3> QED BY <1>1, <1>2, <2>1, <3>1, <3>2, PreConsumeShape DEF Becoming
    <2>2. CASE s.source = "subscription"
        <3>1. PreConsumeSubscription(r, q)
            BY <1>3, <2>2
        <3> HIDE DEF q
        <3>2. [Next]_vars
            BY <1>2, <3>1 DEF Next, RequestStep
        <3> QED BY <1>1, <1>2, <2>2, <3>1, <3>2, PreConsumeShape DEF Becoming
    <2> QED BY <1>1, <2>1, <2>2
<1> HIDE DEF q, commit
<1>4. CASE commit /\ Becomes(r, open)
    <2>1. /\ [Next]_vars /\ \A p \in Requests \ {r} : resv'[p] = resv[p]
          /\ Opened(y, s.source, q) /\ Becomes(r, open)
        BY <1>3, <1>4
    <2>2. open \in SessionState
        BY <1>1, <1>2, Zenon DEF SessionState
    <2>3. /\ open.pc = "open" /\ open.preConsumedQuota = q /\ SameLiability(s, open)
          /\ open.settled = s.settled /\ open.refunded = s.refunded
        BY <1>1 DEF SessionState, SameLiability
    <2> HIDE DEF open
    <2>4. ~s.settled /\ ~s.refunded /\ ~s.delivered /\ ~s.liabilityPending
        BY <1>1 DEF Fits, RowFits
    <2>5. y.status = "reserved" /\ y.reserved = q /\ q <= q
        BY <1>2, <2>1, SizeAssumption DEF Opened
    <2>6. RowFits(open, y)
        BY <2>3, <2>4, <2>5 DEF RowFits, Early, Running
    <2>7. CallFits(open, y) /\ LiabilityFits(open, y)
        BY <2>3, <2>4 DEF CallFits, LiabilityFits, SameLiability
    <2>8. Fits(r, open, y)
        BY <2>2, <2>3, <2>6, <2>7 DEF Fits
    <2> QED BY <1>1, <2>1, <2>5, <2>8, AnsweredOwn DEF OwnRow
<1>5. CASE err # "ok" /\ UNCHANGED vars /\ Becomes(r, AfterPreConsumeError(s, err))
    <2>1. err \in Errors
        BY <1>1, <1>2, SessionErrors
    <2> HIDE DEF err
    <2> DEFINE t == AfterPreConsumeError(s, err)
    <2>2. /\ t \in SessionState /\ SameHold(s, t) /\ SameLiability(s, t)
          /\ t.preference = s.preference
          /\ \/ /\ t.pc = "preconsume" /\ s.fallback = "subscription"
                /\ t.source = "subscription" /\ t.fallback = "none"
             \/ t.pc = "overflow" /\ s.fallback = "overflow"
             \/ t.pc = "ended"
        BY <1>1, <2>1, AfterErrorFields
    <2>3. Becomes(r, t)
        BY <1>5
    <2> HIDE DEF t
    <2>4. Fits(r, t, x)
        BY <1>1, <2>2, EarlyFits DEF Early
    <2>5. FundingFits(t, active)
        BY <1>1, <2>2 DEF FundingFits
    <2> QED BY <1>5, <2>3, <2>4, <2>5, IdleOwn
<1>6. CASE (commit \/ UNCHANGED vars) /\ Becomes(r, AfterPreConsumeError(s, "database"))
    <2> DEFINE t == AfterPreConsumeError(s, "database")
    <2>1. /\ t \in SessionState /\ SameHold(s, t) /\ SameLiability(s, t)
          /\ t.pc = "ended" /\ t.code = "database"
        BY <1>1, AfterErrorFields DEF Errors
    <2>2. Becomes(r, t)
        BY <1>6
    <2> HIDE DEF t
    <2>3. CASE UNCHANGED vars
        <3>1. Fits(r, t, x)
            BY <1>1, <2>1, EarlyFits
        <3>2. FundingFits(t, active)
            BY <2>1 DEF FundingFits
        <3> QED BY <2>2, <2>3, <3>1, <3>2, IdleOwn
    <2>4. CASE commit
        <3>1. /\ [Next]_vars /\ \A p \in Requests \ {r} : resv'[p] = resv[p]
              /\ Opened(y, s.source, q)
            BY <1>3, <2>4
        <3>2. ~s.settled /\ ~s.refunded /\ s.preConsumedQuota = 0
            BY <1>1 DEF Fits, RowFits
        <3>3. y.status = "reserved" /\ y.reserved = q /\ 0 <= q
            BY <1>2, <3>1, SizeAssumption DEF Opened
        <3>4. RowFits(t, y)
            BY <2>1, <3>2, <3>3 DEF RowFits, SameHold, Early, Running
        <3>5. CallFits(t, y) /\ LiabilityFits(t, y)
            BY <2>1 DEF CallFits, LiabilityFits, OnRecord
        <3>6. Fits(r, t, y)
            BY <2>1, <3>4, <3>5 DEF Fits
        <3> QED BY <1>1, <2>2, <3>1, <3>3, <3>6, AnsweredOwn DEF OwnRow
    <2> QED BY <1>6, <2>3, <2>4
<1> QED BY <1>4, <1>5, <1>6 DEF PreConsume, commit, q

\* UserActiveSubscriptionsAllowWalletOverflow, before the wallet is charged.
LEMMA OverflowOwn ==
    ASSUME RowsInv, SessionInv, NEW r \in Requests, WalletOverflow(r)
    PROVE  OwnStep(r)
<1> DEFINE s == ses[r]
           active == ActiveSubs(UserOf[r])
<1>1. /\ s \in SessionState /\ Fits(r, s, resv[r]) /\ s.pc = "overflow" /\ s.pc \in Early
      /\ s.preference = "subscription_first"
    BY SessionFacts DEF WalletOverflow, Early, SessionInv, FundingFits
<1>2. ASSUME NEW err \in Errors
      PROVE  Fits(r, Refused(s, err), resv[r]) /\ FundingFits(Refused(s, err), active)
    <2> DEFINE t == Refused(s, err)
    <2>1. t \in SessionState /\ SameHold(s, t) /\ SameLiability(s, t) /\ t.pc = "ended"
        BY <1>1, RefusedFields
    <2> HIDE DEF t
    <2>2. Fits(r, t, resv[r])
        BY <1>1, <2>1, EarlyFits
    <2>3. FundingFits(t, active)
        BY <2>1 DEF FundingFits
    <2> QED BY <2>2, <2>3 DEF t
<1>3. ASSUME active \cap StrictSubs = {}
      PROVE  LET t == Trying(s, "wallet", "none") IN Fits(r, t, resv[r]) /\ FundingFits(t, active)
    <2> DEFINE t == Trying(s, "wallet", "none")
    <2>1. /\ t \in SessionState /\ SameHold(s, t) /\ SameLiability(s, t)
          /\ t.preference = s.preference /\ t.pc = "preconsume" /\ t.source = "wallet"
          /\ t.fallback = "none"
        BY <1>1, TryingFields
    <2> HIDE DEF t
    <2>2. Fits(r, t, resv[r])
        BY <1>1, <2>1, EarlyFits DEF Early
    <2>3. FundingFits(t, active)
        BY <1>1, <1>3, <2>1 DEF FundingFits
    <2> QED BY <2>2, <2>3 DEF t
<1>4. {"database", "subscription_quota"} \subseteq Errors
    BY DEF Errors, BillingSettlementFailures
<1>5. /\ UNCHANGED vars
      /\ \/ active \cap StrictSubs = {} /\ Becomes(r, Trying(s, "wallet", "none"))
         \/ Becomes(r, Refused(s, "subscription_quota")) \/ Becomes(r, Refused(s, "database"))
    BY DEF WalletOverflow
<1> QED BY <1>2, <1>3, <1>4, <1>5, IdleOwn

\* NewBillingSession: the first source to charge.
LEMMA NewOwn ==
    ASSUME RowsInv, SessionInv, NEW r \in Requests, NEW q \in Amounts, NewBillingSession(r, q)
    PROVE  OwnStep(r)
<1> DEFINE s == [ses[r] EXCEPT !.quota = q]
           x == resv[r]
           active == ActiveSubs(UserOf[r])
<1>1. ses[r] \in SessionState /\ Fits(r, ses[r], x) /\ ses[r].pc = "new" /\ ses[r].pc \in Early
    BY SessionFacts DEF NewBillingSession, Early
<1>2. s \in SessionState
    BY <1>1, Zenon DEF SessionState
<1>3. SameHold(ses[r], s) /\ SameLiability(ses[r], s) /\ s.pc = "new"
    BY <1>1 DEF SessionState, SameHold, SameLiability
<1>4. s.preference \in {"subscription_only", "wallet_only", "wallet_first", "subscription_first"}
    BY <1>2, SessionFields, SessionAssumption
<1>5. /\ UNCHANGED vars
      /\ \/ s.preference = "subscription_only" /\ Becomes(r, Trying(s, "subscription", "none"))
         \/ s.preference = "wallet_only" /\ Becomes(r, Trying(s, "wallet", "none"))
         \/ s.preference = "wallet_first" /\ Becomes(r, Trying(s, "wallet", "subscription"))
         \/ /\ s.preference = "subscription_first" /\ active = {}
            /\ Becomes(r, Trying(s, "wallet", "none"))
         \/ /\ s.preference = "subscription_first"
            /\ Becomes(r, Trying(s, "subscription", "overflow"))
         \/ Becomes(r, Refused(s, "database"))
    <2> HIDE DEF s
    <2>1. /\ UNCHANGED vars
          /\ \/ Becomes(r,
                  CASE s.preference = "subscription_only" -> Trying(s, "subscription", "none")
                    [] s.preference = "wallet_only" -> Trying(s, "wallet", "none")
                    [] s.preference = "wallet_first" -> Trying(s, "wallet", "subscription")
                    [] OTHER -> IF active = {} THEN Trying(s, "wallet", "none")
                                               ELSE Trying(s, "subscription", "overflow"))
             \/ Becomes(r, Refused(s, "database"))
        BY DEF NewBillingSession, s
    <2> QED BY <1>4, <2>1
<1> HIDE DEF s
<1>6. Fits(r, s, x) /\ s.pc \in Early
    BY <1>1, <1>2, <1>3, EarlyFits DEF Early
<1>7. ASSUME NEW source \in {"wallet", "subscription"},
             NEW fallback \in {"none", "subscription", "overflow"},
             fallback = "subscription" => s.preference = "wallet_first",
             fallback = "overflow" => s.preference = "subscription_first",
             source = "subscription" => s.preference # "wallet_only",
             source = "wallet" =>
               /\ s.preference # "subscription_only"
               /\ s.preference = "subscription_first" => active \cap StrictSubs = {},
             Becomes(r, Trying(s, source, fallback)), UNCHANGED vars
      PROVE  OwnStep(r)
    <2> DEFINE t == Trying(s, source, fallback)
    <2>1. /\ t \in SessionState /\ SameHold(s, t) /\ SameLiability(s, t)
          /\ t.preference = s.preference /\ t.pc = "preconsume" /\ t.source = source
          /\ t.fallback = fallback
        BY <1>2, TryingFields
    <2>2. Becomes(r, t)
        BY <1>7
    <2> HIDE DEF t
    <2>3. Fits(r, t, x)
        BY <1>6, <2>1, EarlyFits DEF Early
    <2>4. FundingFits(t, active)
        BY <1>7, <2>1 DEF FundingFits
    <2> QED BY <1>7, <2>2, <2>3, <2>4, IdleOwn
<1>8. CASE Becomes(r, Refused(s, "database"))
    <2> DEFINE t == Refused(s, "database")
    <2>1. t \in SessionState /\ SameHold(s, t) /\ SameLiability(s, t) /\ t.pc = "ended"
        BY <1>2, RefusedFields DEF Errors
    <2>2. Becomes(r, t)
        BY <1>8
    <2> HIDE DEF t
    <2>3. Fits(r, t, x)
        BY <1>6, <2>1, EarlyFits
    <2>4. FundingFits(t, active)
        BY <2>1 DEF FundingFits
    <2> QED BY <1>5, <2>2, <2>3, <2>4, IdleOwn
<1> QED BY <1>5, <1>7, <1>8

\* The session that starts a call.
LEMMA CalledFields ==
    ASSUME NEW r \in Requests, ses[r] \in SessionState, Idle(r), NEW q \in Amounts,
           NEW pc \in {"extend", "intent", "bind"}
    PROVE  LET t == Called(r, pc, q) IN
           /\ t \in SessionState /\ t.pc = pc /\ SameHold(ses[r], t)
           /\ SameLiability(ses[r], t) /\ t.code = ses[r].code
<1> DEFINE t == Called(r, pc, q)
           calls == ses[r].calls + 1
<1>1. calls \in 0..MaxCalls /\ 0 \in 0..MaxAttempts
    BY SessionFields, SessionAssumption DEF Idle
<1>2. t = [ses[r] EXCEPT !.pc = pc, !.quota = q, !.calls = calls, !.tries = 0]
    BY DEF Called
<1> HIDE DEF t, calls
<1>3. t \in SessionState
    BY <1>1, <1>2, Zenon DEF SessionState
<1>4. t.pc = pc /\ SameHold(ses[r], t) /\ SameLiability(ses[r], t) /\ t.code = ses[r].code
    BY <1>2 DEF SessionState, SameHold, SameLiability
<1> QED BY <1>3, <1>4 DEF t

\* A session between two calls that starts one, ends or crashes fits its row.
LEMMA CallOwn ==
    ASSUME RowsInv, SessionInv, NEW r \in Requests, NEW t \in SessionState, UNCHANGED vars,
           Becomes(r, t), ses[r].pc \in Running \cup Early, ses[r].pc # "new",
           ses[r].pc \in Early => t.pc = "crashed",
           t.pc \notin Early \cup {"mark", "settle"},
           SameHold(ses[r], t), LiabilityFits(t, resv[r]), t.pc = "bind" => r \in TaskRequests
    PROVE  OwnStep(r)
<1>1. Fits(r, ses[r], resv[r])
    BY SessionFacts
<1>2. RowFits(t, resv[r])
    BY <1>1 DEF Fits, RowFits, SameHold, Early, Running
<1>3. CallFits(t, resv[r])
    BY DEF CallFits
<1>4. Fits(r, t, resv[r])
    BY <1>2, <1>3 DEF Fits
<1>5. FundingFits(t, ActiveSubs(UserOf[r]))
    BY DEF FundingFits, Early
<1> QED BY <1>4, <1>5, IdleOwn

\* The calls of the request handler, its end and its crash.
LEMMA HandlerOwn ==
    ASSUME RowsInv, SessionInv, NEW r \in Requests, NEW q \in Amounts,
           Reserve(r, q) \/ Settle(r, q) \/ Bind(r, q) \/ Refund(r) \/ End(r) \/ Crash(r)
    PROVE  OwnStep(r)
<1> DEFINE s == ses[r]
           x == resv[r]
<1>1. s \in SessionState /\ Fits(r, s, x) /\ 0 \in 0..MaxAttempts
    BY SessionFacts, SessionAssumption
<1>2. s.pc = "open" => s.pc \in Running \cup Early /\ s.pc # "new" /\ s.pc \notin Early
    BY DEF Running, Early
<1>3. CASE Reserve(r, q)
    <2> DEFINE t == Called(r, "extend", q)
    <2>1. /\ t \in SessionState /\ t.pc = "extend" /\ SameHold(s, t)
          /\ SameLiability(s, t) /\ t.code = s.code
        BY <1>1, <1>3, CalledFields DEF Reserve
    <2>2. Becomes(r, t) /\ UNCHANGED vars /\ s.pc = "open"
        BY <1>3 DEF Reserve, Idle
    <2> HIDE DEF t
    <2>3. LiabilityFits(t, x)
        BY <1>1, <2>1, <2>2
        DEF Fits, LiabilityFits, OnRecord, SameHold, SameLiability
    <2> QED BY <1>2, <2>1, <2>2, <2>3, CallOwn DEF Early
<1>4. CASE Settle(r, q)
    <2> DEFINE c == Called(r, "intent", q)
               t == [c EXCEPT !.liabilityPending = TRUE, !.delivered = TRUE]
    <2>1. c \in SessionState /\ c.pc = "intent" /\ SameHold(s, c)
        BY <1>1, <1>4, CalledFields DEF Settle
    <2>2. Becomes(r, t) /\ UNCHANGED vars /\ s.pc = "open"
        BY <1>4 DEF Settle, Idle
    <2> HIDE DEF c
    <2>3. t \in SessionState
        BY <2>1, Zenon DEF SessionState
    <2>4. t.pc = "intent" /\ SameHold(s, t) /\ t.liabilityPending = TRUE
        BY <2>1 DEF SessionState, SameHold
    <2> HIDE DEF t
    <2>5. LiabilityFits(t, x)
        BY <2>4 DEF LiabilityFits
    <2> QED BY <1>2, <2>2, <2>3, <2>4, <2>5, CallOwn DEF Early
<1>5. CASE Bind(r, q)
    <2> DEFINE c == Called(r, "bind", q)
               t == [c EXCEPT !.delivered = TRUE]
    <2>1. c \in SessionState /\ c.pc = "bind" /\ SameHold(s, c)
        BY <1>1, <1>5, CalledFields DEF Bind
    <2>2. Becomes(r, t) /\ UNCHANGED vars /\ s.pc = "open" /\ r \in TaskRequests
        BY <1>5 DEF Bind, Idle
    <2> HIDE DEF c
    <2>3. t \in SessionState
        BY <2>1, Zenon DEF SessionState
    <2>4. t.pc = "bind" /\ SameHold(s, t)
        BY <2>1 DEF SessionState, SameHold
    <2> HIDE DEF t
    <2>5. LiabilityFits(t, x)
        BY <2>4 DEF LiabilityFits
    <2> QED BY <1>2, <2>2, <2>3, <2>4, <2>5, CallOwn DEF Early
<1>6. CASE Refund(r)
    <2> DEFINE t == [s EXCEPT !.pc = "refund", !.tries = 0]
    <2>1. Becomes(r, t) /\ UNCHANGED vars /\ s.pc = "open" /\ NeedsRefund(s)
        BY <1>6 DEF Refund
    <2>2. t \in SessionState
        BY <1>1, Zenon DEF SessionState
    <2>3. t.pc = "refund" /\ SameHold(s, t) /\ SameLiability(s, t)
        BY <1>1 DEF SessionState, SameHold, SameLiability
    <2> HIDE DEF t
    <2>4. LiabilityFits(t, x)
        BY <1>1, <2>1, <2>3 DEF Fits, LiabilityFits, NeedsRefund, SameLiability
    <2> QED BY <1>2, <2>1, <2>2, <2>3, <2>4, CallOwn DEF Early
<1>7. CASE End(r)
    <2> DEFINE t == [s EXCEPT !.pc = "ended"]
    <2>1. Becomes(r, t) /\ UNCHANGED vars /\ s.pc = "open" /\ ~NeedsRefund(s)
        BY <1>7 DEF End
    <2>2. t \in SessionState
        BY <1>1, Zenon DEF SessionState
    <2>3. t.pc = "ended" /\ SameHold(s, t) /\ SameLiability(s, t) /\ t.code = s.code
        BY <1>1 DEF SessionState, SameHold, SameLiability
    <2> HIDE DEF t
    <2>4. OnRecord(s, x)
        BY <1>1, <2>1 DEF Fits, RowFits, LiabilityFits, NeedsRefund, OnRecord, Unaided
    <2>5. LiabilityFits(t, x)
        BY <2>3, <2>4 DEF LiabilityFits, OnRecord
    <2> QED BY <1>2, <2>1, <2>2, <2>3, <2>5, CallOwn DEF Early
<1>8. CASE Crash(r)
    <2> DEFINE t == [s EXCEPT !.pc = "crashed"]
    <2>1. Becomes(r, t) /\ UNCHANGED vars /\ s.pc \notin {"new", "ended", "crashed"}
        BY <1>8 DEF Crash
    <2>2. t \in SessionState
        BY <1>1, Zenon DEF SessionState
    <2>3. t.pc = "crashed" /\ SameHold(s, t)
        BY <1>1 DEF SessionState, SameHold
    <2>4. s.pc \in Running \cup Early
        BY <1>1, <2>1 DEF SessionState, Running, Early
    <2> HIDE DEF t
    <2>5. LiabilityFits(t, x)
        BY <2>3 DEF LiabilityFits
    <2> QED BY <2>1, <2>2, <2>3, <2>4, <2>5, CallOwn DEF Early
<1> QED BY <1>3, <1>4, <1>5, <1>6, <1>7, <1>8

\* Every step of a session.
LEMMA SessionOwn ==
    ASSUME RowsInv, SessionInv, NEW r \in Requests, TryStep(r) \/ CallStep(r)
    PROVE  OwnStep(r)
<1>1. CASE TryStep(r)
    BY <1>1, PreConsumeOwn, OverflowOwn, ExtendOwn, AdvanceOwn, MarkOwn, IntentOwn, SettleOwn,
       RefundOwn, BindOwn
    DEF TryStep
<1>2. CASE CallStep(r)
    <2>1. 1 \in Amounts
        BY SessionAssumption
    <2> QED BY <1>2, <2>1, NewOwn, HandlerOwn DEF CallStep
<1> QED BY <1>1, <1>2

-----------------------------------------------------------------------------
(* The steps of the others                                                 *)

\* What the administrator, the poller and the reconciler make of a row: they
\* finish it, move it on while a task is bound to it, or mark it.
Drifts(x, y) ==
    \/ y = x
    \/ x.status = "reserved" /\ y.status \in {"settled", "refunded"}
    \/ x.status = "reserved" /\ y.status = "reserved" /\ x.bound /\ y.bound
    \/ Marked(x, y)

\* A session fits the row that the others leave.
LEMMA DriftFits ==
    ASSUME NEW r, NEW s, NEW x, NEW y, Fits(r, s, x), Drifts(x, y)
    PROVE  Fits(r, s, y)
<1>1. CASE y = x
    BY <1>1
<1>2. CASE x.status = "reserved" /\ y.status \in {"settled", "refunded"}
    BY <1>2 DEF Fits, RowFits, CallFits, LiabilityFits, OnRecord, Unaided
<1>3. CASE x.status = "reserved" /\ y.status = "reserved" /\ x.bound /\ y.bound
    BY <1>3 DEF Fits, RowFits, CallFits, LiabilityFits, OnRecord, Unaided
<1>4. CASE Marked(x, y)
    <2>1. /\ y.status = x.status /\ y.bound = x.bound /\ y.pending = x.pending
          /\ y.target = x.target /\ y.reserved = x.reserved
        BY <1>4 DEF Marked, SameTask, SameIntent
    <2> QED BY <2>1 DEF Fits, RowFits, CallFits, LiabilityFits, OnRecord, Unaided
<1> QED BY <1>1, <1>2, <1>3, <1>4 DEF Drifts

\* A task that is settled, refunded or given a target is bound.
LEMMA BoundDrifts ==
    ASSUME CoreInv, NEW r \in Requests, NEW q \in Amounts,
           \/ PrepareTaskBillingReservationSettlement(r, q)
           \/ SettleTaskBillingReservation(r, q)
           \/ RefundTaskBillingReservation(r)
    PROVE  resv[r].bound /\ \E y : Becoming(r, y) /\ Drifts(resv[r], y)
<1>0. q \in 0..MaxInt
    BY SizeAssumption
<1>1. CASE PrepareTaskBillingReservationSettlement(r, q)
    <2>1. resv[r].bound
        BY <1>1 DEF PrepareTaskBillingReservationSettlement, PrepareTaskErr
    <2>2. PICK y : Becoming(r, y) /\ Intended(resv[r], y, q)
        BY <1>0, <1>1, IntentShape DEF PrepareTaskBillingReservationSettlement
    <2> QED BY <2>1, <2>2 DEF Drifts, Intended, SameTask
<1>2. CASE SettleTaskBillingReservation(r, q)
    <2>1. resv[r].bound
        BY <1>2 DEF SettleTaskBillingReservation, SettleTaskErr
    <2>2. PICK y : Becoming(r, y) /\ Charged(resv[r], y, q)
        BY <1>0, <1>2, SettleShape DEF SettleTaskBillingReservation
    <2> QED BY <2>1, <2>2 DEF Drifts, Charged
<1>3. CASE RefundTaskBillingReservation(r)
    <2>1. resv[r].bound
        BY <1>3 DEF RefundTaskBillingReservation
    <2>2. PICK y : Becoming(r, y) /\ GivenBack(resv[r], y)
        BY <1>3, RefundShape DEF RefundTaskBillingReservation
    <2> QED BY <2>1, <2>2 DEF Drifts, GivenBack
<1> QED BY <1>1, <1>2, <1>3

\* The reconciler settles, refunds, prepares or reviews, and only for tasks
\* does it do more than review.
LEMMA ReconcileDrifts ==
    ASSUME RowsInv, NEW r \in Requests, ReconcileStaleBillingReservation(r)
    PROVE  Next /\ \E y : Becoming(r, y) /\ Drifts(resv[r], y)
<1>1. CoreInv /\ AskedRow(r, resv[r]) /\ AskedTask(task[r])
    BY DEF RowsInv, LedgerInv, AskedInv
<1>2. ASSUME RecordBillingReconcileReview(r)
      PROVE  Next /\ \E y : Becoming(r, y) /\ Drifts(resv[r], y)
    BY <1>1, <1>2, ReviewShape DEF Next, RequestStep, Drifts
<1>3. ASSUME NEW q \in Amounts,
             \/ PrepareTaskBillingReservationSettlement(r, q)
             \/ SettleTaskBillingReservation(r, q)
             \/ RefundTaskBillingReservation(r)
      PROVE  Next /\ \E y : Becoming(r, y) /\ Drifts(resv[r], y)
    <2>1. resv[r].bound /\ \E y : Becoming(r, y) /\ Drifts(resv[r], y)
        BY <1>1, <1>3, BoundDrifts
    <2>2. r \in TaskRequests
        BY <1>1, <2>1 DEF AskedRow
    <2> QED BY <1>3, <2>1, <2>2 DEF Next, TaskStep
<1>4. 1 \in Amounts
    BY SessionAssumption
<1>5. CASE resv[r].bound /\ task[r].status = "success"
    <2>1. PICK q \in ReconcileTargets(r) :
            \/ RecordBillingReconcileReview(r)
            \/ PrepareTaskBillingReservationSettlement(r, q)
            \/ SettleTaskBillingReservation(r, q)
        BY <1>5 DEF ReconcileStaleBillingReservation
    <2>2. q \in Amounts
        BY <1>1, <1>5, <2>1 DEF ReconcileTargets, AskedRow, AskedTask
    <2> QED BY <1>2, <1>3, <2>1, <2>2
<1>6. CASE ~(resv[r].bound /\ task[r].status = "success")
    <2>1. RefundTaskBillingReservation(r) \/ RecordBillingReconcileReview(r)
        BY <1>6 DEF ReconcileStaleBillingReservation
    <2> QED BY <1>2, <1>3, <1>4, <2>1
<1> QED BY <1>5, <1>6

\* The poller moves only the rows its tasks are bound to.
LEMMA PollerDrifts ==
    ASSUME RowsInv, NEW r \in TaskRequests, PollerStep(r)
    PROVE  Next /\ (resv' = resv \/ \E y : Becoming(r, y) /\ Drifts(resv[r], y))
<1>1. CoreInv /\ r \in Requests /\ 1 \in Amounts
    BY IdentityAssumption, SessionAssumption DEF RowsInv, LedgerInv
<1>2. ASSUME NEW q \in Amounts, TaskSucceeds(r, q) \/ SettleTaskAgain(r, q) \/ TaskFails(r)
      PROVE  Next /\ resv' = resv
    <2>1. resv' = resv
        BY <1>2 DEF TaskSucceeds, SettleTaskAgain, TaskFails
    <2> QED BY <1>2, <2>1 DEF Next, TaskStep
<1>3. ASSUME NEW q \in Amounts,
             \/ PrepareTaskBillingReservationSettlement(r, q)
             \/ SettleTaskBillingReservation(r, q)
             \/ RefundTaskBillingReservation(r)
      PROVE  Next /\ \E y : Becoming(r, y) /\ Drifts(resv[r], y)
    <2>1. \E y : Becoming(r, y) /\ Drifts(resv[r], y)
        BY <1>1, <1>3, BoundDrifts
    <2> QED BY <1>3, <2>1 DEF Next, TaskStep
<1>4. ASSUME NEW q \in Amounts, MarkTaskShortfall(r, q)
      PROVE  Next /\ \E y : Becoming(r, y) /\ Drifts(resv[r], y)
    <2> DEFINE c == SettleTaskErr(r, q)
    <2>1. c \in FailureCodes /\ MarkBillingReservationSettlementShortfall(r, q, c)
        BY <1>4, SessionAssumption DEF MarkTaskShortfall, Deterministic
    <2>2. resv[r].bound
        <3>1. c # "conflict"
            BY <2>1, SessionAssumption DEF BillingSettlementFailures
        <3> QED BY <3>1 DEF SettleTaskErr
    <2>3. PICK y : Becoming(r, y) /\ Intended(resv[r], y, q)
        BY <1>1, <2>1, MarkShape, SizeAssumption
    <2>4. Drifts(resv[r], y)
        BY <2>2, <2>3 DEF Drifts, Intended, SameTask
    <2>5. Next
        BY <1>1, <2>1 DEF Next, RequestStep
    <2> QED BY <2>3, <2>4, <2>5
<1> QED BY <1>1, <1>2, <1>3, <1>4 DEF PollerStep

\* Whatever the others do is a transaction, and every row drifts.
LEMMA OthersDrift ==
    ASSUME RowsInv, OthersStep
    PROVE  Next /\ \A r \in Requests : Drifts(resv[r], resv'[r])
<1>1. CoreInv /\ Amounts \subseteq 0..MaxInt /\ TaskRequests \subseteq Requests
    BY SizeAssumption, IdentityAssumption DEF RowsInv, LedgerInv
<1>2. ASSUME NEW r \in Requests, NEW y, Becoming(r, y), Drifts(resv[r], y)
      PROVE  \A p \in Requests : Drifts(resv[p], resv'[p])
    BY <1>2 DEF Becoming, Drifts
<1>3. ASSUME resv' = resv PROVE \A p \in Requests : Drifts(resv[p], resv'[p])
    BY <1>3 DEF Drifts
<1>4. ASSUME NEW r \in Requests, NEW q \in Amounts, ResolveByAdminSettle(r, q, resv[r].version)
      PROVE  Next /\ \E y : Becoming(r, y) /\ Drifts(resv[r], y)
    <2>1. PICK y : Becoming(r, y) /\ Charged(resv[r], y, q)
        BY <1>1, <1>4, SettleShape DEF ResolveByAdminSettle
    <2> QED BY <1>4, <2>1 DEF Next, RequestStep, Drifts, Charged
<1>5. ASSUME NEW r \in Requests, ResolveByAdminRefund(r, resv[r].version)
      PROVE  Next /\ \E y : Becoming(r, y) /\ Drifts(resv[r], y)
    <2>1. PICK y : Becoming(r, y) /\ GivenBack(resv[r], y)
        BY <1>1, <1>5, RefundShape DEF ResolveByAdminRefund
    <2> QED BY <1>5, <2>1 DEF Next, RequestStep, Drifts, GivenBack
<1>6. ASSUME AccountStep PROVE Next /\ resv' = resv
    <2>1. resv' = resv
        BY <1>6
        DEF AccountStep, IncreaseUserQuota, DecreaseUserQuota, OverrideUserQuota,
            AddPaymentDebt, ResolvePaymentDebt, ManageUserDisable, EnableUserIfNoPaymentFreeze,
            DeleteToken, PeriodElapses, ResetDueSubscription, AdminResetSubscription,
            EndSubscription, CleanupSubscriptionPreConsumeRecord
    <2> QED BY <1>6, <2>1 DEF Next
<1> QED BY <1>1, <1>2, <1>3, <1>4, <1>5, <1>6, ReconcileDrifts, PollerDrifts DEF OthersStep

-----------------------------------------------------------------------------
(* The inductive invariant of the sessions and their rows                  *)

\* Initially there is no row, and every session is new.
LEMMA InitSession == SessionInit => Init /\ RowsInv /\ SessionInv
<1> SUFFICES ASSUME SessionInit PROVE Init /\ RowsInv /\ SessionInv
    OBVIOUS
<1>1. Init /\ RowsInv
    BY InitRows DEF SessionInit
<1>2. PICK preference \in [Requests -> Preferences] : ses = [r \in Requests |->
         [pc |-> "new", preference |-> preference[r],
          source |-> "wallet", fallback |-> "none", quota |-> 1,
          code |-> "ok", tries |-> 0, calls |-> 0, preConsumedQuota |-> 0,
          settled |-> FALSE, refunded |-> FALSE, liabilityPending |-> FALSE,
          delivered |-> FALSE]]
    BY DEF SessionInit
<1>3. 1 \in Amounts /\ 0 \in 0..MaxAttempts /\ 0 \in 0..MaxCalls /\ 0 \in 0..MaxInt
    BY SessionAssumption, SizeAssumption
<1>4. ASSUME NEW r \in Requests
      PROVE  /\ ses[r] \in SessionState /\ Fits(r, ses[r], resv[r])
             /\ FundingFits(ses[r], ActiveSubs(UserOf[r]))
    <2> DEFINE s == ses[r]
    <2>1. s = [pc |-> "new", preference |-> preference[r],
               source |-> "wallet", fallback |-> "none", quota |-> 1,
               code |-> "ok", tries |-> 0, calls |-> 0, preConsumedQuota |-> 0,
               settled |-> FALSE, refunded |-> FALSE, liabilityPending |-> FALSE,
               delivered |-> FALSE]
        BY <1>2
    <2>2. preference[r] \in Preferences /\ "ok" \in Errors
        BY <1>2 DEF Errors
    <2>3. resv[r].status = "absent"
        BY <1>1 DEF Init, AbsentRow
    <2> HIDE DEF s
    <2>4. s \in SessionState
        BY <1>3, <2>1, <2>2 DEF SessionState
    <2>5. /\ s.pc = "new" /\ s.preConsumedQuota = 0 /\ ~s.settled /\ ~s.refunded
          /\ ~s.liabilityPending /\ ~s.delivered
        BY <2>1
    <2>6. Fits(r, s, resv[r])
        BY <2>3, <2>4, <2>5
        DEF Fits, RowFits, CallFits, LiabilityFits, OnRecord, Unaided, Running
    <2>7. FundingFits(s, ActiveSubs(UserOf[r]))
        BY <2>5 DEF FundingFits
    <2> QED BY <2>4, <2>6, <2>7 DEF s
<1>5. ses \in [Requests -> SessionState]
    BY <1>2, <1>4
<1> QED BY <1>1, <1>4, <1>5 DEF SessionInv

\* No transaction revives a subscription.
LEMMA SubscriptionsEnd ==
    ASSUME RowsInv, [Next]_vars, NEW u
    PROVE  ActiveSubs(u)' \subseteq ActiveSubs(u)
<1>1. \A p \in Subs : sub'[p].active => sub[p].active
    BY StepAges DEF RowsInv, LedgerInv, UsageInv, Ages
<1> QED BY <1>1 DEF ActiveSubs

\* So a source that was allowed stays allowed.
LEMMA FundingDrifts ==
    ASSUME NEW s, NEW A, NEW B, B \subseteq A, FundingFits(s, A)
    PROVE  FundingFits(s, B)
BY DEF FundingFits

\* What every step of the whole system is to the rows and the sessions.
LEMMA SessionStep ==
    ASSUME RowsInv, SessionInv, [SessionNext]_allVars
    PROVE  /\ [Next]_vars
           /\ \A r \in Requests :
                 \/ OwnRow(r)
                 \/ ses'[r] = ses[r] /\ Drifts(resv[r], resv'[r])
           /\ ses' \in [Requests -> SessionState]
           /\ \A r \in Requests : /\ Fits(r, ses'[r], resv'[r])
                                  /\ FundingFits(ses'[r], ActiveSubs(UserOf[r]))
<1>1. /\ ses \in [Requests -> SessionState]
      /\ \A r \in Requests : /\ Fits(r, ses[r], resv[r])
                             /\ FundingFits(ses[r], ActiveSubs(UserOf[r]))
    BY DEF SessionInv
<1>2. ASSUME NEW p \in Requests, TryStep(p) \/ CallStep(p)
      PROVE  /\ [Next]_vars
             /\ \A r \in Requests :
                   \/ OwnRow(r)
                   \/ ses'[r] = ses[r] /\ Drifts(resv[r], resv'[r])
             /\ ses' \in [Requests -> SessionState]
             /\ \A r \in Requests : /\ Fits(r, ses'[r], resv'[r])
                                    /\ FundingFits(ses'[r], ActiveSubs(UserOf[r]))
    <2>1. OwnStep(p)
        BY <1>2, SessionOwn
    <2>2. PICK t : /\ Becomes(p, t) /\ Fits(p, t, resv'[p])
                   /\ FundingFits(t, ActiveSubs(UserOf[p]))
        BY <2>1 DEF OwnStep
    <2>3. t \in SessionState
        BY <2>2 DEF Fits
    <2>4. /\ ses' \in [Requests -> SessionState] /\ ses'[p] = t
          /\ \A r \in Requests \ {p} : ses'[r] = ses[r]
        BY <1>1, <2>2, <2>3 DEF Becomes
    <2>5. [Next]_vars /\ OwnRow(p) /\ \A r \in Requests \ {p} : resv'[r] = resv[r]
        BY <2>1 DEF OwnStep
    <2>6. ASSUME NEW r \in Requests
          PROVE  /\ OwnRow(r) \/ (ses'[r] = ses[r] /\ Drifts(resv[r], resv'[r]))
                 /\ Fits(r, ses'[r], resv'[r])
                 /\ FundingFits(ses'[r], ActiveSubs(UserOf[r]))
        <3>1. CASE r = p
            BY <2>2, <2>4, <2>5, <3>1
        <3>2. CASE r # p
            BY <1>1, <2>4, <2>5, <3>2 DEF Drifts
        <3> QED BY <3>1, <3>2
    <2> QED BY <2>4, <2>5, <2>6
<1>3. CASE OthersStep /\ UNCHANGED ses
    BY <1>1, <1>3, OthersDrift, DriftFits
<1>4. CASE UNCHANGED allVars
    <2>1. UNCHANGED vars /\ ses' = ses /\ resv' = resv
        BY <1>4 DEF allVars, vars
    <2> QED BY <1>1, <2>1 DEF Drifts
<1> QED BY <1>2, <1>3, <1>4 DEF SessionNext

\* Every step preserves what is known of the rows and of the sessions.
LEMMA SessionInductive ==
    RowsInv /\ SessionInv /\ [SessionNext]_allVars => RowsInv' /\ SessionInv'
<1> SUFFICES ASSUME RowsInv, SessionInv, [SessionNext]_allVars PROVE RowsInv' /\ SessionInv'
    OBVIOUS
<1>1. RowsInv' /\ [Next]_vars
    BY SessionStep, StepRows
<1>2. ASSUME NEW r \in Requests PROVE FundingFits(ses[r], ActiveSubs(UserOf[r]))'
    <2>1. ActiveSubs(UserOf[r])' \subseteq ActiveSubs(UserOf[r])
        BY <1>1, SubscriptionsEnd
    <2>2. FundingFits(ses'[r], ActiveSubs(UserOf[r]))
        BY SessionStep
    <2>3. FundingFits(ses'[r], ActiveSubs(UserOf[r])')
        BY <2>1, <2>2, FundingDrifts
    <2> QED BY <2>3 DEF FundingFits
<1>3. ASSUME NEW r \in Requests PROVE Fits(r, ses[r], resv[r])'
    <2>1. Fits(r, ses'[r], resv'[r])
        BY SessionStep
    <2> QED BY <2>1
        DEF Fits, RowFits, CallFits, LiabilityFits, OnRecord, Unaided, SessionState
<1>4. ses' \in [Requests -> SessionState]
    BY SessionStep
<1> QED BY <1>1, <1>2, <1>3, <1>4 DEF SessionInv, SessionState

\* The inductive invariant of the sessions: what each remembers fits its row,
\* whatever the other sessions, the poller, the reconciler, the administrator,
\* transient errors and lost answers did in between.
THEOREM SessionsCorrect == SessionSpec => [](RowsInv /\ SessionInv)
<1>1. SessionInit => RowsInv /\ SessionInv
    BY InitSession
<1> QED BY <1>1, SessionInductive, PTL DEF SessionSpec

\* The fields of a session keep their types: no quota, error code, count of
\* tries or count of calls of billing_session.go leaves its range.
THEOREM SessionTypesCorrect == SessionSpec => []SessionTypeOK
<1>1. SessionInv => SessionTypeOK
    BY DEF SessionInv, SessionTypeOK
<1> QED BY <1>1, SessionsCorrect, PTL

\* The sessions, the poller and the reconciler use the reservations only
\* through their transactions: everything proved of Spec holds of them, too.
THEOREM SessionsRefineReservations == SessionSpec => Spec
<1>1. SessionInit => Init
    BY InitSession
<1>2. RowsInv /\ SessionInv /\ [SessionNext]_allVars => [Next]_vars
    BY SessionStep
<1> QED BY <1>1, <1>2, SessionsCorrect, PTL DEF SessionSpec, Spec

\* What a session remembers (settled, refunded, the pre-consumed quota) is what
\* the database holds, although answers get lost and others change the row.
THEOREM SessionsMatchTheirRows == SessionSpec => []SessionMatchesRow
<1>1. SessionInv => SessionMatchesRow
    BY DEF SessionInv, SessionMatchesRow, Fits, RowFits, Unaided
<1> QED BY <1>1, SessionsCorrect, PTL

\* A request that returned leaves its reservation closed, bound, or with its
\* liability on record, unless the database failed it or a refund overflows.
THEOREM EndedSessionsAreAccounted == SessionSpec => []EndedIsAccounted
<1>1. SessionInv => EndedIsAccounted
    BY DEF SessionInv, EndedIsAccounted, Fits, LiabilityFits, OnRecord, Unaided
<1> QED BY <1>1, SessionsCorrect, PTL

\* Once usage is delivered, no step of the session gives the reservation back:
\* Refund is called only while neither a Settle nor a failed Reserve happened.
THEOREM DeliveredUsageAlwaysKept == SessionSpec => DeliveredUsageIsKept
<1>1. ASSUME RowsInv, SessionInv, [SessionNext]_allVars
      PROVE  \A r \in Requests :
                ses[r].delivered /\ BecomesFinal(r, "refunded") => ses'[r] = ses[r]
    <2> SUFFICES ASSUME NEW r \in Requests, ses[r].delivered, BecomesFinal(r, "refunded"),
                        OwnRow(r)
                 PROVE  FALSE
        BY <1>1, SessionStep
    <2>1. ses[r].pc # "refund"
        BY <1>1 DEF SessionInv, Fits, LiabilityFits
    <2> QED BY <2>1
        DEF OwnRow, Tried, BecomesFinal, Opened, Extended, Intended, Charged, Assigned, SameTask
<1> QED BY <1>1, SessionsCorrect, PTL DEF SessionSpec, DeliveredUsageIsKept

\* A session settles an unbound reservation only at the target that an earlier
\* transaction persisted.
THEOREM SettlementAlwaysRealisesIntent == SessionSpec => SettlementRealisesIntent
<1>1. ASSUME RowsInv, SessionInv, [SessionNext]_allVars
      PROVE  \A r \in Requests :
                ses'[r] # ses[r] /\ ~resv[r].bound /\ BecomesFinal(r, "settled") =>
                    resv[r].pending /\ resv'[r].settled = resv[r].target
    <2> SUFFICES ASSUME NEW r \in Requests, ~resv[r].bound, BecomesFinal(r, "settled"),
                        OwnRow(r)
                 PROVE  resv[r].pending /\ resv'[r].settled = resv[r].target
        BY <1>1, SessionStep
    <2>1. ses[r].pc = "settle" /\ Charged(resv[r], resv'[r], ses[r].quota)
        BY DEF OwnRow, Tried, BecomesFinal, Opened, Extended, Intended, GivenBack, Assigned,
               SameTask
    <2>2. resv[r].pending /\ resv[r].target = ses[r].quota
        BY <1>1, <2>1 DEF SessionInv, Fits, CallFits, Unaided, BecomesFinal
    <2> QED BY <2>1, <2>2 DEF Charged
<1> QED BY <1>1, SessionsCorrect, PTL DEF SessionSpec, SettlementRealisesIntent

\* A reservation is opened only from a source the user's preference and active
\* subscriptions allow at that moment, through all fallbacks.
THEOREM FundingAlwaysFollowsPreference == SessionSpec => FundingFollowsPreference
<1> DEFINE Allowed(r) ==
              IF resv'[r].funding = "subscription" THEN ses[r].preference # "wallet_only"
              ELSE CASE ses[r].preference = "subscription_only" -> FALSE
                     [] ses[r].preference = "subscription_first" ->
                          ActiveSubs(UserOf[r]) \cap StrictSubs = {}
                     [] OTHER -> TRUE
<1>1. ASSUME RowsInv, SessionInv, [SessionNext]_allVars
      PROVE  \A r \in Requests :
                resv[r].status = "absent" /\ resv'[r].status = "reserved" => Allowed(r)
    <2> SUFFICES ASSUME NEW r \in Requests, resv[r].status = "absent",
                        resv'[r].status = "reserved"
                 PROVE  Allowed(r)
        OBVIOUS
    <2>1. OwnRow(r)
        BY <1>1, SessionStep DEF Drifts, Marked
    <2>2. ses[r].pc = "preconsume" /\ resv'[r].funding = ses[r].source
        BY <2>1
        DEF OwnRow, Tried, Opened, Extended, Intended, Charged, GivenBack, Assigned
    <2>3. FundingFits(ses[r], ActiveSubs(UserOf[r])) /\ ses[r] \in SessionState
        BY <1>1 DEF SessionInv
    <2>4. ses[r].source \in {"wallet", "subscription"}
        BY <2>3, SessionFields
    <2> QED BY <2>2, <2>3, <2>4 DEF FundingFits
<1> QED BY <1>1, SessionsCorrect, PTL DEF SessionSpec, FundingFollowsPreference

\* RefundBillingReservation of an open reservation is never refused for a
\* missing record, an exhausted counter or a used ledger entry: only a wallet
\* or a token that would overflow refuses it.
THEOREM RefundIsOnlyRefusedByOverflow ==
    Spec => [](\A r \in Requests : resv[r].status = "reserved" => RefundErr(r) \in {"ok", "overflow"})
<1>1. Init => RowsInv
    BY InitRows
<1>2. RowsInv => \A r \in Requests :
                    resv[r].status = "reserved" => RefundErr(r) \in {"ok", "overflow"}
    BY RefundRefused
<1> QED BY <1>1, <1>2, StepRows, PTL DEF Spec

=============================================================================
