----------------------- MODULE PaymentSettlementProofs -----------------------
(***************************************************************************)
(* What holds of a settled order for every history of events a provider may *)
(* report, delivered in any order and any number of times to any number of  *)
(* requests, for every amount and quota.                                    *)
(*                                                                          *)
(* Every step posts the money it moves, in one new entry; that the entry is *)
(* new rests on who has posted already, and so on the rows of the events    *)
(* and their lock.  The sums of the ledger then balance by SetSums.         *)
(*                                                                          *)
(* The last part relates the amounts of the order to the events: as long as *)
(* no event is in doubt, the order counts the largest refund and the last   *)
(* state of every dispute among the events applied.                         *)
(***************************************************************************)
EXTENDS PaymentSettlement, SetSums

-----------------------------------------------------------------------------
(* The inductive invariants                                                *)

EntryTypes == {"credit", "refund_reversal", "dispute_reversal", "reversal_restored",
               "admin_external_refund", "debt_resolved"}

\* The order, its projection, its ledger, its debt and the buyer's wallet.
OrderRow == [status : OrderStatuses, settled : BOOLEAN, bound : BOOLEAN,
             refunded : 0 .. Expected, disputed : 0 .. Expected,
             reversed : 0 .. Expected, reversedQuota : Nat]
Db == [order : OrderRow, topUp : OrderStatuses \cup {"success"},
       ledger : SUBSET [by : Int, type : EntryTypes, quota : Int],
       debt : [status : {"none", "open", "resolved"}, quota : Nat],
       wallet : 0 .. MaxQuota]

EventRow == [status : {"none", "received", "failed", "processed", "manual_review", "dismissed"},
             matched : BOOLEAN]
Request == [event : E \cup {0}, replays : SUBSET E,
            at : {"idle", "received", "query", "replay", "unmatched", "record"}]

TypeInv ==
    /\ history \in Seq(Event)
    /\ rows \in [E -> EventRow]
    /\ db \in Db
    /\ rejected \in BOOLEAN /\ debtEvent \in BOOLEAN
    /\ handlers \in [Handlers -> Request]
    /\ \A h \in Handlers : ~At(h, "idle") => handlers[h].event \in E
    /\ spent \in Int

\* The order is settled exactly when one credit is in the ledger; every status
\* that implies a credit, an open debt included, goes with it, and so does the
\* projection.
Entitled(s) ==
    /\ Granted(s) <=> s.order.settled
    /\ \A k, l \in Credits(s) : k = l
    /\ s.order.status \in {"fulfilled", "debt", "disputed"} => s.order.settled
    /\ s.order.status = "pending" => ~s.order.settled
    /\ s.debt.status = "open" => s.order.settled
    /\ IF s.order.settled
       THEN s.topUp \in {"success", "refund_pending", "refunded", "disputed", "debt"}
       ELSE s.topUp # "success"

EntitlementInv == Entitled(db) /\ (rejected => ~db.order.settled)

\* A row that a transaction looks at without its order is not final, and no
\* second transaction looks at it.
RowsLocked ==
    \A h \in Handlers : At(h, "unmatched") =>
        /\ ~Final(handlers[h].event)
        /\ \A g \in Handlers \ {h} :
             At(g, "unmatched") => handlers[g].event # handlers[h].event

\* Who has posted to the ledger will not post again: an event whose row is final
\* and matched, a refund of an administrator that the order already counts, the
\* one resolution of the debt.
PostersDone ==
    \A l \in db.ledger :
        /\ l.by > 0 => l.by \in E /\ Final(l.by) /\ rows[l.by].matched
        /\ l.by < 0 => -l.by <= db.order.refunded
        /\ l.by = 0 => debtEvent

LedgerInv == RowsLocked /\ PostersDone

\* What the user has and owes; what the order says was credited; the entries of
\* the ledger that stand for money.
NetOf(s) == s.wallet - s.debt.quota
CreditedOf(s) == (IF s.order.settled THEN CreditQuota ELSE 0) - s.order.reversedQuota
MovesOf(s) == {l \in s.ledger : l.type # "admin_external_refund"}

\* The entries that note a refund an administrator confirmed.
NotesOf(s) == {l \in s.ledger : l.type = "admin_external_refund"}

\* Two states of the order with the same amounts.
SameAmounts(s, r) ==
    /\ r.order.refunded = s.order.refunded /\ r.order.disputed = s.order.disputed
    /\ r.order.reversed = s.order.reversed /\ r.order.reversedQuota = s.order.reversedQuota

\* The credit is reversed by what is refunded and disputed.
Reversed(o) ==
    /\ o.reversed = Smaller(Expected, o.refunded + o.disputed)
    /\ o.reversedQuota = ReversedQuota(o.reversed)

\* The rows r differ from s by what is posted in one new entry, or by no money.
Change(s, r) ==
    /\ s.ledger \subseteq r.ledger
    /\ \/ MovesOf(r) = MovesOf(s) /\ NetOf(r) = NetOf(s) /\ CreditedOf(r) = CreditedOf(s)
       \/ \E l \in MovesOf(r) \ MovesOf(s) :
            /\ MovesOf(r) = MovesOf(s) \cup {l}
            /\ NetOf(r) = NetOf(s) + l.quota
            /\ CreditedOf(r) = IF l.type = "debt_resolved" THEN CreditedOf(s)
                                                            ELSE CreditedOf(s) + l.quota

\* No entry that money stands behind is ever changed or removed, and every step
\* that changes what the user has, has spent and owes, or what the order says
\* was credited and reversed, posts exactly that in one new entry.
StepIsPosted ==
    [][/\ db.ledger \subseteq db'.ledger
       /\ \/ /\ MovesOf(db') = MovesOf(db)
             /\ NetOf(db') + spent' = NetOf(db) + spent
             /\ CreditedOf(db') = CreditedOf(db)
          \/ \E l \in MovesOf(db') \ MovesOf(db) :
               /\ MovesOf(db') = MovesOf(db) \cup {l}
               /\ NetOf(db') + spent' = NetOf(db) + spent + l.quota
               /\ CreditedOf(db') = IF l.type = "debt_resolved" THEN CreditedOf(db)
                                    ELSE CreditedOf(db) + l.quota]_vars

-----------------------------------------------------------------------------
(* Operators on the rows of a settlement                                   *)

\* The smaller of two numbers.
LEMMA SmallerFacts ==
    ASSUME NEW a \in Nat, NEW b \in Nat
    PROVE  Smaller(a, b) \in Nat /\ Smaller(a, b) <= a /\ Smaller(a, b) <= b
BY DEF Smaller

\* The quota that an amount stands for is a natural number (decimal.Round).
LEMMA ReversedQuotaType ==
    ASSUME NEW amount \in 0 .. Expected PROVE ReversedQuota(amount) \in Nat
<1>1. 2 * CreditQuota * amount + Expected \in Nat /\ 2 * Expected \in Nat \ {0}
    BY AmountsAssumption
<1>2. ASSUME NEW a \in Nat, NEW b \in Nat \ {0} PROVE a \div b \in Nat
    OBVIOUS
<1> QED BY <1>1, <1>2 DEF ReversedQuota

\* The fields of the rows.
LEMMA DbFields ==
    ASSUME NEW s \in Db
    PROVE  /\ s.order \in OrderRow /\ s.topUp \in OrderStatuses \cup {"success"}
           /\ s.ledger \subseteq [by : Int, type : EntryTypes, quota : Int]
           /\ s.debt \in [status : {"none", "open", "resolved"}, quota : Nat]
           /\ s.wallet \in 0 .. MaxQuota /\ s.wallet \in Nat
           /\ s.order.status \in OrderStatuses /\ s.order.settled \in BOOLEAN
           /\ s.order.refunded \in 0 .. Expected /\ s.order.disputed \in 0 .. Expected
           /\ s.order.reversed \in 0 .. Expected /\ s.order.reversedQuota \in Nat
           /\ s.debt.quota \in Nat /\ s.debt.status \in {"none", "open", "resolved"}
<1>1. /\ s.order \in OrderRow /\ s.topUp \in OrderStatuses \cup {"success"}
      /\ s.ledger \subseteq [by : Int, type : EntryTypes, quota : Int]
      /\ s.debt \in [status : {"none", "open", "resolved"}, quota : Nat]
      /\ s.wallet \in 0 .. MaxQuota
    BY DEF Db
<1>2. s.wallet \in Nat
    BY <1>1, AmountsAssumption
<1> QED BY <1>1, <1>2 DEF OrderRow

\* The projection follows the order.
LEMMA SyncedFacts ==
    ASSUME NEW s \in Db
    PROVE  /\ Synced(s) \in Db
           /\ Synced(s).order = s.order /\ Synced(s).ledger = s.ledger
           /\ Synced(s).debt = s.debt /\ Synced(s).wallet = s.wallet
           /\ Synced(s).topUp = IF s.order.status = "fulfilled" THEN "success"
                                                                ELSE s.order.status
<1>1. s.order.status \in OrderStatuses
    BY DEF Db, OrderRow
<1> QED BY <1>1 DEF Synced, Db

\* A posting adds its entry when nobody has posted under its key.
LEMMA PostedFacts ==
    ASSUME NEW s \in Db, NEW by \in Int, NEW type \in EntryTypes, NEW quota \in Int
    PROVE  LET entry == [by |-> by, type |-> type, quota |-> quota]
               p == Posted(s, by, type, quota)
           IN /\ p \in Db
              /\ p.order = s.order /\ p.topUp = s.topUp /\ p.debt = s.debt /\ p.wallet = s.wallet
              /\ s.ledger \subseteq p.ledger /\ p.ledger \subseteq s.ledger \cup {entry}
              /\ ~(\E l \in s.ledger : l.by = by /\ l.type = type) =>
                   entry \notin s.ledger /\ p.ledger = s.ledger \cup {entry}
<1> DEFINE entry == [by |-> by, type |-> type, quota |-> quota]
           p == Posted(s, by, type, quota)
<1>0. entry \in [by : Int, type : EntryTypes, quota : Int] /\ entry.by = by /\ entry.type = type
    OBVIOUS
<1>1. CASE \E l \in s.ledger : l.by = by /\ l.type = type
    <2>1. p = s
        BY <1>1 DEF Posted
    <2> QED BY <1>1, <2>1
<1>2. CASE ~(\E l \in s.ledger : l.by = by /\ l.type = type)
    <2>1. p = [s EXCEPT !.ledger = s.ledger \cup {entry}]
        BY <1>2 DEF Posted
    <2>2. entry \notin s.ledger
        BY <1>0, <1>2
    <2> HIDE DEF entry, p
    <2>3. /\ p \in Db /\ p.ledger = s.ledger \cup {entry}
          /\ p.order = s.order /\ p.topUp = s.topUp /\ p.debt = s.debt /\ p.wallet = s.wallet
        BY <1>0, <2>1 DEF Db
    <2> QED BY <2>2, <2>3 DEF entry, p
<1> QED BY <1>1, <1>2

\* What a reversal takes, from the wallet or as a debt, is what is reversed.
LEMMA RecoveredFacts ==
    ASSUME NEW s \in Db, NEW quota \in Nat
    PROVE  LET r == Recovered(s, quota)
           IN /\ r \in Db
              /\ r.order = s.order /\ r.topUp = s.topUp /\ r.ledger = s.ledger
              /\ r.wallet - r.debt.quota = s.wallet - s.debt.quota - quota
<1> DEFINE recovered == Smaller(quota, s.wallet)
           debt == quota - recovered
           newDebt == IF debt = 0 THEN s.debt
                      ELSE [status |-> "open", quota |-> s.debt.quota + debt]
           r == [s EXCEPT !.wallet = s.wallet - recovered, !.debt = newDebt]
<1>1. recovered \in Nat /\ recovered <= quota /\ recovered <= s.wallet
    BY DbFields, SmallerFacts
<1>2. Recovered(s, quota) = r
    BY DEF Recovered
<1>3. s.wallet - recovered \in 0 .. MaxQuota
    BY <1>1, DbFields, AmountsAssumption
<1>4. debt \in Nat /\ quota = recovered + debt
    BY <1>1
<1>5. /\ newDebt \in [status : {"none", "open", "resolved"}, quota : Nat]
      /\ newDebt.quota = s.debt.quota + debt
    BY <1>4, DbFields
<1> HIDE DEF recovered, debt, newDebt
<1>6. /\ r \in Db /\ r.order = s.order /\ r.topUp = s.topUp /\ r.ledger = s.ledger
      /\ r.wallet = s.wallet - recovered /\ r.debt = newDebt
    BY <1>3, <1>5 DEF Db
<1>7. r.wallet - r.debt.quota = s.wallet - s.debt.quota - quota
    BY <1>1, <1>4, <1>5, <1>6, DbFields
<1> QED BY <1>2, <1>6, <1>7

\* What a restored reversal gives back pays the debt first.
LEMMA RestoredFacts ==
    ASSUME NEW s \in Db, NEW quota \in Nat, Restored(s, quota).wallet <= MaxQuota
    PROVE  LET r == Restored(s, quota)
           IN /\ r \in Db
              /\ r.order = s.order /\ r.topUp = s.topUp /\ r.ledger = s.ledger
              /\ r.wallet - r.debt.quota = s.wallet - s.debt.quota + quota
<1> DEFINE resolved == Smaller(quota, s.debt.quota)
           left == s.debt.quota - resolved
           newDebt == [status |-> IF s.debt.status # "none" /\ left = 0
                                  THEN "resolved" ELSE s.debt.status,
                       quota |-> left]
           r == [s EXCEPT !.wallet = s.wallet + quota - resolved, !.debt = newDebt]
<1>1. resolved \in Nat /\ resolved <= quota /\ resolved <= s.debt.quota
    BY DbFields, SmallerFacts
<1>2. Restored(s, quota) = r
    BY DEF Restored
<1>3. r.wallet = s.wallet + quota - resolved
    BY DEF Db
<1>4. s.wallet + quota - resolved \in 0 .. MaxQuota
    <2>1. s.wallet + quota - resolved <= MaxQuota
        BY <1>2, <1>3
    <2> QED BY <1>1, <2>1, DbFields, AmountsAssumption
<1>5. left \in Nat
    BY <1>1, DbFields
<1>6. newDebt \in [status : {"none", "open", "resolved"}, quota : Nat] /\ newDebt.quota = left
    BY <1>5, DbFields
<1>7. left = s.debt.quota - resolved
    OBVIOUS
<1> HIDE DEF resolved, left, newDebt
<1>8. /\ r \in Db /\ r.order = s.order /\ r.topUp = s.topUp /\ r.ledger = s.ledger
      /\ r.debt = newDebt
    BY <1>4, <1>6 DEF Db
<1>9. r.wallet - r.debt.quota = s.wallet - s.debt.quota + quota
    BY <1>1, <1>3, <1>5, <1>6, <1>7, <1>8, DbFields
<1> QED BY <1>2, <1>8, <1>9

ReversalTypes == {"refund_reversal", "dispute_reversal", "reversal_restored"}

\* The money part of reconcilePaymentReversalTx.
Moved(s, by, disputed, delta) ==
    CASE delta > 0 ->
           Posted(Recovered(s, delta), by,
                  IF disputed > 0 THEN "dispute_reversal" ELSE "refund_reversal", -delta)
      [] delta < 0 -> Posted(Restored(s, -delta), by, "reversal_restored", -delta)
      [] OTHER -> s

\* What r has moved since s, and posted under one new entry of by.
Balanced(s, r, by) ==
    \/ /\ r.ledger = s.ledger
       /\ r.wallet - r.debt.quota = s.wallet - s.debt.quota
       /\ r.order.reversedQuota = s.order.reversedQuota
    \/ \E l \in r.ledger :
         /\ l \notin s.ledger /\ l.by = by /\ l.type \in ReversalTypes
         /\ r.ledger = s.ledger \cup {l}
         /\ r.wallet - r.debt.quota = s.wallet - s.debt.quota + l.quota
         /\ r.order.reversedQuota = s.order.reversedQuota - l.quota

\* m posts one entry more than s.
PostsOne(s, m, by, quota) ==
    \E l \in m.ledger : /\ l \notin s.ledger /\ l.by = by /\ l.type \in ReversalTypes
                        /\ l.quota = quota
                        /\ m.ledger = s.ledger \cup {l}

\* The wallet a reversal leaves does not depend on who reverses.
LEMMA MovedWallet ==
    ASSUME NEW s, NEW by, NEW disputed, NEW delta \in Int
    PROVE  /\ delta > 0 => /\ Moved(s, by, disputed, delta).wallet = Recovered(s, delta).wallet
                           /\ Moved(s, by, disputed, delta).wallet = Moved(s, 0, disputed, delta).wallet
           /\ delta < 0 => Moved(s, by, disputed, delta).wallet = Restored(s, -delta).wallet
           /\ delta = 0 => Moved(s, by, disputed, delta) = s
           /\ Moved(s, by, disputed, delta).wallet = Moved(s, 0, disputed, delta).wallet
<1>1. ASSUME NEW t, NEW type, NEW quota, NEW b PROVE Posted(t, b, type, quota).wallet = t.wallet
    BY DEF Posted
<1>2. CASE delta > 0
    <2>1. ~(delta < 0) /\ delta # 0
        BY <1>2
    <2>2. \A b : Moved(s, b, disputed, delta).wallet = Recovered(s, delta).wallet
        BY <1>1, <1>2, <2>1 DEF Moved
    <2> QED BY <2>1, <2>2
<1>3. CASE delta < 0
    <2>1. ~(delta > 0) /\ delta # 0
        BY <1>3
    <2>2. \A b : Moved(s, b, disputed, delta).wallet = Restored(s, -delta).wallet
        BY <1>1, <1>3, <2>1 DEF Moved
    <2> QED BY <2>1, <2>2
<1>4. CASE delta = 0
    <2>1. ~(delta > 0) /\ ~(delta < 0)
        BY <1>4
    <2> QED BY <1>4, <2>1 DEF Moved
<1> QED BY <1>2, <1>3, <1>4

\* The money part: well typed, and balanced up to the order's own columns.
LEMMA MovedFacts ==
    ASSUME NEW s \in Db, NEW by \in Int, NEW disputed \in Nat, NEW delta \in Int,
           Moved(s, by, disputed, delta).wallet <= MaxQuota,
           ~(\E l \in s.ledger : l.by = by /\ l.type \in ReversalTypes)
    PROVE  LET m == Moved(s, by, disputed, delta)
           IN /\ m \in Db /\ m.order = s.order /\ m.topUp = s.topUp
              /\ \/ delta = 0 /\ m = s
                 \/ /\ PostsOne(s, m, by, -delta)
                    /\ m.wallet - m.debt.quota = s.wallet - s.debt.quota - delta
<1> DEFINE m == Moved(s, by, disputed, delta)
<1>1. CASE delta > 0
    <2> DEFINE t == Recovered(s, delta)
               type == IF disputed > 0 THEN "dispute_reversal" ELSE "refund_reversal"
               entry == [by |-> by, type |-> type, quota |-> -delta]
    <2>0. delta \in Nat
        BY <1>1
    <2>1. /\ t \in Db /\ t.order = s.order /\ t.topUp = s.topUp /\ t.ledger = s.ledger
          /\ t.wallet - t.debt.quota = s.wallet - s.debt.quota - delta
        BY <2>0, RecoveredFacts
    <2>2. m = Posted(t, by, type, -delta)
        BY <1>1 DEF Moved
    <2>3. type \in EntryTypes /\ type \in ReversalTypes /\ -delta \in Int
        BY DEF EntryTypes, ReversalTypes
    <2>4. entry.by = by /\ entry.type = type /\ entry.quota = -delta
        OBVIOUS
    <2>5. ~(\E l \in t.ledger : l.by = by /\ l.type = type)
        BY <2>1, <2>3
    <2>6. /\ m \in Db /\ m.order = t.order /\ m.topUp = t.topUp /\ m.debt = t.debt
          /\ m.wallet = t.wallet /\ entry \notin t.ledger /\ m.ledger = t.ledger \cup {entry}
        <3> HIDE DEF t, type, m
        <3> QED BY <2>1, <2>2, <2>3, <2>5, PostedFacts
    <2> HIDE DEF t, type, m, entry
    <2> QED BY <2>1, <2>3, <2>4, <2>6 DEF m, PostsOne
<1>2. CASE delta < 0
    <2> DEFINE t == Restored(s, -delta)
               entry == [by |-> by, type |-> "reversal_restored", quota |-> -delta]
    <2>0. -delta \in Nat /\ -delta \in Int
        BY <1>2
    <2>1. /\ t \in Db /\ t.order = s.order /\ t.topUp = s.topUp /\ t.ledger = s.ledger
          /\ t.wallet - t.debt.quota = s.wallet - s.debt.quota - delta
        <3>1. t.wallet <= MaxQuota
            BY <1>2, MovedWallet
        <3>2. /\ t \in Db /\ t.order = s.order /\ t.topUp = s.topUp /\ t.ledger = s.ledger
              /\ t.wallet - t.debt.quota = s.wallet - s.debt.quota + (-delta)
            BY <2>0, <3>1, RestoredFacts
        <3>3. s.wallet - s.debt.quota + (-delta) = s.wallet - s.debt.quota - delta
            BY DbFields
        <3> QED BY <3>2, <3>3
    <2>2. m = Posted(t, by, "reversal_restored", -delta)
        BY <1>2 DEF Moved
    <2>3. "reversal_restored" \in EntryTypes /\ "reversal_restored" \in ReversalTypes
        BY DEF EntryTypes, ReversalTypes
    <2>4. entry.by = by /\ entry.type = "reversal_restored" /\ entry.quota = -delta
        OBVIOUS
    <2>5. ~(\E l \in t.ledger : l.by = by /\ l.type = "reversal_restored")
        BY <2>1, <2>3
    <2>6. /\ m \in Db /\ m.order = t.order /\ m.topUp = t.topUp /\ m.debt = t.debt
          /\ m.wallet = t.wallet /\ entry \notin t.ledger /\ m.ledger = t.ledger \cup {entry}
        <3> HIDE DEF t, m
        <3> QED BY <2>0, <2>1, <2>2, <2>3, <2>5, PostedFacts
    <2> HIDE DEF t, m, entry
    <2> QED BY <2>1, <2>3, <2>4, <2>6 DEF m, PostsOne
<1>3. CASE delta = 0
    BY <1>3, MovedWallet
<1> QED BY <1>1, <1>2, <1>3

\* The status an order with these amounts gets.
LEMMA ReversalStatusFacts ==
    ASSUME NEW o \in OrderRow, NEW debt
    PROVE  ReversalStatus(o, debt) \in {"fulfilled", "debt", "disputed", "refunded", "refund_pending"}
<1>1. o.reversed \in Nat /\ o.disputed \in Nat
    BY AmountsAssumption DEF OrderRow
<1>2. CASE o.reversed = 0
    BY <1>2 DEF ReversalStatus
<1>3. CASE o.reversed > 0 /\ debt.status = "open"
    BY <1>3, <1>1 DEF ReversalStatus
<1>4. CASE o.reversed > 0 /\ debt.status # "open" /\ o.disputed > 0
    BY <1>4, <1>1 DEF ReversalStatus
<1>5. CASE o.reversed > 0 /\ debt.status # "open" /\ o.disputed = 0
    BY <1>5, <1>1 DEF ReversalStatus
<1> QED BY <1>1, <1>2, <1>3, <1>4, <1>5

\* reconcilePaymentReversalTx, for an order that passes its checks: the order is
\* brought to the amounts, nothing else of it changes, and what is moved is posted.
LEMMA ReconciledFacts ==
    ASSUME NEW s \in Db, NEW by \in Int, NEW refunded, NEW disputed,
           ~CannotReverse(s, refunded, disputed),
           ~(\E l \in s.ledger : l.by = by /\ l.type \in ReversalTypes)
    PROVE  LET r == Reconciled(s, by, refunded, disputed)
           IN /\ r \in Db
              /\ r.order.settled = s.order.settled /\ r.order.refunded = refunded
              /\ r.order.disputed = disputed
              /\ r.order.reversed = Smaller(Expected, refunded + disputed)
              /\ r.order.reversedQuota = ReversedQuota(r.order.reversed)
              /\ r.order.status \in {"fulfilled", "debt", "disputed", "refunded", "refund_pending"}
              /\ r.topUp = IF r.order.status = "fulfilled" THEN "success" ELSE r.order.status
              /\ s.ledger \subseteq r.ledger
              /\ \A l \in r.ledger \ s.ledger : l.by = by /\ l.type \in ReversalTypes
              /\ Balanced(s, r, by)
<1> DEFINE target == Smaller(Expected, refunded + disputed)
           quota == ReversedQuota(target)
           delta == quota - s.order.reversedQuota
           m == Moved(s, by, disputed, delta)
           order == [s.order EXCEPT !.refunded = refunded, !.disputed = disputed,
                                    !.reversed = target, !.reversedQuota = quota]
           final == [order EXCEPT !.status = ReversalStatus(order, m.debt)]
           r == Synced([m EXCEPT !.order = final])
<1>1. refunded \in 0 .. Expected /\ disputed \in 0 .. Expected /\ disputed \in Nat
    BY AmountsAssumption DEF CannotReverse
<1>2. target \in 0 .. Expected
    BY <1>1, AmountsAssumption DEF Smaller
<1>3. quota \in Nat
    BY <1>2, ReversedQuotaType
<1>4. delta \in Int
    BY <1>3, DbFields
<1>5. Reconciled(s, by, refunded, disputed) = r
    BY DEF Reconciled, Moved
<1>6. /\ order \in OrderRow /\ order.settled = s.order.settled /\ order.refunded = refunded
      /\ order.disputed = disputed /\ order.reversed = target /\ order.reversedQuota = quota
    <2>1. s.order \in OrderRow
        BY DbFields
    <2> HIDE DEF target, quota
    <2> QED BY <1>1, <1>2, <1>3, <2>1 DEF OrderRow
<1>7. /\ final \in OrderRow /\ final.settled = s.order.settled /\ final.refunded = refunded
      /\ final.disputed = disputed /\ final.reversed = target /\ final.reversedQuota = quota
      /\ final.status \in {"fulfilled", "debt", "disputed", "refunded", "refund_pending"}
    <2>1. ReversalStatus(order, m.debt)
            \in {"fulfilled", "debt", "disputed", "refunded", "refund_pending"}
        <3> HIDE DEF order, m
        <3> QED BY <1>6, ReversalStatusFacts
    <2> HIDE DEF order, m, quota
    <2> QED BY <1>6, <2>1 DEF OrderRow, OrderStatuses
<1>8. m.wallet <= MaxQuota
    <2> DEFINE z == Moved(s, 0, disputed, delta)
               zfinal == [order EXCEPT !.status = ReversalStatus(order, z.debt)]
    <2>1. Reconciled(s, 0, refunded, disputed) = Synced([z EXCEPT !.order = zfinal])
        BY DEF Reconciled, Moved
    <2>2. Synced([z EXCEPT !.order = zfinal]).wallet = z.wallet
        BY DEF Synced
    <2>3. ~(z.wallet > MaxQuota)
        BY <2>1, <2>2 DEF CannotReverse
    <2>4. m.wallet = z.wallet
        BY <1>4, MovedWallet
    <2>5. z.wallet \in Int
        <3> HIDE DEF delta
        <3>1. CASE delta > 0
            <4>1. Recovered(s, delta) \in Db
                BY <1>4, <3>1, RecoveredFacts
            <4> QED BY <1>4, <3>1, <4>1, MovedWallet, DbFields
        <3>2. CASE delta < 0
            <4>1. Smaller(-delta, s.debt.quota) \in Int
                BY <1>4, <3>2, DbFields, SmallerFacts
            <4>2. Restored(s, -delta).wallet = s.wallet + (-delta) - Smaller(-delta, s.debt.quota)
                BY DEF Restored, Db
            <4>3. Restored(s, -delta).wallet \in Int
                BY <1>4, <4>1, <4>2, DbFields
            <4> QED BY <1>4, <3>2, <4>3, MovedWallet
        <3>3. CASE delta = 0
            BY <1>4, <3>3, MovedWallet, DbFields
        <3> QED BY <1>4, <3>1, <3>2, <3>3
    <2> HIDE DEF z
    <2> QED BY <2>3, <2>4, <2>5, AmountsAssumption
<1>9. /\ m \in Db /\ m.order = s.order /\ m.topUp = s.topUp
      /\ \/ delta = 0 /\ m = s
         \/ /\ PostsOne(s, m, by, -delta)
            /\ m.wallet - m.debt.quota = s.wallet - s.debt.quota - delta
    <2>1. Moved(s, by, disputed, delta).wallet <= MaxQuota
        BY <1>8
    <2> HIDE DEF delta
    <2>2. m = Moved(s, by, disputed, delta)
        OBVIOUS
    <2> HIDE DEF m
    <2> QED BY <1>1, <1>4, <2>1, <2>2, MovedFacts
<1> DEFINE n == [m EXCEPT !.order = final]
<1>10. /\ n \in Db /\ n.order = final /\ n.ledger = m.ledger /\ n.debt = m.debt
       /\ n.wallet = m.wallet
    <2> HIDE DEF m, final
    <2> QED BY <1>7, <1>9 DEF Db
<1>11. /\ r \in Db /\ r.order = final /\ r.ledger = m.ledger /\ r.debt = m.debt
       /\ r.wallet = m.wallet
       /\ r.topUp = IF final.status = "fulfilled" THEN "success" ELSE final.status
    <2>1. r = Synced(n)
        OBVIOUS
    <2> HIDE DEF n, r
    <2> QED BY <1>10, <2>1, SyncedFacts
<1>12. delta = quota - s.order.reversedQuota
    OBVIOUS
<1> HIDE DEF target, quota, delta, m, order, final, n
<1>13. Balanced(s, r, by)
    <2>1. CASE delta = 0 /\ m = s
        <3>1. quota = s.order.reversedQuota
            BY <1>3, <1>12, <2>1, DbFields
        <3> HIDE DEF r
        <3> QED BY <1>7, <1>11, <2>1, <3>1 DEF Balanced
    <2>2. CASE /\ PostsOne(s, m, by, -delta)
               /\ m.wallet - m.debt.quota = s.wallet - s.debt.quota - delta
        <3>1. PICK l \in m.ledger : /\ l \notin s.ledger /\ l.by = by /\ l.type \in ReversalTypes
                                    /\ l.quota = -delta
                                    /\ m.ledger = s.ledger \cup {l}
            BY <2>2 DEF PostsOne
        <3>2. s.order.reversedQuota - l.quota = quota
            BY <1>3, <1>4, <1>12, <3>1, DbFields
        <3>3. s.wallet - s.debt.quota - delta = s.wallet - s.debt.quota + l.quota
            BY <1>4, <3>1, DbFields
        <3> HIDE DEF r
        <3> QED BY <1>7, <1>11, <2>2, <3>1, <3>2, <3>3 DEF Balanced
    <2> QED BY <1>9, <2>1, <2>2
<1>14. /\ s.ledger \subseteq r.ledger
       /\ \A l \in r.ledger \ s.ledger : l.by = by /\ l.type \in ReversalTypes
    BY <1>9, <1>11 DEF PostsOne
<1> HIDE DEF r
<1>15. r.order.reversed = target /\ r.order.reversedQuota = ReversedQuota(r.order.reversed)
    BY <1>7, <1>11 DEF quota
<1> QED BY <1>5, <1>7, <1>11, <1>13, <1>14, <1>15 DEF target

-----------------------------------------------------------------------------
(* What each operator does to the entitlement and to the books              *)

\* The new entries of r are by one poster, and no refund is forgotten.
PostedBy(s, r, by) ==
    /\ s.ledger \subseteq r.ledger
    /\ \A l \in r.ledger \ s.ledger : l.by = by
    /\ r.order.refunded >= s.order.refunded

\* r is what an operator that moves no money and posts nothing makes of s.
Calm(s, r) ==
    /\ r.ledger = s.ledger /\ r.debt = s.debt /\ r.wallet = s.wallet
    /\ r.order.settled = s.order.settled /\ r.order.refunded = s.order.refunded
    /\ r.order.disputed = s.order.disputed /\ r.order.reversed = s.order.reversed
    /\ r.order.reversedQuota = s.order.reversedQuota

\* Such an operator changes no books, whoever is asked.
LEMMA CalmFacts ==
    ASSUME NEW s \in Db, NEW r \in Db, Calm(s, r), NEW by
    PROVE  Change(s, r) /\ PostedBy(s, r, by)
<1>1. r.order.refunded >= s.order.refunded
    BY DbFields DEF Calm
<1> QED BY <1>1 DEF Calm, Change, PostedBy, NetOf, CreditedOf, MovesOf

\* It keeps the entitlement when status and projection still fit.
LEMMA CalmEntitled ==
    ASSUME NEW s \in Db, NEW r \in Db, Calm(s, r), Entitled(s),
           r.order.status \in {"fulfilled", "debt", "disputed"} => s.order.settled,
           r.order.status = "pending" => ~s.order.settled,
           IF s.order.settled
           THEN r.topUp \in {"success", "refund_pending", "refunded", "disputed", "debt"}
           ELSE r.topUp # "success"
    PROVE  Entitled(r)
BY DEF Calm, Entitled, Granted, Credits

\* Binding the payment's key to the order.
LEMMA BoundFacts ==
    ASSUME NEW s \in Db, Entitled(s), NEW e
    PROVE  /\ Bound(s, e) \in Db /\ Calm(s, Bound(s, e)) /\ Entitled(Bound(s, e))
           /\ Bound(s, e).order.status = s.order.status /\ Bound(s, e).topUp = s.topUp
<1>1. s.order \in OrderRow
    BY DbFields
<1> DEFINE order == [s.order EXCEPT !.bound = s.order.bound \/ Kind(e) # "expired"]
<1>2. /\ order \in OrderRow /\ order.settled = s.order.settled /\ order.status = s.order.status
      /\ order.refunded = s.order.refunded /\ order.reversedQuota = s.order.reversedQuota
      /\ order.disputed = s.order.disputed /\ order.reversed = s.order.reversed
    BY <1>1 DEF OrderRow
<1>3. Bound(s, e) = [s EXCEPT !.order = order]
    BY <1>1 DEF Bound, Db, OrderRow
<1> HIDE DEF order
<1>4. /\ Bound(s, e) \in Db /\ Bound(s, e).order = order /\ Bound(s, e).topUp = s.topUp
      /\ Bound(s, e).ledger = s.ledger /\ Bound(s, e).debt = s.debt
      /\ Bound(s, e).wallet = s.wallet
    BY <1>2, <1>3 DEF Db
<1>5. Calm(s, Bound(s, e))
    BY <1>2, <1>4 DEF Calm
<1>6. Entitled(Bound(s, e))
    BY <1>2, <1>4, <1>5, CalmEntitled DEF Entitled
<1> QED BY <1>2, <1>4, <1>5, <1>6

\* A new status and projection of the order, nothing else.
WithStatus(s, status, topUp) == [s EXCEPT !.order.status = status, !.topUp = topUp]

\* It moves no money.
LEMMA StatusFacts ==
    ASSUME NEW s \in Db, NEW status \in OrderStatuses,
           NEW topUp \in OrderStatuses \cup {"success"}
    PROVE  LET r == WithStatus(s, status, topUp)
           IN r \in Db /\ Calm(s, r) /\ r.order.status = status /\ r.topUp = topUp
<1> DEFINE order == [s.order EXCEPT !.status = status]
           r == WithStatus(s, status, topUp)
<1>1. s.order \in OrderRow
    BY DbFields
<1>2. /\ order \in OrderRow /\ order.settled = s.order.settled /\ order.status = status
      /\ order.refunded = s.order.refunded /\ order.reversedQuota = s.order.reversedQuota
      /\ order.disputed = s.order.disputed /\ order.reversed = s.order.reversed
    BY <1>1 DEF OrderRow
<1>3. r = [s EXCEPT !.order = order, !.topUp = topUp]
    BY DEF Db, WithStatus
<1> HIDE DEF order, r
<1>4. /\ r \in Db /\ r.order = order /\ r.topUp = topUp
      /\ r.ledger = s.ledger /\ r.debt = s.debt /\ r.wallet = s.wallet
    BY <1>2, <1>3 DEF Db
<1>5. Calm(s, r)
    BY <1>2, <1>4 DEF Calm
<1> QED BY <1>2, <1>4, <1>5 DEF r

\* Putting an order into review.
LEMMA ReviewFacts ==
    ASSUME NEW s \in Db, Entitled(s), NEW keep \in BOOLEAN, KeepsProjection(s) => keep
    PROVE  LET r == MarkedForReview(s, keep)
           IN r \in Db /\ Calm(s, r) /\ Entitled(r) /\ r.order.status = "manual_review"
<1> DEFINE topUp == IF keep THEN s.topUp ELSE "manual_review"
           r == MarkedForReview(s, keep)
<1>1. topUp \in OrderStatuses \cup {"success"} /\ "manual_review" \in OrderStatuses
    BY DbFields DEF OrderStatuses
<1>2. r = WithStatus(s, "manual_review", topUp)
    BY DEF MarkedForReview, WithStatus
<1> HIDE DEF topUp, r
<1>3. r \in Db /\ Calm(s, r) /\ r.order.status = "manual_review" /\ r.topUp = topUp
    BY <1>1, <1>2, StatusFacts
<1>4. IF s.order.settled
      THEN topUp \in {"success", "refund_pending", "refunded", "disputed", "debt"}
      ELSE topUp # "success"
    BY DEF topUp, Entitled, KeepsProjection
<1>5. Entitled(r)
    BY <1>3, <1>4, CalmEntitled
<1> QED BY <1>3, <1>5 DEF r

\* A failed or expired payment.
LEMMA EndedFacts ==
    ASSUME NEW s \in Db, Entitled(s), NEW status \in {"failed", "expired"}
    PROVE  LET r == Ended(s, status)
           IN /\ r \in Db /\ Calm(s, r) /\ Entitled(r)
              /\ \/ r = s
                 \/ /\ s.order.status # "manual_review" /\ r.order.status = status
                    /\ r.topUp = s.topUp \/ s.topUp = "pending"
<1> DEFINE r == Ended(s, status)
<1>1. CASE s.order.status \in {"fulfilled", "refunded", "disputed", "debt", "manual_review"}
    <2>1. r = s
        BY <1>1 DEF Ended
    <2> QED BY <2>1 DEF Calm
<1>2. CASE s.order.status \notin {"fulfilled", "refunded", "disputed", "debt", "manual_review"}
    <2> DEFINE topUp == IF s.topUp = "pending" THEN status ELSE s.topUp
    <2>1. topUp \in OrderStatuses \cup {"success"} /\ status \in OrderStatuses
        BY DbFields DEF OrderStatuses
    <2>2. r = WithStatus(s, status, topUp)
        BY <1>2 DEF Ended, WithStatus
    <2> HIDE DEF topUp, r
    <2>3. r \in Db /\ Calm(s, r) /\ r.order.status = status /\ r.topUp = topUp
        <3> DEFINE w == WithStatus(s, status, topUp)
        <3>1. w \in Db /\ Calm(s, w) /\ w.order.status = status /\ w.topUp = topUp
            BY <2>1, StatusFacts, Zenon
        <3> QED BY <2>2, <3>1
    <2>4. IF s.order.settled
          THEN topUp \in {"success", "refund_pending", "refunded", "disputed", "debt"}
          ELSE topUp # "success"
        BY DEF topUp, Entitled
    <2>5. Entitled(r)
        BY <2>3, <2>4, CalmEntitled
    <2>6. r.topUp = s.topUp \/ s.topUp = "pending"
        BY <2>3 DEF topUp
    <2> QED BY <1>2, <2>3, <2>5, <2>6 DEF r
<1> QED BY <1>1, <1>2

\* The credit is given once, to an order nobody has rejected, and posted.
LEMMA FulfilledFacts ==
    ASSUME NEW s \in Db, Entitled(s), NEW by \in Int, ~CannotFulfill(s)
    PROVE  LET r == Fulfilled(s, by)
           IN /\ r \in Db /\ Entitled(r) /\ Change(s, r) /\ PostedBy(s, r, by)
              /\ rejected => r.order.settled = s.order.settled
              /\ IF AlreadySettled(s) THEN r = s
                 ELSE /\ ~s.order.settled /\ r.order.settled
                      /\ s.order.status # "manual_review"
                      /\ s.topUp \in {"pending", "manual_review", "failed", "expired"}
                      /\ SameAmounts(s, r) /\ NotesOf(r) = NotesOf(s)
<1> DEFINE r == Fulfilled(s, by)
<1>1. CASE AlreadySettled(s)
    <2>1. r = s
        BY <1>1 DEF Fulfilled
    <2>2. Calm(s, s)
        BY DEF Calm
    <2> QED BY <1>1, <2>1, <2>2, CalmFacts
<1>2. CASE ~AlreadySettled(s)
    <2> DEFINE order == [s.order EXCEPT !.status = "fulfilled", !.settled = TRUE]
               t == [s EXCEPT !.order.status = "fulfilled", !.order.settled = TRUE,
                              !.topUp = "success", !.wallet = s.wallet + CreditQuota]
               entry == [by |-> by, type |-> "credit", quota |-> CreditQuota]
    <2>0. CreditQuota \in Int /\ CreditQuota \in Nat
        BY AmountsAssumption
    <2>1. /\ ~rejected /\ s.wallet + CreditQuota \in 0 .. MaxQuota
          /\ s.topUp \in {"pending", "manual_review", "failed", "expired"}
          /\ s.order.status # "manual_review"
        BY <1>2, DbFields, AmountsAssumption DEF CannotFulfill
    <2>2. ~s.order.settled /\ Credits(s) = {}
        BY <2>1 DEF Entitled, Granted
    <2>3. s.order \in OrderRow
        BY DbFields
    <2>4. /\ order \in OrderRow /\ order.settled /\ order.status = "fulfilled"
          /\ order.refunded = s.order.refunded /\ order.reversedQuota = s.order.reversedQuota
          /\ order.disputed = s.order.disputed /\ order.reversed = s.order.reversed
        BY <2>3 DEF OrderRow, OrderStatuses
    <2>5. t = [s EXCEPT !.order = order, !.topUp = "success",
                        !.wallet = s.wallet + CreditQuota]
        BY <2>3 DEF Db, OrderRow
    <2> HIDE DEF order
    <2>6. /\ t \in Db /\ t.order = order /\ t.topUp = "success" /\ t.ledger = s.ledger
          /\ t.debt = s.debt /\ t.wallet = s.wallet + CreditQuota
        BY <2>1, <2>4, <2>5 DEF Db
    <2>7. r = Posted(t, by, "credit", CreditQuota)
        BY <1>2 DEF Fulfilled
    <2> HIDE DEF t, r
    <2>8. "credit" \in EntryTypes /\ entry.by = by /\ entry.type = "credit"
          /\ entry.quota = CreditQuota
        BY DEF EntryTypes
    <2>9. ~(\E l \in t.ledger : l.by = by /\ l.type = "credit")
        BY <2>2, <2>6 DEF Credits
    <2>10. /\ r \in Db /\ r.order = order /\ r.topUp = "success" /\ r.debt = s.debt
           /\ r.wallet = s.wallet + CreditQuota
           /\ entry \notin s.ledger /\ r.ledger = s.ledger \cup {entry}
        BY <2>0, <2>6, <2>7, <2>8, <2>9, PostedFacts
    <2> HIDE DEF entry
    <2>11. Entitled(r)
        <3>1. Credits(r) = {entry}
            BY <2>2, <2>8, <2>10 DEF Credits
        <3> QED BY <3>1, <2>2, <2>4, <2>10 DEF Entitled, Granted
    <2>12. PostedBy(s, r, by)
        <3>1. r.order.refunded >= s.order.refunded
            BY <2>4, <2>10, DbFields
        <3> QED BY <3>1, <2>8, <2>10 DEF PostedBy
    <2>13. Change(s, r)
        <3>1. MovesOf(r) = MovesOf(s) \cup {entry} /\ entry \in MovesOf(r) \ MovesOf(s)
            BY <2>8, <2>10 DEF MovesOf
        <3>2. NetOf(r) = NetOf(s) + entry.quota
            BY <2>0, <2>8, <2>10, DbFields DEF NetOf
        <3>3. CreditedOf(r) = CreditedOf(s) + entry.quota
            BY <2>0, <2>2, <2>4, <2>8, <2>10, DbFields DEF CreditedOf
        <3> QED BY <2>8, <2>10, <3>1, <3>2, <3>3 DEF Change
    <2>14. SameAmounts(s, r) /\ NotesOf(r) = NotesOf(s)
        BY <2>4, <2>8, <2>10 DEF SameAmounts, NotesOf
    <2> QED BY <1>2, <2>1, <2>2, <2>4, <2>10, <2>11, <2>12, <2>13, <2>14 DEF r
<1> QED BY <1>1, <1>2

\* A reversal concerns a credited order and leaves it credited.
LEMMA ReversalFacts ==
    ASSUME NEW s \in Db, Entitled(s), NEW by \in Int, NEW refunded, NEW disputed,
           ~CannotReverse(s, refunded, disputed), refunded >= s.order.refunded,
           ~(\E l \in s.ledger : l.by = by /\ l.type \in ReversalTypes)
    PROVE  LET r == Reconciled(s, by, refunded, disputed)
           IN /\ r \in Db /\ Entitled(r) /\ Change(s, r) /\ PostedBy(s, r, by)
              /\ r.order.settled /\ s.order.settled /\ r.order.refunded = refunded
              /\ r.order.disputed = disputed /\ Reversed(r.order) /\ NotesOf(r) = NotesOf(s)
              /\ \A l \in r.ledger \ s.ledger : l.type \in ReversalTypes
<1> DEFINE r == Reconciled(s, by, refunded, disputed)
<1>1. /\ r \in Db
      /\ r.order.settled = s.order.settled /\ r.order.refunded = refunded
      /\ r.order.disputed = disputed
      /\ r.order.reversed = Smaller(Expected, refunded + disputed)
      /\ r.order.reversedQuota = ReversedQuota(r.order.reversed)
      /\ r.order.status \in {"fulfilled", "debt", "disputed", "refunded", "refund_pending"}
      /\ r.topUp = IF r.order.status = "fulfilled" THEN "success" ELSE r.order.status
      /\ s.ledger \subseteq r.ledger
      /\ \A l \in r.ledger \ s.ledger : l.by = by /\ l.type \in ReversalTypes
      /\ Balanced(s, r, by)
    BY ReconciledFacts
<1>2. s.order.settled
    BY DEF CannotReverse, Entitled
<1> HIDE DEF r
<1>3. Credits(r) = Credits(s)
    BY <1>1 DEF Credits, ReversalTypes
<1>4. Entitled(r)
    <2>1. r.topUp \in {"success", "refund_pending", "refunded", "disputed", "debt"}
        BY <1>1
    <2> QED BY <1>1, <1>2, <1>3, <2>1 DEF Entitled, Granted
<1>5. PostedBy(s, r, by)
    BY <1>1 DEF PostedBy
<1>6. Change(s, r)
    <2>1. CASE /\ r.ledger = s.ledger
               /\ r.wallet - r.debt.quota = s.wallet - s.debt.quota
               /\ r.order.reversedQuota = s.order.reversedQuota
        BY <1>1, <2>1 DEF Change, MovesOf, NetOf, CreditedOf
    <2>2. ASSUME NEW l \in r.ledger,
                 l \notin s.ledger, l.by = by, l.type \in ReversalTypes,
                 r.ledger = s.ledger \cup {l},
                 r.wallet - r.debt.quota = s.wallet - s.debt.quota + l.quota,
                 r.order.reversedQuota = s.order.reversedQuota - l.quota
          PROVE  Change(s, r)
        <3>1. l.quota \in Int
            BY <1>1, DbFields
        <3>2. MovesOf(r) = MovesOf(s) \cup {l} /\ l \in MovesOf(r) \ MovesOf(s)
            BY <2>2 DEF MovesOf, ReversalTypes
        <3>3. CreditedOf(r) = CreditedOf(s) + l.quota
            BY <1>1, <1>2, <2>2, <3>1, DbFields, AmountsAssumption DEF CreditedOf
        <3>4. l.type # "debt_resolved"
            BY <2>2 DEF ReversalTypes
        <3> QED BY <1>1, <2>2, <3>2, <3>3, <3>4 DEF Change, NetOf
    <2> QED BY <1>1, <2>1, <2>2 DEF Balanced
<1>7. Reversed(r.order) /\ NotesOf(r) = NotesOf(s)
    BY <1>1 DEF Reversed, NotesOf, ReversalTypes
<1> QED BY <1>1, <1>2, <1>4, <1>5, <1>6, <1>7 DEF r

\* A calm operator before or after another one does not show in the books.
LEMMA CalmThen ==
    ASSUME NEW s \in Db, NEW t \in Db, NEW r \in Db, NEW by, Calm(s, t),
           Change(t, r), PostedBy(t, r, by)
    PROVE  Change(s, r) /\ PostedBy(s, r, by)
<1>1. NetOf(s) = NetOf(t) /\ CreditedOf(s) = CreditedOf(t) /\ MovesOf(s) = MovesOf(t)
    BY DEF Calm, NetOf, CreditedOf, MovesOf
<1>2. s.ledger = t.ledger /\ s.order.refunded = t.order.refunded
    BY DEF Calm
<1> QED BY <1>1, <1>2 DEF Change, PostedBy

\* One calm operator after another.
LEMMA CalmCalm ==
    ASSUME NEW s, NEW t, NEW r, Calm(s, t), Calm(t, r)
    PROVE  Calm(s, r)
BY DEF Calm

-----------------------------------------------------------------------------
(* The actions that change the rows of a settlement                        *)

\* What a step does to them when `by` may post.
DbStep(by) ==
    /\ db' \in Db /\ Entitled(db') /\ Change(db, db') /\ PostedBy(db, db', by)
    /\ rejected => db'.order.settled = db.order.settled

\* A calm step does what any poster may do.
LEMMA CalmDbStep ==
    ASSUME db \in Db, NEW r \in Db, db' = r, Calm(db, r), Entitled(r), NEW by
    PROVE  DbStep(by)
<1>1. Change(db, r) /\ PostedBy(db, r, by)
    BY CalmFacts
<1> QED BY <1>1 DEF DbStep, Calm

\* Events are numbered from 1.
LEMMA EventsArePositive ==
    ASSUME TypeInv, NEW e \in E
    PROVE  e \in Int /\ e > 0 /\ Kind(e) \in EventKinds /\ Amount(e) \in 0 .. Expected
<1>1. E = 1 .. Len(history) /\ Len(history) \in Nat
    BY DEF TypeInv, E
<1>2. e \in Int /\ e > 0
    BY <1>1
<1>3. history[e] \in Event
    BY DEF TypeInv, E
<1> QED BY <1>2, <1>3 DEF Kind, Amount, Event

\* The row of an event whose transaction found its order.
LEMMA SettledRow ==
    ASSUME TypeInv, NEW e \in E, Settle(e)
    PROVE  \E status \in {"processed", "manual_review", "dismissed"} :
               rows' = [rows EXCEPT ![e] = [status |-> status, matched |-> TRUE]]
<1>1. PICK status \in {"processed", "manual_review", "dismissed"} : Finish(e, status, TRUE)
    BY DEF Settle
<1>2. rows' = [rows EXCEPT ![e] = [status |-> status, matched |-> TRUE]]
    BY <1>1 DEF Finish, TypeInv, EventRow
<1> QED BY <1>2

\* In the transaction of an event that has not posted yet, it alone may post.
LEMMA SettleStep ==
    ASSUME TypeInv, EntitlementInv, NEW e \in E, ~(\E l \in db.ledger : l.by = e), Settle(e)
    PROVE  DbStep(e)
<1> DEFINE s == Bound(db, e)
           keep == KeepsProjection(s) \/ (Kind(e) = "paid" /\ rejected)
<1>0. /\ db \in Db /\ Entitled(db) /\ e \in Int
      /\ Kind(e) \in EventKinds /\ Amount(e) \in 0 .. Expected
    BY EventsArePositive DEF TypeInv, EntitlementInv
<1>1. s \in Db /\ Calm(db, s) /\ Entitled(s)
    BY <1>0, BoundFacts
<1> HIDE DEF s
<1>4. CASE db' = s
    BY <1>0, <1>1, <1>4, CalmDbStep
<1>5. CASE db' = MarkedForReview(s, keep)
    <2> DEFINE r == MarkedForReview(s, keep)
    <2>1. keep \in BOOLEAN /\ (KeepsProjection(s) => keep)
        BY DEF TypeInv, KeepsProjection
    <2> HIDE DEF keep
    <2>2. r \in Db /\ Calm(s, r) /\ Entitled(r)
        BY <1>1, <2>1, ReviewFacts
    <2> HIDE DEF r
    <2>3. Calm(db, r)
        BY <1>1, <2>2, CalmCalm
    <2> QED BY <1>0, <1>5, <2>2, <2>3, CalmDbStep DEF r
<1>6. CASE ~NeedsReview(e, s) /\ db' = Effect(e, s)
    <2>1. CASE Kind(e) = "paid"
        <3>1. db' = Fulfilled(s, e)
            BY <1>6, <2>1 DEF Effect, ReversalKinds, DisputeKinds
        <3>2. ~CannotFulfill(s)
            BY <1>6, <2>1 DEF NeedsReview
        <3>3. /\ db' \in Db /\ Entitled(db') /\ Change(s, db') /\ PostedBy(s, db', e)
              /\ rejected => db'.order.settled = s.order.settled
            BY <1>0, <1>1, <3>1, <3>2, FulfilledFacts
        <3>4. Change(db, db') /\ PostedBy(db, db', e)
            BY <1>0, <1>1, <3>3, CalmThen
        <3> QED BY <1>1, <3>3, <3>4 DEF DbStep, Calm
    <2>2. CASE Kind(e) \in ReversalKinds /\ Outdated(e)
        <3>1. db' = s
            BY <1>6, <2>2 DEF Effect, ReversalKinds, DisputeKinds
        <3> QED BY <1>0, <1>1, <3>1, CalmDbStep
    <2>3. CASE Kind(e) \in ReversalKinds /\ ~Outdated(e)
        <3> DEFINE refunded == RefundedAfter(e)
                   disputed == DisputedAfter(e)
        <3>1. db' = Reconciled(s, e, refunded, disputed)
            BY <1>6, <2>3 DEF Effect, ReversalKinds, DisputeKinds
        <3>2. ~CannotReverse(s, refunded, disputed)
            BY <1>6, <2>3 DEF NeedsReview
        <3>3. refunded >= s.order.refunded
            <4>1. db.order.refunded \in Int /\ db.order.refunded = s.order.refunded
                BY <1>0, <1>1, DbFields, AmountsAssumption DEF Calm
            <4> QED BY <1>0, <2>3, <4>1, AmountsAssumption DEF RefundedAfter, Outdated
        <3>4. ~(\E l \in s.ledger : l.by = e /\ l.type \in ReversalTypes)
            BY <1>1 DEF Calm
        <3> HIDE DEF refunded, disputed
        <3>5. /\ db' \in Db /\ Entitled(db') /\ Change(s, db') /\ PostedBy(s, db', e)
              /\ db'.order.settled /\ s.order.settled
            BY <1>0, <1>1, <3>1, <3>2, <3>3, <3>4, ReversalFacts
        <3>6. Change(db, db') /\ PostedBy(db, db', e)
            BY <1>0, <1>1, <3>5, CalmThen
        <3> QED BY <1>1, <3>5, <3>6 DEF DbStep, Calm
    <2>4. CASE Kind(e) \in {"failed", "expired"}
        <3> DEFINE r == Ended(s, Kind(e))
        <3>1. db' = r
            BY <1>6, <2>4 DEF Effect, ReversalKinds, DisputeKinds
        <3>2. r \in Db /\ Calm(s, r) /\ Entitled(r)
            BY <1>1, <2>4, EndedFacts
        <3> HIDE DEF r
        <3>3. Calm(db, r)
            BY <1>1, <3>2, CalmCalm
        <3> QED BY <1>0, <3>1, <3>2, <3>3, CalmDbStep
    <2>5. Kind(e) # "review"
        BY <1>6 DEF NeedsReview
    <2> QED BY <1>0, <2>1, <2>2, <2>3, <2>4, <2>5 DEF EventKinds, ReversalKinds, DisputeKinds
<1> QED BY <1>4, <1>5, <1>6 DEF Settle, s

\* The server's own closing of an order, binding it early, a conflicting delivery
\* and a rejection move no money.
LEMMA ClosingStep ==
    ASSUME TypeInv, EntitlementInv, NEW by,
           \/ SaveStart \/ AdminReject
           \/ \E status \in {"expired", "failed", "manual_review"} : CloseLocally(status)
           \/ \E e \in E : ConflictingDelivery(e)
    PROVE  DbStep(by) /\ Calm(db, db')
<1>0. db \in Db /\ Entitled(db) /\ db.order \in OrderRow
    BY DbFields DEF TypeInv, EntitlementInv
<1>a. ASSUME NEW r \in Db, db' = r, Calm(db, r), Entitled(r)
      PROVE  DbStep(by) /\ Calm(db, db')
    BY <1>0, <1>a, CalmDbStep DEF Calm
<1>b. ASSUME NEW status \in OrderStatuses, NEW topUp \in OrderStatuses \cup {"success"},
             db' = WithStatus(db, status, topUp),
             status \notin {"fulfilled", "debt", "disputed", "pending"},
             IF db.order.settled
             THEN topUp \in {"success", "refund_pending", "refunded", "disputed", "debt"}
             ELSE topUp # "success"
      PROVE  DbStep(by) /\ Calm(db, db')
    <2> DEFINE r == WithStatus(db, status, topUp)
    <2>1. r \in Db /\ Calm(db, r) /\ r.order.status = status /\ r.topUp = topUp
        BY <1>0, StatusFacts
    <2> HIDE DEF r
    <2>2. Entitled(r)
        BY <1>0, <1>b, <2>1, CalmEntitled
    <2> QED BY <1>a, <1>b, <2>1, <2>2 DEF r
<1>1. CASE SaveStart
    <2> DEFINE order == [db.order EXCEPT !.bound = TRUE]
               r == [db EXCEPT !.order = order]
    <2>1. /\ order \in OrderRow /\ order.settled = db.order.settled
          /\ order.status = db.order.status /\ order.refunded = db.order.refunded
          /\ order.reversedQuota = db.order.reversedQuota
          /\ order.disputed = db.order.disputed /\ order.reversed = db.order.reversed
        BY <1>0 DEF OrderRow
    <2>2. db' = r
        BY <1>0, <1>1 DEF SaveStart, Db, OrderRow
    <2> HIDE DEF order
    <2>3. /\ r \in Db /\ r.order = order /\ r.topUp = db.topUp /\ r.ledger = db.ledger
          /\ r.debt = db.debt /\ r.wallet = db.wallet
        BY <1>0, <2>1 DEF Db
    <2> HIDE DEF r
    <2>4. Calm(db, r)
        BY <2>1, <2>3 DEF Calm
    <2>5. Entitled(r)
        BY <1>0, <2>1, <2>3, <2>4, CalmEntitled DEF Entitled
    <2> QED BY <1>a, <2>2, <2>3, <2>4, <2>5
<1>2. CASE AdminReject
    <2> DEFINE r == [db EXCEPT !.order.status = "failed"]
    <2>1. ~db.order.settled
        BY <1>0, <1>2 DEF AdminReject, Entitled
    <2>2. db' = WithStatus(db, "failed", "failed")
        BY <1>0, <1>2 DEF AdminReject, Synced, WithStatus, Db, OrderRow
    <2> QED BY <1>b, <2>1, <2>2 DEF OrderStatuses
<1>3. ASSUME NEW status \in {"expired", "failed", "manual_review"}, CloseLocally(status)
      PROVE  DbStep(by) /\ Calm(db, db')
    <2> DEFINE topUp == IF status # "expired" \/ db.topUp = "pending" THEN status ELSE db.topUp
    <2>1. ~db.order.settled
        BY <1>0, <1>3 DEF CloseLocally, Entitled
    <2>2. topUp \in OrderStatuses \cup {"success"} /\ topUp # "success" /\ status \in OrderStatuses
        BY <1>0, <2>1, DbFields DEF OrderStatuses, Entitled
    <2>3. db' = WithStatus(db, status, topUp)
        BY <1>3 DEF CloseLocally, WithStatus
    <2> HIDE DEF topUp
    <2> QED BY <1>b, <2>1, <2>2, <2>3
<1>4. ASSUME NEW e \in E, ConflictingDelivery(e)
      PROVE  DbStep(by) /\ Calm(db, db')
    <2>1. CASE db' = db
        BY <1>0, <2>1, <1>a DEF Calm
    <2>2. CASE db' = [db EXCEPT !.order.status = "manual_review"]
        <3>1. db' = WithStatus(db, "manual_review", db.topUp)
            BY <1>0, <2>2 DEF WithStatus, Db
        <3>2. db.topUp \in OrderStatuses \cup {"success"} /\ "manual_review" \in OrderStatuses
            BY <1>0, DbFields DEF OrderStatuses
        <3> QED BY <1>0, <1>b, <3>1, <3>2 DEF Entitled
    <2> QED BY <1>4, <2>1, <2>2 DEF ConflictingDelivery
<1> QED BY <1>1, <1>2, <1>3, <1>4

\* The entry of an administrator's refund notes an amount of the provider, no
\* quota: it shows in no books.
LEMMA NoteFacts ==
    ASSUME NEW s \in Db, NEW t \in Db, NEW by \in Int,
           Entitled(t), Change(s, t), PostedBy(s, t, by)
    PROVE  LET r == Posted(t, by, "admin_external_refund", 0)
           IN /\ r \in Db /\ Entitled(r) /\ Change(s, r) /\ PostedBy(s, r, by)
              /\ r.order = t.order /\ r.topUp = t.topUp
              /\ ~(\E l \in t.ledger : l.by = by /\ l.type = "admin_external_refund") =>
                   \E l \in NotesOf(r) : l.by = by
<1> DEFINE r == Posted(t, by, "admin_external_refund", 0)
           entry == [by |-> by, type |-> "admin_external_refund", quota |-> 0]
<1>1. "admin_external_refund" \in EntryTypes /\ 0 \in Int
    BY DEF EntryTypes
<1>2. /\ r \in Db
      /\ r.order = t.order /\ r.topUp = t.topUp /\ r.debt = t.debt /\ r.wallet = t.wallet
      /\ t.ledger \subseteq r.ledger /\ r.ledger \subseteq t.ledger \cup {entry}
      /\ ~(\E l \in t.ledger : l.by = by /\ l.type = "admin_external_refund") =>
           r.ledger = t.ledger \cup {entry}
    BY <1>1, PostedFacts
<1>3. entry.by = by /\ entry.type = "admin_external_refund"
    OBVIOUS
<1> HIDE DEF r, entry
<1>4. Credits(r) = Credits(t) /\ MovesOf(r) = MovesOf(t)
    BY <1>2, <1>3 DEF Credits, MovesOf
<1>5. Entitled(r)
    BY <1>2, <1>4 DEF Entitled, Granted
<1>6. NetOf(r) = NetOf(t) /\ CreditedOf(r) = CreditedOf(t)
    BY <1>2 DEF NetOf, CreditedOf
<1>7. Change(s, r)
    <2>1. s.ledger \subseteq r.ledger
        BY <1>2 DEF Change
    <2> QED BY <1>4, <1>6, <2>1 DEF Change
<1>8. PostedBy(s, r, by)
    BY <1>2, <1>3 DEF PostedBy
<1>9. ~(\E l \in t.ledger : l.by = by /\ l.type = "admin_external_refund") =>
          \E l \in NotesOf(r) : l.by = by
    BY <1>2, <1>3 DEF NotesOf
<1> QED BY <1>2, <1>5, <1>7, <1>8, <1>9 DEF r

\* The order after the refund: what is refunded is reversed if it was credited;
\* otherwise only status and projection tell of the refund.
Refunded(s, r) ==
    /\ r.order.disputed = 0 /\ r.order.settled = s.order.settled
    /\ IF s.order.settled THEN Reversed(r.order)
       ELSE /\ r.order.reversed = s.order.reversed
            /\ r.order.reversedQuota = s.order.reversedQuota
            /\ r.order.status \in {"refunded", "refund_pending"} /\ r.topUp = r.order.status
            /\ r.order.status = "refunded" => r.order.refunded = Expected

\* A refund confirmed by an administrator, of a credited order or of one that
\* was never credited.
LEMMA ExternalRefundStep ==
    ASSUME TypeInv, EntitlementInv, PostersDone,
           NEW refunded \in ExternalRefunds, AdminExternalRefund(refunded)
    PROVE  /\ DbStep(-refunded) /\ db'.order.refunded = refunded
           /\ Refunded(db, db') /\ \E l \in NotesOf(db') : l.by = -refunded
<1> DEFINE by == -refunded
<1>0. db \in Db /\ Entitled(db) /\ refunded \in 1 .. Expected
    BY AmountsAssumption DEF TypeInv, EntitlementInv
<1>1. by \in Int /\ refunded > db.order.refunded /\ db.order.refunded \in Nat
    BY <1>0, DbFields, AmountsAssumption DEF AdminExternalRefund
<1>2. ~(\E l \in db.ledger : l.by = by)
    <2> SUFFICES ASSUME NEW l \in db.ledger, l.by = by PROVE FALSE
        OBVIOUS
    <2>1. by < 0
        BY <1>0
    <2>2. -by <= db.order.refunded
        BY <2>1 DEF PostersDone
    <2> QED BY <1>0, <1>1, <2>2
<1>a. ASSUME NEW t \in Db, Entitled(t), Change(db, t), PostedBy(db, t, by),
             rejected => t.order.settled = db.order.settled, t.order.refunded = refunded,
             Refunded(db, t), \A l \in t.ledger \ db.ledger : l.type \in ReversalTypes,
             db' = Posted(t, by, "admin_external_refund", 0)
      PROVE  /\ DbStep(by) /\ db'.order.refunded = refunded
             /\ Refunded(db, db') /\ \E l \in NotesOf(db') : l.by = by
    <2>0. ~(\E l \in t.ledger : l.by = by /\ l.type = "admin_external_refund")
        BY <1>2, <1>a DEF ReversalTypes
    <2>1. /\ db' \in Db /\ Entitled(db') /\ Change(db, db') /\ PostedBy(db, db', by)
          /\ db'.order = t.order /\ db'.topUp = t.topUp
          /\ \E l \in NotesOf(db') : l.by = by
        <3> HIDE DEF by
        <3> QED BY <1>0, <1>1, <1>a, <2>0, NoteFacts
    <2>2. Refunded(db, db')
        BY <1>a, <2>1 DEF Refunded, Reversed
    <2> HIDE DEF by
    <2> QED BY <1>a, <2>1, <2>2 DEF DbStep
<1>3. CASE /\ Granted(db) /\ ~CannotReverse(db, refunded, 0)
           /\ db' = Posted(Reconciled(db, by, refunded, 0), by, "admin_external_refund", 0)
    <2> DEFINE t == Reconciled(db, by, refunded, 0)
    <2>1. refunded >= db.order.refunded
        BY <1>0, <1>1
    <2>2. ~(\E l \in db.ledger : l.by = by /\ l.type \in ReversalTypes)
        BY <1>2
    <2>3. /\ t \in Db /\ Entitled(t) /\ Change(db, t) /\ PostedBy(db, t, by)
          /\ t.order.settled /\ db.order.settled /\ t.order.refunded = refunded
          /\ t.order.disputed = 0 /\ Reversed(t.order)
          /\ \A l \in t.ledger \ db.ledger : l.type \in ReversalTypes
        <3> HIDE DEF by
        <3> QED BY <1>0, <1>1, <1>3, <2>1, <2>2, ReversalFacts
    <2>4. db' = Posted(t, by, "admin_external_refund", 0)
        BY <1>3
    <2> HIDE DEF t, by
    <2>5. Refunded(db, t)
        BY <2>3 DEF Refunded
    <2>6. /\ DbStep(by) /\ db'.order.refunded = refunded
          /\ Refunded(db, db') /\ \E l \in NotesOf(db') : l.by = by
        BY <1>a, <2>3, <2>4, <2>5
    <2> QED BY <2>6 DEF by
<1> DEFINE status == IF refunded = Expected THEN "refunded" ELSE "refund_pending"
           order == [db.order EXCEPT !.status = status, !.refunded = refunded]
           t == Synced([db EXCEPT !.order = order])
<1>4. CASE ~Granted(db) /\ db' = Posted(t, by, "admin_external_refund", 0)
    <2>1. db.order \in OrderRow /\ ~db.order.settled
        BY <1>0, <1>4, DbFields DEF Entitled
    <2>2. /\ order \in OrderRow /\ order.settled = db.order.settled /\ order.refunded = refunded
          /\ order.reversedQuota = db.order.reversedQuota /\ order.disputed = db.order.disputed
          /\ order.reversed = db.order.reversed
          /\ order.status \in {"refunded", "refund_pending"}
          /\ order.status = "refunded" => refunded = Expected
        <3>1. /\ status \in {"refunded", "refund_pending"} /\ status \in OrderStatuses
              /\ status = "refunded" => refunded = Expected
            BY DEF OrderStatuses
        <3>2. refunded \in 0 .. Expected
            BY <1>0, AmountsAssumption
        <3> HIDE DEF status
        <3> QED BY <2>1, <3>1, <3>2 DEF OrderRow
    <2> DEFINE n == [db EXCEPT !.order = order]
    <2>3. t = Synced(n)
        OBVIOUS
    <2> HIDE DEF order, status, t
    <2>4. /\ n \in Db /\ n.order = order /\ n.ledger = db.ledger /\ n.debt = db.debt
          /\ n.wallet = db.wallet
        BY <1>0, <2>2 DEF Db
    <2> HIDE DEF n
    <2>5. /\ t \in Db /\ t.order = order /\ t.ledger = db.ledger /\ t.debt = db.debt
          /\ t.wallet = db.wallet /\ t.topUp = order.status
        BY <2>2, <2>3, <2>4, SyncedFacts
    <2>6. Entitled(t)
        BY <1>0, <1>4, <2>1, <2>2, <2>5 DEF Entitled, Granted, Credits
    <2>7. Change(db, t)
        BY <2>2, <2>5 DEF Change, MovesOf, NetOf, CreditedOf
    <2>8. PostedBy(db, t, by)
        <3>1. t.order.refunded >= db.order.refunded
            BY <1>0, <1>1, <2>2, <2>5
        <3> QED BY <2>5, <3>1 DEF PostedBy
    <2>9. db.order.disputed = 0
        BY DEF AdminExternalRefund
    <2>10. Refunded(db, t) /\ (\A l \in t.ledger \ db.ledger : l.type \in ReversalTypes)
        BY <2>1, <2>2, <2>5, <2>9 DEF Refunded
    <2> HIDE DEF by
    <2>11. /\ DbStep(by) /\ db'.order.refunded = refunded
           /\ Refunded(db, db') /\ \E l \in NotesOf(db') : l.by = by
        BY <1>4, <1>a, <2>2, <2>5, <2>6, <2>7, <2>8, <2>10
    <2> QED BY <2>11 DEF by
<1>5. \/ /\ Granted(db) /\ ~CannotReverse(db, refunded, 0)
         /\ db' = Posted(Reconciled(db, by, refunded, 0), by, "admin_external_refund", 0)
      \/ ~Granted(db) /\ db' = Posted(t, by, "admin_external_refund", 0)
    <2>1. [db EXCEPT !.order = order] = [db EXCEPT !.order.status = status, !.order.refunded = refunded]
        BY <1>0 DEF Db
    <2> QED BY <2>1 DEF AdminExternalRefund
<1> QED BY <1>3, <1>4, <1>5

\* An administrator's resolution pays the whole debt and posts it.
LEMMA ResolveDebtStep ==
    ASSUME TypeInv, EntitlementInv, PostersDone, AdminResolveDebt
    PROVE  /\ DbStep(0) /\ SameAmounts(db, db') /\ NotesOf(db') = NotesOf(db)
           /\ db.order.settled /\ db'.order.settled
<1> DEFINE o == db.order
           status == CASE o.disputed > 0 -> "disputed"
                       [] o.disputed = 0 /\ o.refunded >= Expected -> "refunded"
                       [] o.disputed = 0 /\ o.refunded \in 1 .. Expected - 1 -> "refund_pending"
                       [] OTHER -> "fulfilled"
           order == [db.order EXCEPT !.status = status]
           debt == [status |-> "resolved", quota |-> 0]
           t == [db EXCEPT !.debt = debt, !.order = order]
           p == Posted(t, 0, "debt_resolved", db.debt.quota)
           entry == [by |-> 0, type |-> "debt_resolved", quota |-> db.debt.quota]
           r == Synced(p)
<1>0. db \in Db /\ Entitled(db) /\ db.order \in OrderRow /\ db.debt.quota \in Nat
    BY DbFields DEF TypeInv, EntitlementInv
<1>1. db.order.settled /\ ~debtEvent
    BY <1>0 DEF AdminResolveDebt, Entitled
<1>2. db' = r
    <2>1. t = [db EXCEPT !.debt = debt, !.order.status = status]
        BY <1>0 DEF Db
    <2> QED BY <2>1 DEF AdminResolveDebt
<1>3. status \in {"disputed", "refunded", "refund_pending", "fulfilled"}
    <2>1. o.disputed \in Nat
        BY <1>0, AmountsAssumption DEF OrderRow
    <2>2. CASE o.disputed > 0
        BY <2>1, <2>2
    <2>3. CASE o.disputed = 0 /\ o.refunded >= Expected
        <3>1. ~(o.refunded \in 1 .. Expected - 1)
            BY <2>3, AmountsAssumption
        <3> QED BY <2>3, <3>1
    <2>4. CASE o.disputed = 0 /\ ~(o.refunded >= Expected)
        BY <2>4
    <2> QED BY <2>1, <2>2, <2>3, <2>4
<1> HIDE DEF status
<1>4. /\ order \in OrderRow /\ order.status = status /\ order.settled = db.order.settled
      /\ order.refunded = db.order.refunded /\ order.reversedQuota = db.order.reversedQuota
      /\ order.disputed = db.order.disputed /\ order.reversed = db.order.reversed
    BY <1>0, <1>3 DEF OrderRow, OrderStatuses
<1> HIDE DEF order
<1>5. debt.quota = 0 /\ debt.status = "resolved"
      /\ debt \in [status : {"none", "open", "resolved"}, quota : Nat]
    OBVIOUS
<1> HIDE DEF debt
<1>6. /\ t \in Db /\ t.order = order /\ t.topUp = db.topUp /\ t.ledger = db.ledger
      /\ t.debt = debt /\ t.wallet = db.wallet
    BY <1>0, <1>4, <1>5 DEF Db
<1>7. entry.by = 0 /\ entry.type = "debt_resolved" /\ entry.quota = db.debt.quota
    OBVIOUS
<1>8. /\ p \in Db /\ p.order = order /\ p.debt = debt /\ p.wallet = db.wallet
      /\ entry \notin db.ledger /\ p.ledger = db.ledger \cup {entry}
    <2>1. ~(\E l \in t.ledger : l.by = 0 /\ l.type = "debt_resolved")
        BY <1>1, <1>6 DEF PostersDone
    <2>2. "debt_resolved" \in EntryTypes /\ 0 \in Int /\ db.debt.quota \in Int
        BY <1>0 DEF EntryTypes
    <2> HIDE DEF t
    <2> QED BY <1>6, <2>1, <2>2, PostedFacts
<1> HIDE DEF p, entry, t
<1>9. /\ r \in Db /\ r.order = order /\ r.ledger = db.ledger \cup {entry}
      /\ r.debt = debt /\ r.wallet = db.wallet
      /\ r.topUp = IF order.status = "fulfilled" THEN "success" ELSE order.status
    BY <1>8, SyncedFacts
<1> HIDE DEF r
<1>10. Credits(r) = Credits(db)
    BY <1>7, <1>9 DEF Credits
<1>11. Entitled(r)
    <2>1. r.topUp \in {"success", "refund_pending", "refunded", "disputed", "debt"}
        BY <1>3, <1>4, <1>9
    <2>2. r.order.settled /\ r.order.status # "pending" /\ r.debt.status # "open"
        BY <1>1, <1>3, <1>4, <1>5, <1>9
    <2> QED BY <1>0, <1>1, <1>10, <2>1, <2>2 DEF Entitled, Granted
<1>12. Change(db, r)
    <2>1. MovesOf(r) = MovesOf(db) \cup {entry} /\ entry \in MovesOf(r) \ MovesOf(db)
        BY <1>7, <1>8, <1>9 DEF MovesOf
    <2>2. NetOf(r) = NetOf(db) + entry.quota
        BY <1>0, <1>5, <1>7, <1>9, DbFields DEF NetOf
    <2>3. CreditedOf(r) = CreditedOf(db)
        BY <1>4, <1>9 DEF CreditedOf
    <2> QED BY <1>7, <1>9, <2>1, <2>2, <2>3 DEF Change
<1>13. PostedBy(db, r, 0)
    <2>1. r.order.refunded >= db.order.refunded
        BY <1>0, <1>4, <1>9, DbFields
    <2> QED BY <1>7, <1>9, <2>1 DEF PostedBy
<1>14. SameAmounts(db, r) /\ NotesOf(r) = NotesOf(db)
    BY <1>4, <1>7, <1>9 DEF SameAmounts, NotesOf
<1> QED BY <1>1, <1>2, <1>4, <1>9, <1>11, <1>12, <1>13, <1>14 DEF DbStep

\* A payment that an administrator links is credited as one that found its order.
LEMMA LinkStep ==
    ASSUME TypeInv, EntitlementInv, NEW e \in E, AdminLink(e)
    PROVE  DbStep(e)
<1> DEFINE order == [db.order EXCEPT !.status = "pending", !.bound = TRUE]
           topUp == IF db.order.status \in {"failed", "expired"} THEN "pending" ELSE db.topUp
           s == [db EXCEPT !.order = order, !.topUp = topUp]
<1>0. db \in Db /\ Entitled(db) /\ db.order \in OrderRow /\ e \in Int
    BY EventsArePositive, DbFields DEF TypeInv, EntitlementInv
<1>1. ~db.order.settled
    BY <1>0 DEF AdminLink, Entitled
<1>2. ~CannotFulfill(s) /\ db' = Fulfilled(s, e)
    <2> DEFINE n == [db EXCEPT !.order.status = "pending", !.order.bound = TRUE]
               reopened == IF db.order.status \in {"failed", "expired"} THEN Synced(n) ELSE n
    <2>1. n = [db EXCEPT !.order = order] /\ n.order.status = "pending"
        BY <1>0 DEF Db, OrderRow
    <2>2. reopened = s
        <3> HIDE DEF order
        <3>1. CASE db.order.status \in {"failed", "expired"}
            BY <1>0, <2>1, <3>1 DEF Synced, Db
        <3>2. CASE db.order.status \notin {"failed", "expired"}
            BY <1>0, <2>1, <3>2 DEF Db
        <3> QED BY <3>1, <3>2
    <2>3. ~CannotFulfill(reopened) /\ db' = Fulfilled(reopened, e)
        BY DEF AdminLink
    <2> HIDE DEF reopened, s
    <2> QED BY <2>2, <2>3
<1>3. /\ order \in OrderRow /\ order.settled = db.order.settled /\ order.status = "pending"
      /\ order.refunded = db.order.refunded /\ order.reversedQuota = db.order.reversedQuota
      /\ order.disputed = db.order.disputed /\ order.reversed = db.order.reversed
    BY <1>0 DEF OrderRow, OrderStatuses
<1>4. topUp \in OrderStatuses \cup {"success"} /\ topUp # "success"
    BY <1>0, <1>1, DbFields DEF OrderStatuses, Entitled
<1> HIDE DEF order, topUp
<1>5. /\ s \in Db /\ s.order = order /\ s.topUp = topUp /\ s.ledger = db.ledger
      /\ s.debt = db.debt /\ s.wallet = db.wallet
    BY <1>0, <1>3, <1>4 DEF Db
<1> HIDE DEF s
<1>6. Calm(db, s)
    BY <1>3, <1>5 DEF Calm
<1>7. Entitled(s)
    BY <1>0, <1>1, <1>3, <1>4, <1>5, <1>6, CalmEntitled
<1>8. /\ db' \in Db /\ Entitled(db') /\ Change(s, db') /\ PostedBy(s, db', e)
      /\ rejected => db'.order.settled = s.order.settled
    BY <1>0, <1>2, <1>5, <1>7, FulfilledFacts
<1>9. Change(db, db') /\ PostedBy(db, db', e)
    BY <1>0, <1>5, <1>6, <1>8, CalmThen
<1> QED BY <1>6, <1>8, <1>9 DEF DbStep, Calm

\* What requests spend is no concern of the order.
LEMMA SpendStep ==
    ASSUME TypeInv, EntitlementInv, NEW quota \in {-1, 1}, Spend(quota)
    PROVE  /\ db' \in Db /\ Entitled(db') /\ db'.ledger = db.ledger
           /\ db'.order = db.order /\ NetOf(db') + spent' = NetOf(db) + spent
           /\ spent' \in Int
<1>1. db \in Db /\ Entitled(db) /\ spent \in Int /\ quota \in Int
    BY DEF TypeInv, EntitlementInv
<1>2. /\ db' \in Db /\ db'.ledger = db.ledger /\ db'.order = db.order /\ db'.topUp = db.topUp
      /\ db'.debt = db.debt /\ db'.wallet = db.wallet - quota
    BY <1>1 DEF Spend, Db
<1>3. Entitled(db')
    BY <1>1, <1>2 DEF Entitled, Granted, Credits
<1>4. NetOf(db') + spent' = NetOf(db) + spent /\ spent' \in Int
    BY <1>1, <1>2, DbFields DEF Spend, NetOf
<1> QED BY <1>2, <1>3, <1>4

-----------------------------------------------------------------------------
(* The rows of the events and the requests that work on them               *)

\* Such an event has had its one transaction with the order.
Done(e) == Final(e) /\ rows[e].matched

\* What a step leaves of them: no row that is done is opened again.
RowsAndRequests ==
    /\ history' = history
    /\ rows' \in [E -> EventRow]
    /\ handlers' \in [Handlers -> Request]
    /\ \A h \in Handlers : handlers'[h].at # "idle" => handlers'[h].event \in E
    /\ RowsLocked'
    /\ \A e \in E : Done(e) => Done(e)'

\* One row changes, and keeps what was done.
RowStep(e) ==
    /\ rows' \in [E -> EventRow]
    /\ \A d \in E : d # e => rows'[d] = rows[d]
    /\ Done(e) => Done(e)'

\* Requests move on, and none of them begins to look for an order.
RequestsMove ==
    /\ handlers' \in [Handlers -> Request]
    /\ \A h \in Handlers : handlers'[h].at # "idle" => handlers'[h].event \in E
    /\ \A h \in Handlers : handlers'[h].at = "unmatched" => handlers'[h] = handlers[h]

\* A row is written.
LEMMA WrittenRow ==
    ASSUME TypeInv, NEW e \in E, NEW row \in EventRow, rows' = [rows EXCEPT ![e] = row],
           Done(e) => /\ row.status \in {"processed", "manual_review", "dismissed"}
                      /\ row.matched
    PROVE  RowStep(e) /\ rows'[e] = row
<1>1. rows' \in [E -> EventRow] /\ rows'[e] = row /\ \A d \in E : d # e => rows'[d] = rows[d]
    BY DEF TypeInv
<1>2. Done(e) => Done(e)'
    BY <1>1 DEF Done, Final
<1> QED BY <1>1, <1>2 DEF RowStep

\* finishPaymentEventTx keeps what was done unless it fails a finished event.
LEMMA FinishedRow ==
    ASSUME TypeInv, NEW e \in E, NEW matched \in BOOLEAN,
           NEW status \in {"failed", "processed", "manual_review", "dismissed"},
           status = "failed" => ~Final(e), Finish(e, status, matched)
    PROVE  /\ RowStep(e)
           /\ rows'[e].status = status /\ (matched => rows'[e].matched)
<1> DEFINE row == [status |-> status, matched |-> rows[e].matched \/ matched]
<1>1. row \in EventRow /\ row.status = status /\ row.matched = (rows[e].matched \/ matched)
    BY DEF TypeInv, EventRow
<1>2. rows' = [rows EXCEPT ![e] = row]
    BY DEF Finish
<1> HIDE DEF row
<1>3. Done(e) => /\ row.status \in {"processed", "manual_review", "dismissed"} /\ row.matched
    BY <1>1 DEF Done
<1>4. RowStep(e) /\ rows'[e] = row
    BY <1>1, <1>2, <1>3, WrittenRow
<1> QED BY <1>1, <1>4

\* A request goes on, with its event or with another one.
LEMMA GoneOn ==
    ASSUME TypeInv, NEW h \in Handlers, NEW request \in Request,
           request.at \notin {"idle", "unmatched"}, request.event \in E,
           handlers' = [handlers EXCEPT ![h] = request]
    PROVE  RequestsMove /\ handlers'[h] = request
BY DEF TypeInv, At, Request, RequestsMove

\* A request goes on with its event.
LEMMA GoneTo ==
    ASSUME TypeInv, NEW h \in Handlers, NEW step \in {"query", "record"},
           ~At(h, "idle"), Goto(h, step)
    PROVE  RequestsMove /\ handlers'[h].at = step
<1> DEFINE request == [handlers[h] EXCEPT !.at = step]
<1>1. request \in Request /\ request.at = step /\ request.event \in E
    BY DEF TypeInv, At, Request
<1>2. handlers' = [handlers EXCEPT ![h] = request]
    BY DEF Goto
<1> HIDE DEF request
<1> QED BY <1>1, <1>2, GoneOn

\* A request ends.
LEMMA MadeIdle ==
    ASSUME TypeInv, NEW h \in Handlers, handlers' = [handlers EXCEPT ![h] = Idle]
    PROVE  RequestsMove /\ handlers'[h].at = "idle"
BY DEF TypeInv, Idle, At, Request, RequestsMove

\* A step on one row keeps the locks when it makes no locked row final and locks
\* nothing.
LEMMA StepKeepsRows ==
    ASSUME TypeInv, RowsLocked, history' = history,
           NEW e \in E, RowStep(e), RequestsMove,
           \A g \in Handlers : handlers'[g].at = "unmatched" /\ handlers[g].event = e => ~Final(e)'
    PROVE  RowsAndRequests
<1>1. rows' \in [E -> EventRow] /\ handlers' \in [Handlers -> Request]
      /\ \A g \in Handlers : handlers'[g].at # "idle" => handlers'[g].event \in E
    BY DEF RowStep, RequestsMove
<1>2. RowsLocked'
    <2> SUFFICES ASSUME NEW g \in Handlers, At(g, "unmatched")'
                 PROVE  /\ ~Final(handlers[g].event)'
                        /\ \A f \in Handlers \ {g} :
                             At(f, "unmatched")' => handlers'[f].event # handlers'[g].event
        BY DEF RowsLocked
    <2>1. handlers'[g] = handlers[g] /\ At(g, "unmatched") /\ handlers[g].event \in E
        BY DEF RequestsMove, At, TypeInv
    <2>2. ~Final(handlers[g].event) /\ handlers'[g].event = handlers[g].event
        BY <2>1 DEF RowsLocked
    <2>3. ~Final(handlers[g].event)'
        <3>1. CASE handlers[g].event = e
            BY <2>1, <2>2, <3>1 DEF Final, At
        <3>2. CASE handlers[g].event # e
            BY <2>1, <2>2, <3>2 DEF Final, RowStep
        <3> QED BY <3>1, <3>2
    <2>4. ASSUME NEW f \in Handlers \ {g}, At(f, "unmatched")'
          PROVE  handlers'[f].event # handlers'[g].event
        <3>1. handlers'[f] = handlers[f] /\ At(f, "unmatched")
            BY <2>4 DEF RequestsMove, At
        <3> QED BY <2>1, <2>2, <2>4, <3>1 DEF RowsLocked
    <2> QED BY <2>3, <2>4
<1>3. ASSUME NEW d \in E, Done(d) PROVE Done(d)'
    <2>1. CASE d = e
        BY <1>3, <2>1 DEF RowStep
    <2>2. CASE d # e
        BY <1>3, <2>2 DEF RowStep, Done, Final
    <2> QED BY <2>1, <2>2
<1> QED BY <1>1, <1>2, <1>3 DEF RowsAndRequests

\* A step that writes no row.
LEMMA RowsUntouched ==
    ASSUME TypeInv, RowsLocked, UNCHANGED <<history, rows>>, RequestsMove
    PROVE  RowsAndRequests
<1>1. rows' \in [E -> EventRow] /\ handlers' \in [Handlers -> Request]
      /\ \A g \in Handlers : handlers'[g].at # "idle" => handlers'[g].event \in E
    BY DEF TypeInv, RequestsMove
<1>2. RowsLocked'
    BY DEF RowsLocked, RequestsMove, At, Final
<1>3. \A d \in E : Done(d) => Done(d)'
    BY DEF Done, Final
<1> QED BY <1>1, <1>2, <1>3 DEF RowsAndRequests

\* Requests that nobody touches.
LEMMA RequestsUntouched ==
    ASSUME TypeInv, UNCHANGED handlers PROVE RequestsMove
BY DEF TypeInv, RequestsMove, At

\* An event nobody has found an order for is final: no transaction looks at it.
LEMMA UnmatchedIsFree ==
    ASSUME TypeInv, RowsLocked, NEW e \in E, Unmatched(e) \/ Final(e)
    PROVE  ~Locked(e)
BY DEF RowsLocked, Locked, Unmatched, Final

\* Deliveries, again and again.
LEMMA DeliveryRows ==
    ASSUME TypeInv, RowsLocked, NEW h \in Handlers, NEW e \in E,
           Deliver(h, e) \/ Duplicate(h, e)
    PROVE  RowsAndRequests
<1> DEFINE request == [event |-> e, at |-> "received", replays |-> {}]
<1>1. RequestsMove
    <2>1. request \in Request /\ request.at = "received" /\ request.event = e
        BY DEF Request
    <2>2. handlers' = [handlers EXCEPT ![h] = request]
        BY DEF Deliver, Duplicate, Receive
    <2> HIDE DEF request
    <2> QED BY <2>1, <2>2, GoneOn
<1>2. history' = history
    BY DEF Deliver, Duplicate, Receive
<1>3. CASE rows' = rows
    BY <1>1, <1>2, <1>3, RowsUntouched
<1>4. CASE rows[e].status = "none" /\ rows' = [rows EXCEPT ![e].status = "received"]
    <2> DEFINE row == [rows[e] EXCEPT !.status = "received"]
    <2>1. row \in EventRow /\ row.status = "received"
        BY DEF TypeInv, EventRow
    <2>2. rows' = [rows EXCEPT ![e] = row]
        BY <1>4
    <2>3. ~Done(e)
        BY <1>4 DEF Done, Final
    <2> HIDE DEF row
    <2>4. RowStep(e) /\ rows'[e] = row
        BY <2>1, <2>2, <2>3, WrittenRow
    <2>5. ~Final(e)'
        BY <2>1, <2>4 DEF Final
    <2> QED BY <1>1, <1>2, <2>4, <2>5, StepKeepsRows
<1> QED BY <1>3, <1>4 DEF Deliver, Duplicate

\* A row that nobody has locked may be made final.
LEMMA FreeRowKept ==
    ASSUME TypeInv, RowsLocked, history' = history,
           NEW e \in E, ~Locked(e), RowStep(e), RequestsMove
    PROVE  RowsAndRequests
<1>1. \A g \in Handlers : ~(handlers'[g].at = "unmatched" /\ handlers[g].event = e)
    BY DEF RequestsMove, Locked, At
<1> QED BY <1>1, StepKeepsRows

\* The row of an event that settles.
LEMMA SettleKeepsRow ==
    ASSUME TypeInv, NEW e \in E, Settle(e)
    PROVE  RowStep(e) /\ Done(e)'
<1>1. PICK status \in {"processed", "manual_review", "dismissed"} :
          rows' = [rows EXCEPT ![e] = [status |-> status, matched |-> TRUE]]
    BY SettledRow
<1> DEFINE row == [status |-> status, matched |-> TRUE]
<1>2. row \in EventRow /\ row.status = status /\ row.matched
    BY DEF EventRow
<1>3. rows' = [rows EXCEPT ![e] = row]
    BY <1>1
<1> HIDE DEF row
<1>4. RowStep(e) /\ rows'[e] = row
    BY <1>2, <1>3, WrittenRow
<1> QED BY <1>2, <1>4 DEF Done, Final

\* processPaymentEvent: a transaction that finds no order locks the row, which is
\* not final and which nobody else has locked.
LEMMA ProcessRows ==
    ASSUME TypeInv, RowsLocked, NEW h \in Handlers, Process(h)
    PROVE  RowsAndRequests
<1> DEFINE e == handlers[h].event
<1>0. e \in E /\ At(h, "received") /\ ~At(h, "idle") /\ ~Locked(e) /\ history' = history
    BY DEF Process, TypeInv, At
<1>1. CASE AfterDuplicate(h, e)
    <2>1. CASE Goto(h, "query")
        <3>1. RequestsMove
            BY <1>0, <2>1, GoneTo
        <3> QED BY <1>0, <1>1, <3>1, RowsUntouched DEF AfterDuplicate
    <2>2. CASE Acknowledge(h)
        <3>1. RequestsMove
            BY <2>2, MadeIdle DEF Acknowledge
        <3> QED BY <1>0, <1>1, <3>1, RowsUntouched DEF AfterDuplicate
    <2> QED BY <1>1, <2>1, <2>2 DEF AfterDuplicate
<1>2. CASE AfterSettlement(h, e)
    <2>1. RowStep(e)
        BY <1>0, <1>2, SettleKeepsRow DEF AfterSettlement
    <2>2. RequestsMove
        <3>1. CASE Goto(h, "query")
            BY <1>0, <3>1, GoneTo
        <3>2. CASE Acknowledge(h)
            BY <3>2, MadeIdle DEF Acknowledge
        <3> QED BY <1>2, <3>1, <3>2 DEF AfterSettlement
    <2> QED BY <1>0, <2>1, <2>2, FreeRowKept
<1>3. CASE WithoutOrder(h, e)
    <2>1. ~Final(e) /\ rows' = rows /\ handlers' = [handlers EXCEPT ![h].at = "unmatched"]
        BY <1>3 DEF WithoutOrder, Goto
    <2>2. /\ handlers' \in [Handlers -> Request]
          /\ \A g \in Handlers : handlers'[g].event = handlers[g].event
          /\ \A g \in Handlers : g # h => handlers'[g] = handlers[g]
        BY <2>1 DEF TypeInv, Request
    <2>3. \A g \in Handlers : handlers'[g].at # "idle" => handlers'[g].event \in E
        BY <1>0, <2>2 DEF TypeInv, At
    <2>4. \A d \in E : Done(d) => Done(d)'
        BY <2>1 DEF Done, Final
    <2>5. RowsLocked'
        <3> SUFFICES ASSUME NEW g \in Handlers, At(g, "unmatched")'
                     PROVE  /\ ~Final(handlers[g].event)'
                            /\ \A f \in Handlers \ {g} :
                                 At(f, "unmatched")' => handlers'[f].event # handlers'[g].event
            BY DEF RowsLocked
        <3>1. ~Final(handlers[g].event)
            <4>1. CASE g = h
                BY <2>1, <4>1
            <4>2. CASE g # h
                BY <2>2, <4>2 DEF RowsLocked, At
            <4> QED BY <4>1, <4>2
        <3>2. ASSUME NEW f \in Handlers \ {g}, At(f, "unmatched")'
              PROVE  handlers[f].event # handlers[g].event
            <4>1. CASE g = h
                BY <1>0, <2>2, <3>2, <4>1 DEF At, Locked
            <4>2. CASE f = h
                BY <1>0, <2>2, <3>2, <4>2 DEF At, Locked
            <4>3. CASE g # h /\ f # h
                BY <2>2, <3>2, <4>3 DEF RowsLocked, At
            <4> QED BY <4>1, <4>2, <4>3
        <3> QED BY <2>1, <2>2, <3>1, <3>2 DEF Final
    <2> QED BY <1>0, <2>1, <2>2, <2>3, <2>4, <2>5 DEF RowsAndRequests, TypeInv
<1> QED BY <1>1, <1>2, <1>3 DEF Process

\* The other steps of a request, its end before it has answered included.
LEMMA RequestRows ==
    ASSUME TypeInv, RowsLocked, NEW h \in Handlers,
           \/ CommitUnmatched(h) \/ RecordUnmatched(h) \/ QueryUnmatched(h)
           \/ Replay(h) \/ ValidationFailed(h) \/ Crash(h)
    PROVE  RowsAndRequests
<1> DEFINE e == handlers[h].event
<1>0. e \in E /\ ~At(h, "idle") /\ history' = history
    BY DEF CommitUnmatched, RecordUnmatched, QueryUnmatched, Replay, ValidationFailed, Crash,
           TypeInv, At
<1>1. CASE CommitUnmatched(h)
    <2>1. ~Final(e) /\ \A g \in Handlers \ {h} : At(g, "unmatched") => handlers[g].event # e
        BY <1>1 DEF CommitUnmatched, RowsLocked
    <2>2. RowStep(e)
        <3>1. PICK status \in {"failed", "manual_review"} : Finish(e, status, FALSE)
            BY <1>1 DEF CommitUnmatched
        <3> QED BY <1>0, <2>1, <3>1, FinishedRow
    <2>3. RequestsMove /\ handlers'[h].at # "unmatched"
        <3>1. CASE Goto(h, "record")
            BY <1>0, <3>1, GoneTo
        <3>2. CASE Acknowledge(h)
            BY <3>2, MadeIdle DEF Acknowledge
        <3> QED BY <1>1, <3>1, <3>2 DEF CommitUnmatched
    <2>4. \A g \in Handlers : ~(handlers'[g].at = "unmatched" /\ handlers[g].event = e)
        BY <2>1, <2>3 DEF RequestsMove, At
    <2> QED BY <1>0, <2>2, <2>3, <2>4, StepKeepsRows
<1>2. CASE RecordUnmatched(h)
    <2>1. RequestsMove
        BY <1>2, MadeIdle DEF RecordUnmatched, Acknowledge
    <2>2. CASE rows' = rows
        BY <1>0, <2>1, <2>2, RowsUntouched
    <2>3. CASE rows' = [rows EXCEPT ![e].status = "manual_review"]
        <3> DEFINE row == [rows[e] EXCEPT !.status = "manual_review"]
        <3>1. row \in EventRow /\ row.status = "manual_review" /\ row.matched = rows[e].matched
            BY <1>0 DEF TypeInv, EventRow
        <3>2. rows' = [rows EXCEPT ![e] = row]
            BY <2>3
        <3> HIDE DEF row
        <3>3. RowStep(e)
            <4>1. Done(e) => row.matched
                BY <3>1 DEF Done
            <4> QED BY <1>0, <3>1, <3>2, <4>1, WrittenRow
        <3>4. ~Locked(e)
            BY <1>2 DEF RecordUnmatched
        <3> QED BY <1>0, <2>1, <3>3, <3>4, FreeRowKept
    <2> QED BY <1>2, <2>2, <2>3 DEF RecordUnmatched
<1>3. CASE QueryUnmatched(h)
    <2>1. CASE Acknowledge(h)
        <3>1. RequestsMove
            BY <2>1, MadeIdle DEF Acknowledge
        <3> QED BY <1>0, <1>3, <3>1, RowsUntouched DEF QueryUnmatched
    <2>2. CASE handlers' = [handlers EXCEPT ![h].at = "replay", ![h].replays = WaitingReversals]
        <3> DEFINE request == [handlers[h] EXCEPT !.at = "replay", !.replays = WaitingReversals]
        <3>1. WaitingReversals \subseteq E
            BY DEF WaitingReversals
        <3>2. request \in Request /\ request.at = "replay" /\ request.event = e
            BY <1>0, <3>1 DEF TypeInv, Request
        <3>3. handlers' = [handlers EXCEPT ![h] = request]
            BY <2>2 DEF TypeInv, Request
        <3> HIDE DEF request
        <3>4. RequestsMove
            BY <1>0, <3>2, <3>3, GoneOn
        <3> QED BY <1>0, <1>3, <3>4, RowsUntouched DEF QueryUnmatched
    <2> QED BY <1>3, <2>1, <2>2 DEF QueryUnmatched
<1>4. CASE Replay(h)
    <2> DEFINE replays == handlers[h].replays
    <2>1. PICK r \in replays :
            /\ IF Unmatched(r) /\ Found(r) THEN Settle(r) ELSE UNCHANGED <<rows, db>>
            /\ \/ Acknowledge(h)
               \/ handlers' = [handlers EXCEPT ![h].replays = replays \ {r}]
        BY <1>4 DEF Replay
    <2>2. r \in E /\ replays \subseteq E
        BY <2>1 DEF TypeInv, Request
    <2>3. RequestsMove
        <3>1. CASE Acknowledge(h)
            BY <3>1, MadeIdle DEF Acknowledge
        <3>2. CASE handlers' = [handlers EXCEPT ![h].replays = replays \ {r}]
            <4> DEFINE request == [handlers[h] EXCEPT !.replays = replays \ {r}]
            <4>1. request \in Request /\ request.at = "replay" /\ request.event = e
                BY <1>0, <1>4, <2>2 DEF TypeInv, Request, Replay, At
            <4>2. handlers' = [handlers EXCEPT ![h] = request]
                BY <3>2
            <4> HIDE DEF request
            <4> QED BY <1>0, <4>1, <4>2, GoneOn
        <3> QED BY <2>1, <3>1, <3>2
    <2>4. CASE Unmatched(r) /\ Settle(r)
        BY <1>0, <2>2, <2>3, <2>4, SettleKeepsRow, UnmatchedIsFree, FreeRowKept
    <2>5. CASE rows' = rows
        BY <1>0, <2>3, <2>5, RowsUntouched
    <2> QED BY <2>1, <2>4, <2>5
<1>5. CASE ValidationFailed(h)
    <2>1. RequestsMove
        BY <1>5, MadeIdle DEF ValidationFailed, Abandon
    <2>2. CASE rows' = rows
        BY <1>0, <2>1, <2>2, RowsUntouched
    <2>3. CASE ~Final(e) /\ rows' = [rows EXCEPT ![e].status = "failed"]
        <3> DEFINE row == [rows[e] EXCEPT !.status = "failed"]
        <3>1. row \in EventRow /\ ~Done(e)
            BY <1>0, <2>3 DEF TypeInv, EventRow, Done
        <3>2. rows' = [rows EXCEPT ![e] = row]
            BY <2>3
        <3> HIDE DEF row
        <3>3. RowStep(e)
            BY <1>0, <3>1, <3>2, WrittenRow
        <3>4. ~Locked(e)
            BY <1>5 DEF ValidationFailed
        <3> QED BY <1>0, <2>1, <3>3, <3>4, FreeRowKept
    <2> QED BY <1>5, <2>2, <2>3 DEF ValidationFailed
<1>6. CASE Crash(h)
    <2>1. RequestsMove
        BY <1>6, MadeIdle DEF Crash, Abandon
    <2> QED BY <1>6, <2>1, RowsUntouched DEF Crash
<1> QED BY <1>1, <1>2, <1>3, <1>4, <1>5, <1>6

\* Steps outside the requests.
LEMMA OtherRows ==
    ASSUME TypeInv, RowsLocked,
           \/ \E e \in E : ConflictingDelivery(e) \/ AdminLink(e) \/ AdminDismiss(e)
           \/ UNCHANGED <<history, rows, handlers>>
    PROVE  RowsAndRequests
<1>1. ASSUME NEW e \in E, ConflictingDelivery(e) \/ AdminLink(e) \/ AdminDismiss(e)
      PROVE  RowsAndRequests
    <2>1. RequestsMove /\ history' = history
        BY <1>1, RequestsUntouched DEF ConflictingDelivery, AdminLink, AdminDismiss, traffic
    <2>2. PICK status \in {"processed", "manual_review", "dismissed"}, matched \in BOOLEAN :
             Finish(e, status, matched)
        BY <1>1 DEF ConflictingDelivery, AdminLink, AdminDismiss
    <2>3. RowStep(e)
        BY <2>2, FinishedRow
    <2>4. ~Locked(e)
        BY <1>1, UnmatchedIsFree DEF ConflictingDelivery, AdminLink, AdminDismiss
    <2> QED BY <2>1, <2>3, <2>4, FreeRowKept
<1>2. ASSUME UNCHANGED <<history, rows, handlers>> PROVE RowsAndRequests
    BY <1>2, RequestsUntouched, RowsUntouched
<1> QED BY <1>1, <1>2

-----------------------------------------------------------------------------
(* The money of a step                                                     *)

\* What a step posts and moves; StepIsPosted says it of every step.
Posts ==
    /\ db.ledger \subseteq db'.ledger
    /\ \/ /\ MovesOf(db') = MovesOf(db)
          /\ NetOf(db') + spent' = NetOf(db) + spent
          /\ CreditedOf(db') = CreditedOf(db)
       \/ \E l \in MovesOf(db') \ MovesOf(db) :
            /\ MovesOf(db') = MovesOf(db) \cup {l}
            /\ NetOf(db') + spent' = NetOf(db) + spent + l.quota
            /\ CreditedOf(db') = IF l.type = "debt_resolved" THEN CreditedOf(db)
                                 ELSE CreditedOf(db) + l.quota

\* The posters of the entries that a step adds are done after it.
Posters(ledger) ==
    \A l \in ledger :
        /\ l.by > 0 => l.by \in E /\ Done(l.by)'
        /\ l.by < 0 => -l.by <= db'.order.refunded
        /\ l.by = 0 => debtEvent'

\* What the settlement's rows are after a step.
BooksAfter ==
    /\ db' \in Db /\ spent' \in Int /\ rejected' \in BOOLEAN /\ debtEvent' \in BOOLEAN
    /\ EntitlementInv' /\ Posts
    /\ db'.order.refunded >= db.order.refunded /\ (debtEvent => debtEvent')
    /\ Posters(db'.ledger \ db.ledger)

\* What is posted is posted whatever is spent elsewhere.
LEMMA ChangePosts ==
    ASSUME db \in Db, db' \in Db, spent \in Int, spent' = spent, Change(db, db')
    PROVE  Posts
<1>1. NetOf(db) \in Int /\ NetOf(db') \in Int
    BY DbFields DEF NetOf
<1>2. CASE MovesOf(db') = MovesOf(db) /\ NetOf(db') = NetOf(db) /\ CreditedOf(db') = CreditedOf(db)
    BY <1>2 DEF Posts, Change
<1>3. ASSUME NEW l \in MovesOf(db') \ MovesOf(db),
             MovesOf(db') = MovesOf(db) \cup {l},
             NetOf(db') = NetOf(db) + l.quota,
             CreditedOf(db') = IF l.type = "debt_resolved" THEN CreditedOf(db)
                                                            ELSE CreditedOf(db) + l.quota
      PROVE  Posts
    <2>1. l.quota \in Int
        BY DbFields DEF MovesOf
    <2>2. NetOf(db') + spent' = NetOf(db) + spent + l.quota
        BY <1>1, <1>3, <2>1
    <2> QED BY <1>3, <2>2 DEF Posts, Change
<1> QED BY <1>2, <1>3 DEF Change

\* A step of one poster, which is done after it.
LEMMA PosterBooks ==
    ASSUME TypeInv, EntitlementInv, NEW by \in Int, DbStep(by),
           spent' = spent, rejected' = rejected, debtEvent' \in BOOLEAN,
           debtEvent => debtEvent',
           by > 0 => by \in E /\ Done(by)',
           by < 0 => -by <= db'.order.refunded,
           by = 0 => debtEvent'
    PROVE  BooksAfter
<1>1. db \in Db /\ db' \in Db /\ spent' \in Int /\ rejected' \in BOOLEAN
    BY DEF TypeInv, DbStep
<1>2. EntitlementInv'
    BY DEF EntitlementInv, DbStep
<1>3. Posts
    BY <1>1, ChangePosts DEF DbStep, TypeInv
<1>4. Posters(db'.ledger \ db.ledger) /\ db'.order.refunded >= db.order.refunded
    BY DEF Posters, DbStep, PostedBy
<1> QED BY <1>1, <1>2, <1>3, <1>4 DEF BooksAfter

\* A step that posts nothing.
LEMMA QuietBooks ==
    ASSUME TypeInv, db' \in Db, Entitled(db'), Calm(db, db'), spent' = spent,
           rejected' \in BOOLEAN, rejected' => ~db.order.settled, debtEvent' = debtEvent
    PROVE  BooksAfter
<1>1. db \in Db /\ spent' \in Int /\ debtEvent' \in BOOLEAN
    BY DEF TypeInv
<1>2. Change(db, db') /\ PostedBy(db, db', 1)
    BY <1>1, CalmFacts
<1>3. Posts
    BY <1>1, <1>2, ChangePosts DEF TypeInv
<1>4. EntitlementInv'
    BY DEF EntitlementInv, Calm
<1>5. Posters(db'.ledger \ db.ledger) /\ db'.order.refunded >= db.order.refunded
    BY <1>2 DEF Posters, Calm, PostedBy
<1> QED BY <1>1, <1>3, <1>4, <1>5 DEF BooksAfter

\* A step that leaves the rows of the settlement alone.
LEMMA NoBooks ==
    ASSUME TypeInv, EntitlementInv, UNCHANGED <<db, spent, rejected, debtEvent>>
    PROVE  BooksAfter
<1>1. Calm(db, db')
    BY DEF Calm
<1> QED BY <1>1, QuietBooks DEF TypeInv, EntitlementInv

\* An event whose row is not final, or not matched, has not posted yet: its
\* transaction posts under its own name, and only once.
LEMMA SettleBooks ==
    ASSUME TypeInv, EntitlementInv, PostersDone, NEW e \in E, ~Done(e), Settle(e),
           UNCHANGED <<spent, rejected, debtEvent>>
    PROVE  BooksAfter
<1>1. e \in Int /\ e > 0
    BY EventsArePositive
<1>2. ~(\E l \in db.ledger : l.by = e)
    BY <1>1 DEF PostersDone, Done
<1>3. DbStep(e)
    BY <1>2, SettleStep
<1>4. Done(e)'
    BY SettleKeepsRow
<1> QED BY <1>1, <1>3, <1>4, PosterBooks DEF TypeInv

\* The steps of the requests.
LEMMA RequestBooks ==
    ASSUME TypeInv, EntitlementInv, PostersDone, NEW h \in Handlers,
           \/ HandlerStep(h) \/ ValidationFailed(h) \/ Crash(h)
           \/ \E e \in E : Deliver(h, e) \/ Duplicate(h, e)
    PROVE  BooksAfter
<1>1. CASE Process(h)
    <2> DEFINE e == handlers[h].event
    <2>1. e \in E /\ UNCHANGED <<spent, rejected, debtEvent>>
        BY <1>1 DEF Process, TypeInv, At
    <2>2. CASE AfterSettlement(h, e)
        BY <2>1, <2>2, SettleBooks DEF AfterSettlement, Done
    <2>3. CASE db' = db
        BY <2>1, <2>3, NoBooks
    <2> QED BY <1>1, <2>2, <2>3 DEF Process, AfterDuplicate, WithoutOrder
<1>2. CASE Replay(h)
    <2>1. PICK r \in handlers[h].replays :
            IF Unmatched(r) /\ Found(r) THEN Settle(r) ELSE UNCHANGED <<rows, db>>
        BY <1>2 DEF Replay
    <2>2. r \in E /\ UNCHANGED <<spent, rejected, debtEvent>>
        BY <1>2, <2>1 DEF TypeInv, Request, Replay
    <2>3. CASE Unmatched(r) /\ Settle(r)
        BY <2>2, <2>3, SettleBooks DEF Unmatched, Done
    <2>4. CASE db' = db
        BY <2>2, <2>4, NoBooks
    <2> QED BY <2>1, <2>3, <2>4
<1>3. CASE UNCHANGED <<db, spent, rejected, debtEvent>>
    BY <1>3, NoBooks
<1> QED BY <1>1, <1>2, <1>3 DEF HandlerStep, CommitUnmatched, RecordUnmatched, QueryUnmatched,
        ValidationFailed, Crash, Deliver, Duplicate, Receive

\* The steps of the server itself and of administrators.
LEMMA OtherBooks ==
    ASSUME TypeInv, EntitlementInv, PostersDone,
           \/ \E e \in E : ConflictingDelivery(e) \/ AdminLink(e) \/ AdminDismiss(e)
           \/ SaveStart
           \/ \E status \in {"expired", "failed", "manual_review"} : CloseLocally(status)
           \/ \E quota \in {-1, 1} : Spend(quota)
           \/ AdminReject \/ AdminResolveDebt
           \/ \E refunded \in ExternalRefunds : AdminExternalRefund(refunded)
    PROVE  BooksAfter
<1>0. db \in Db /\ Entitled(db) /\ spent \in Int /\ (rejected => ~db.order.settled)
      /\ rejected \in BOOLEAN /\ debtEvent \in BOOLEAN
    BY DEF TypeInv, EntitlementInv
<1>1. CASE \/ SaveStart \/ AdminReject
           \/ \E status \in {"expired", "failed", "manual_review"} : CloseLocally(status)
           \/ \E e \in E : ConflictingDelivery(e)
    <2>1. DbStep(1) /\ Calm(db, db')
        BY <1>1, ClosingStep
    <2>2. spent' = spent /\ debtEvent' = debtEvent
        BY <1>1 DEF SaveStart, AdminReject, CloseLocally, ConflictingDelivery
    <2>3. rejected' \in BOOLEAN /\ (rejected' => ~db.order.settled)
        <3>1. CASE AdminReject
            BY <1>0, <3>1 DEF AdminReject, Entitled
        <3>2. CASE rejected' = rejected
            BY <1>0, <3>2
        <3> QED BY <1>1, <3>1, <3>2 DEF SaveStart, CloseLocally, ConflictingDelivery
    <2> QED BY <2>1, <2>2, <2>3, QuietBooks DEF DbStep
<1>2. ASSUME NEW e \in E, AdminLink(e) PROVE BooksAfter
    <2>1. DbStep(e) /\ e \in Int /\ e > 0
        BY <1>2, LinkStep, EventsArePositive
    <2>2. Done(e)'
        <3>1. rows'[e].status = "processed" /\ rows'[e].matched
            BY <1>2, FinishedRow DEF AdminLink
        <3> QED BY <3>1 DEF Done, Final
    <2>3. UNCHANGED <<spent, rejected, debtEvent>>
        BY <1>2 DEF AdminLink
    <2> QED BY <1>0, <2>1, <2>2, <2>3, PosterBooks
<1>3. ASSUME NEW e \in E, AdminDismiss(e) PROVE BooksAfter
    BY <1>3, NoBooks DEF AdminDismiss
<1>4. ASSUME NEW quota \in {-1, 1}, Spend(quota) PROVE BooksAfter
    <2>1. /\ db' \in Db /\ Entitled(db') /\ db'.ledger = db.ledger
          /\ db'.order = db.order /\ NetOf(db') + spent' = NetOf(db) + spent
          /\ spent' \in Int
        BY <1>4, SpendStep
    <2>2. rejected' = rejected /\ debtEvent' = debtEvent
        BY <1>4 DEF Spend
    <2>3. Posts
        BY <2>1 DEF Posts, MovesOf, CreditedOf
    <2>4. EntitlementInv'
        BY <1>0, <2>1, <2>2 DEF EntitlementInv
    <2>5. Posters(db'.ledger \ db.ledger) /\ db'.order.refunded >= db.order.refunded
        BY <1>0, <2>1, DbFields DEF Posters
    <2> QED BY <1>0, <2>1, <2>2, <2>3, <2>4, <2>5 DEF BooksAfter
<1>5. CASE AdminResolveDebt
    <2>1. DbStep(0)
        BY <1>5, ResolveDebtStep
    <2>2. spent' = spent /\ rejected' = rejected /\ debtEvent' = TRUE
        BY <1>5 DEF AdminResolveDebt
    <2> QED BY <2>1, <2>2, PosterBooks
<1>6. ASSUME NEW refunded \in ExternalRefunds, AdminExternalRefund(refunded) PROVE BooksAfter
    <2> DEFINE by == -refunded
    <2>1. DbStep(by) /\ db'.order.refunded = refunded
        BY <1>6, ExternalRefundStep
    <2>2. by \in Int /\ by < 0 /\ -by <= db'.order.refunded
        BY <2>1, AmountsAssumption
    <2>3. UNCHANGED <<spent, rejected, debtEvent>>
        BY <1>6 DEF AdminExternalRefund
    <2> HIDE DEF by
    <2> QED BY <1>0, <2>1, <2>2, <2>3, PosterBooks
<1> QED BY <1>1, <1>2, <1>3, <1>4, <1>5, <1>6

-----------------------------------------------------------------------------
(* The invariants are inductive                                            *)

\* The inductive invariant of a settlement.
IInv == TypeInv /\ EntitlementInv /\ LedgerInv

\* It holds of a new order.
LEMMA InitInv == Init => IInv
<1> SUFFICES ASSUME Init PROVE IInv
    OBVIOUS
<1>1. history \in Seq(Event) /\ rows = [e \in E |-> [status |-> "none", matched |-> FALSE]]
    BY HistoriesAssumption DEF Init
<1>2. db \in Db
    <2> DEFINE order == [status |-> "pending", settled |-> FALSE, bound |-> FALSE,
                         refunded |-> 0, disputed |-> 0, reversed |-> 0, reversedQuota |-> 0]
    <2>1. order \in OrderRow
        BY AmountsAssumption DEF OrderRow, OrderStatuses
    <2>2. db = [order |-> order, topUp |-> "pending", ledger |-> {},
                debt |-> [status |-> "none", quota |-> 0], wallet |-> InitQuota]
        BY DEF Init
    <2> HIDE DEF order
    <2> QED BY <2>1, <2>2, AmountsAssumption DEF Db, OrderStatuses
<1>3. rows \in [E -> EventRow]
    BY <1>1 DEF EventRow
<1>4. /\ handlers \in [Handlers -> Request]
      /\ \A h \in Handlers : At(h, "idle")
    BY DEF Init, Idle, Request, At
<1>5. TypeInv
    <2>1. rejected = FALSE /\ debtEvent = FALSE /\ spent = 0
        BY Zenon DEF Init
    <2>2. rejected \in BOOLEAN /\ debtEvent \in BOOLEAN
        BY <2>1, Zenon
    <2>3. spent \in Int
        BY <2>1
    <2> QED BY <1>1, <1>2, <1>3, <1>4, <2>2, <2>3, Zenon DEF TypeInv
<1>6. EntitlementInv
    BY DEF Init, EntitlementInv, Entitled, Granted, Credits
<1>7. LedgerInv
    BY <1>4 DEF Init, LedgerInv, RowsLocked, PostersDone, At
<1> QED BY <1>5, <1>6, <1>7 DEF IInv

\* Every step keeps it and posts what it moves.
LEMMA NextInv ==
    ASSUME IInv, [Next]_vars
    PROVE  IInv' /\ Posts
<1>0. TypeInv /\ EntitlementInv /\ RowsLocked /\ PostersDone
    BY DEF IInv, LedgerInv
<1>1. RowsAndRequests
    <2>1. CASE \E h \in Handlers : Process(h)
        BY <1>0, <2>1, ProcessRows
    <2>2. CASE \E h \in Handlers : \/ CommitUnmatched(h) \/ RecordUnmatched(h) \/ QueryUnmatched(h)
                                   \/ Replay(h) \/ ValidationFailed(h) \/ Crash(h)
        BY <1>0, <2>2, RequestRows
    <2>3. CASE \E h \in Handlers, e \in E : Deliver(h, e) \/ Duplicate(h, e)
        BY <1>0, <2>3, DeliveryRows
    <2>4. CASE \/ \E e \in E : ConflictingDelivery(e) \/ AdminLink(e) \/ AdminDismiss(e)
               \/ UNCHANGED <<history, rows, handlers>>
        BY <1>0, <2>4, OtherRows
    <2> QED BY <2>1, <2>2, <2>3, <2>4 DEF Next, HandlerStep, vars, traffic, SaveStart, CloseLocally,
            Spend, AdminReject, AdminResolveDebt, AdminExternalRefund
<1>2. BooksAfter
    <2>1. CASE \E h \in Handlers : \/ HandlerStep(h) \/ ValidationFailed(h) \/ Crash(h)
                                   \/ \E e \in E : Deliver(h, e) \/ Duplicate(h, e)
        BY <1>0, <2>1, RequestBooks
    <2>2. CASE \/ \E e \in E : ConflictingDelivery(e) \/ AdminLink(e) \/ AdminDismiss(e)
               \/ SaveStart
               \/ \E status \in {"expired", "failed", "manual_review"} : CloseLocally(status)
               \/ \E quota \in {-1, 1} : Spend(quota)
               \/ AdminReject \/ AdminResolveDebt
               \/ \E refunded \in ExternalRefunds : AdminExternalRefund(refunded)
        BY <1>0, <2>2, OtherBooks
    <2>3. CASE UNCHANGED vars
        BY <1>0, <2>3, NoBooks DEF vars
    <2> QED BY <2>1, <2>2, <2>3 DEF Next
<1>3. E' = E /\ Request' = Request
    BY <1>1 DEF RowsAndRequests, E, Request
<1>4. TypeInv'
    BY <1>0, <1>1, <1>2, <1>3 DEF TypeInv, RowsAndRequests, BooksAfter, At
<1>5. PostersDone'
    <2> SUFFICES ASSUME NEW l \in db'.ledger
                 PROVE  /\ l.by > 0 => l.by \in E' /\ Final(l.by)' /\ rows'[l.by].matched
                        /\ l.by < 0 => -l.by <= db'.order.refunded
                        /\ l.by = 0 => debtEvent'
        BY DEF PostersDone
    <2>1. CASE l \in db.ledger
        <3>1. /\ l.by > 0 => l.by \in E /\ Done(l.by)
              /\ l.by < 0 => -l.by <= db.order.refunded
              /\ l.by = 0 => debtEvent
            BY <1>0, <2>1 DEF PostersDone, Done
        <3>2. l.by \in Int /\ db.order.refunded \in Int /\ db'.order.refunded \in Int
            BY <1>0, <1>2, DbFields DEF TypeInv, BooksAfter
        <3>3. l.by > 0 => Done(l.by)'
            BY <1>1, <3>1 DEF RowsAndRequests
        <3> QED BY <1>2, <1>3, <3>1, <3>2, <3>3 DEF BooksAfter, Done
    <2>2. CASE l \notin db.ledger
        BY <1>2, <1>3, <2>2 DEF BooksAfter, Posters, Done
    <2> QED BY <2>1, <2>2
<1>6. RowsLocked' /\ EntitlementInv' /\ Posts
    BY <1>1, <1>2 DEF RowsAndRequests, BooksAfter
<1> QED BY <1>4, <1>5, <1>6 DEF IInv, LedgerInv

-----------------------------------------------------------------------------
(* Theorems                                                                *)

\* The inductive invariant holds in every state: the rows are well typed, the
\* wallet stays within 0 and the largest quota, ledger, order and projection
\* agree, and no poster will post twice.
THEOREM SettlementIsSound == Spec => []IInv
<1>1. Init => IInv
    BY InitInv
<1>2. IInv /\ [Next]_vars => IInv'
    BY NextInv
<1> QED BY <1>1, <1>2, PTL DEF Spec

\* The books of an order agree on whether it was credited, whatever the provider
\* reports and in whatever order: paymentEntitlementGrantedTx never refuses a
\* reversal because ledger, order and projection disagree, and no order is
\* credited twice.
THEOREM CreditSourcesAgree == Spec => []EntitlementSourcesAgree
<1>1. IInv => EntitlementSourcesAgree
    <2> SUFFICES ASSUME IInv PROVE SourcesAgree(db)
        BY DEF EntitlementSourcesAgree
    <2>1. db \in Db /\ Entitled(db)
        BY DEF IInv, TypeInv, EntitlementInv
    <2>2. Cardinality(Credits(db)) <= 1
        <3>1. CASE Credits(db) = {}
            BY <3>1, FS_EmptySet
        <3>2. ASSUME NEW l \in Credits(db) PROVE Cardinality(Credits(db)) <= 1
            <4>1. Credits(db) = {l}
                BY <2>1, <3>2 DEF Entitled
            <4>2. Cardinality({l}) = 1
                BY FS_Singleton
            <4> QED BY <4>1, <4>2
        <3> QED BY <3>1, <3>2
    <2>3. Granted(db) = (db.order.settled \/ db.order.status \in {"fulfilled", "debt", "disputed"})
        BY <2>1, DbFields DEF Entitled, Granted
    <2> QED BY <2>1, <2>2, <2>3 DEF SourcesAgree, Entitled
<1> QED BY <1>1, SettlementIsSound, PTL

\* An order an administrator has rejected is never credited afterwards, neither
\* by a payment that arrives late nor by one that is linked by hand.
THEOREM RejectionHolds == Spec => []RejectedStaysUncredited
<1>1. IInv => RejectedStaysUncredited
    BY DEF IInv, EntitlementInv, Entitled, RejectedStaysUncredited
<1> QED BY <1>1, SettlementIsSound, PTL

\* Every step of every run posts exactly the quota it moves between the order
\* and the user, in one new entry that nothing removes or changes: the step that
\* BooksBalance adds up.
THEOREM MoneyIsPosted == Spec => StepIsPosted
<1>1. IInv /\ [Next]_vars => [Posts]_vars
    BY NextInv
<1> QED BY <1>1, SettlementIsSound, PTL DEF Spec, StepIsPosted, Posts

-----------------------------------------------------------------------------
(* The sums of the ledger                                                  *)

\* What a set of entries adds up to.
SumOf(L) == MapThenSumSet(LAMBDA l : l.quota, L)

\* MapThenSumSet adds up the quotas of the entries.
LEMMA SumOfIsSum ==
    ASSUME NEW L, IsFiniteSet(L), \A l \in L : l.quota \in Int
    PROVE  IsSum(SumOf(L), [l \in L |-> l.quota], L)
<1> DEFINE w == [l \in L |-> l.quota]
           Iterates(F) == F = [s \in SUBSET L |->
                                 IF s = {} THEN 0
                                 ELSE (CHOOSE x \in s : TRUE).quota + F[s \ {CHOOSE x \in s : TRUE}]]
           iter == CHOOSE F : Iterates(F)
<1>1. \A F : Iterates(F) <=> AddsUp(F, w, L)
    <2> SUFFICES ASSUME NEW F PROVE Iterates(F) <=> AddsUp(F, w, L)
        OBVIOUS
    <2>1. ASSUME NEW s \in SUBSET L, s # {} PROVE w[AnyOf(s)] = AnyOf(s).quota
        BY <2>1, AnyOfFacts
    <2>2. \A s \in SUBSET L :
            (IF s = {} THEN 0
             ELSE (CHOOSE x \in s : TRUE).quota + F[s \ {CHOOSE x \in s : TRUE}])
            = (IF s = {} THEN 0 ELSE w[AnyOf(s)] + F[s \ {AnyOf(s)}])
        BY <2>1 DEF AnyOf
    <2> QED BY <2>2 DEF AddsUp
<1>2. \E F : AddsUp(F, w, L)
    <2>1. w \in [L -> Int]
        OBVIOUS
    <2> HIDE DEF w
    <2> QED BY <2>1, SumsExist
<1>3. Iterates(iter)
    <2> HIDE DEF Iterates, w
    <2>1. PICK F : AddsUp(F, w, L)
        BY <1>2
    <2>2. Iterates(F)
        BY <1>1, <2>1
    <2> QED BY <2>2
<1>4. SumOf(L) = iter[L]
    BY DEF SumOf, MapThenSumSet, MapThenFoldSet
<1> HIDE DEF Iterates, iter, w
<1>5. AddsUp(iter, w, L)
    BY <1>1, <1>3
<1>6. IsSum(SumOf(L), w, L)
    BY <1>4, <1>5 DEF IsSum
<1> QED BY <1>6 DEF w

\* It is 0 without entries and an integer otherwise.
LEMMA SumOfFacts ==
    ASSUME NEW L, IsFiniteSet(L), \A l \in L : l.quota \in Int
    PROVE  SumOf(L) \in Int /\ (L = {} => SumOf(L) = 0)
<1> DEFINE w == [l \in L |-> l.quota]
<1>1. IsSum(SumOf(L), w, L)
    BY SumOfIsSum
<1>2. w \in [L -> Int]
    OBVIOUS
<1> HIDE DEF w
<1> QED BY <1>1, <1>2, SumType

\* A new entry adds its quota.
LEMMA SumOfAdds ==
    ASSUME NEW L, IsFiniteSet(L), NEW k, k \notin L, \A l \in L \cup {k} : l.quota \in Int
    PROVE  IsFiniteSet(L \cup {k}) /\ SumOf(L \cup {k}) = SumOf(L) + k.quota
<1> DEFINE T == L \cup {k}
           w == [l \in T |-> l.quota]
           v == [l \in L |-> l.quota]
<1>1. IsFiniteSet(T) /\ k \in T /\ T \ {k} = L
    BY FS_AddElement
<1>2. IsSum(SumOf(T), w, T)
    BY <1>1, SumOfIsSum
<1>3. IsSum(SumOf(L), v, L)
    BY SumOfIsSum
<1>4. w \in [T -> Int] /\ w[k] = k.quota /\ \A l \in L : v[l] = w[l]
    OBVIOUS
<1> HIDE DEF T, w, v
<1>5. SumOf(T) = SumOf(L) + w[k]
    BY <1>1, <1>2, <1>3, <1>4, SumWithout
<1> QED BY <1>1, <1>4, <1>5 DEF T

\* The entries that concern the credit itself, not its debt.
CreditMovesOf(s) == {l \in MovesOf(s) : l.type # "debt_resolved"}

\* Books, in these terms.
LEMMA BooksMeaning ==
    ASSUME db \in Db
    PROVE  Books <=> /\ db.wallet + spent - db.debt.quota = InitQuota + SumOf(MovesOf(db))
                     /\ SumOf(CreditMovesOf(db)) = CreditedOf(db)
<1>1. \A l \in db.ledger : l.type \in EntryTypes
    BY DbFields
<1>2. {l \in db.ledger : l.type \in {"credit", "refund_reversal", "dispute_reversal",
                                     "reversal_restored", "debt_resolved"}} = MovesOf(db)
    BY <1>1 DEF MovesOf, EntryTypes
<1>3. {l \in db.ledger : l.type \in {"credit", "refund_reversal", "dispute_reversal",
                                     "reversal_restored"}} = CreditMovesOf(db)
    BY <1>1 DEF CreditMovesOf, MovesOf, EntryTypes
<1>4. /\ LedgerSum({"credit", "refund_reversal", "dispute_reversal",
                    "reversal_restored", "debt_resolved"}) = SumOf(MovesOf(db))
      /\ LedgerSum({"credit", "refund_reversal", "dispute_reversal",
                    "reversal_restored"}) = SumOf(CreditMovesOf(db))
    BY <1>2, <1>3 DEF LedgerSum, SumOf
<1> QED BY <1>4 DEF Books, CreditedOf

\* Finitely many entries, and the books balance.
BooksInv == IsFiniteSet(MovesOf(db)) /\ Books

\* They do for a new order.
LEMMA InitBooks == Init => BooksInv
<1> SUFFICES ASSUME Init PROVE BooksInv
    OBVIOUS
<1>1. db \in Db
    BY InitInv DEF IInv, TypeInv
<1>2. /\ db.wallet = InitQuota /\ db.debt.quota = 0 /\ spent = 0
      /\ db.order.settled = FALSE /\ db.order.reversedQuota = 0 /\ db.ledger = {}
    BY DEF Init
<1>3. MovesOf(db) = {} /\ CreditMovesOf(db) = {}
    BY <1>2 DEF MovesOf, CreditMovesOf
<1>4. IsFiniteSet({}) /\ SumOf({}) = 0
    BY FS_EmptySet, SumOfFacts
<1>5. CreditedOf(db) = 0
    BY <1>2 DEF CreditedOf
<1>6. Books
    BY <1>1, <1>2, <1>3, <1>4, <1>5, BooksMeaning, AmountsAssumption
<1> QED BY <1>3, <1>4, <1>6 DEF BooksInv

\* They still do after a step that posts what it moves.
LEMMA PostsKeepBooks ==
    ASSUME IInv, IInv', BooksInv, Posts
    PROVE  BooksInv'
<1> DEFINE M == MovesOf(db)
           C == CreditMovesOf(db)
<1>1. db \in Db /\ db' \in Db /\ spent \in Int /\ spent' \in Int
    BY DEF IInv, TypeInv
<1>2. /\ \A l \in MovesOf(db) : l.quota \in Int
      /\ \A l \in MovesOf(db') : l.quota \in Int
    BY <1>1, DbFields DEF MovesOf
<1>3. IsFiniteSet(M) /\ IsFiniteSet(C) /\ C \subseteq M
    BY FS_Subset DEF BooksInv, CreditMovesOf
<1>4. SumOf(M) \in Int /\ SumOf(C) \in Int
    BY <1>2, <1>3, SumOfFacts
<1>5. NetOf(db) + spent = InitQuota + SumOf(M) /\ SumOf(C) = CreditedOf(db)
    BY <1>1, BooksMeaning, DbFields DEF BooksInv, NetOf
<1>6. /\ NetOf(db) \in Int /\ NetOf(db') \in Int
      /\ db'.wallet + spent' - db'.debt.quota = NetOf(db') + spent'
    BY <1>1, DbFields DEF NetOf
<1>7. Books' <=> /\ NetOf(db') + spent' = InitQuota + SumOf(MovesOf(db'))
                 /\ SumOf(CreditMovesOf(db')) = CreditedOf(db')
    <2>1. Books' <=> /\ db'.wallet + spent' - db'.debt.quota = InitQuota + SumOf(MovesOf(db'))
                     /\ SumOf(CreditMovesOf(db')) = CreditedOf(db')
        <3>1. (db \in Db)' => (Books <=> /\ db.wallet + spent - db.debt.quota = InitQuota + SumOf(MovesOf(db))
                                         /\ SumOf(CreditMovesOf(db)) = CreditedOf(db))'
            BY BooksMeaning, PTL
        <3> QED BY <1>1, <3>1
    <2> QED BY <1>6, <2>1
<1>8. CASE /\ MovesOf(db') = MovesOf(db)
           /\ NetOf(db') + spent' = NetOf(db) + spent
           /\ CreditedOf(db') = CreditedOf(db)
    <2>1. CreditMovesOf(db') = C
        BY <1>8 DEF CreditMovesOf
    <2> QED BY <1>3, <1>5, <1>7, <1>8, <2>1 DEF BooksInv
<1>9. ASSUME NEW l \in MovesOf(db') \ MovesOf(db),
             MovesOf(db') = MovesOf(db) \cup {l},
             NetOf(db') + spent' = NetOf(db) + spent + l.quota,
             CreditedOf(db') = IF l.type = "debt_resolved" THEN CreditedOf(db)
                               ELSE CreditedOf(db) + l.quota
      PROVE  BooksInv'
    <2>1. l.quota \in Int /\ l \notin M /\ \A k \in M \cup {l} : k.quota \in Int
        BY <1>2, <1>9
    <2>2. IsFiniteSet(M \cup {l}) /\ SumOf(M \cup {l}) = SumOf(M) + l.quota
        BY <1>3, <2>1, SumOfAdds
    <2>3. NetOf(db') + spent' = InitQuota + SumOf(MovesOf(db'))
        BY <1>4, <1>5, <1>6, <1>9, <2>1, <2>2, AmountsAssumption
    <2>4. SumOf(CreditMovesOf(db')) = CreditedOf(db')
        <3>1. CASE l.type = "debt_resolved"
            <4>1. CreditMovesOf(db') = C
                BY <1>9, <3>1 DEF CreditMovesOf
            <4> QED BY <1>5, <1>9, <3>1, <4>1
        <3>2. CASE l.type # "debt_resolved"
            <4>1. CreditMovesOf(db') = C \cup {l} /\ l \notin C
                BY <1>3, <1>9, <2>1, <3>2 DEF CreditMovesOf
            <4>2. \A k \in C \cup {l} : k.quota \in Int
                BY <1>3, <2>1
            <4>3. SumOf(C \cup {l}) = SumOf(C) + l.quota
                BY <1>3, <4>1, <4>2, SumOfAdds
            <4> QED BY <1>5, <1>9, <3>2, <4>1, <4>3
        <3> QED BY <3>1, <3>2
    <2> QED BY <1>7, <1>9, <2>2, <2>3, <2>4 DEF BooksInv
<1> QED BY <1>8, <1>9 DEF Posts

\* What the user has, has spent and owes is what the ledger of the order posted,
\* and the ledger posted what the order says was credited and reversed: for every
\* history of events, delivered in any order and any number of times.
THEOREM BooksBalance == Spec => []Books
<1>1. Init => BooksInv
    BY InitBooks
<1>2. IInv /\ IInv' /\ BooksInv /\ [Next]_vars => BooksInv'
    BY NextInv, PostsKeepBooks
<1>3. BooksInv => Books
    BY DEF BooksInv
<1> QED BY <1>1, <1>2, <1>3, SettlementIsSound, PTL DEF Spec

-----------------------------------------------------------------------------
(* The amounts of an order                                                 *)

\* An order that was never credited has nothing to reverse; once a refund is on
\* record it cannot be credited any more, and it counts as refunded only when
\* the whole payment is.
Uncredited(s) ==
    /\ s.order.disputed = 0 /\ s.order.reversed = 0 /\ s.order.reversedQuota = 0
    /\ s.order.refunded > 0 =>
         /\ s.order.status # "pending"
         /\ \/ s.order.status = "manual_review"
            \/ s.topUp \notin {"pending", "manual_review", "failed", "expired"}
    /\ s.order.status = "refunded" => s.order.refunded = Expected

\* The amounts of the order fit each other.
Consistent(s) == IF s.order.settled THEN Reversed(s.order) ELSE Uncredited(s)

\* Nothing is reversed for nothing.
LEMMA NothingReversed == ReversedQuota(0) = 0
<1>1. ASSUME NEW b \in Nat \ {0} PROVE b \div (2 * b) = 0
    OBVIOUS
<1>2. 2 * CreditQuota * 0 + Expected = Expected
    BY AmountsAssumption
<1> QED BY <1>1, <1>2, AmountsAssumption DEF ReversedQuota

\* A step that moves no money keeps the amounts; status and projection have to
\* fit a refund on record.
LEMMA CalmConsistent ==
    ASSUME NEW s, NEW r, Calm(s, r), Consistent(s),
           ~s.order.settled /\ s.order.refunded > 0 =>
               /\ r.order.status # "pending"
               /\ \/ r.order.status = "manual_review"
                  \/ r.topUp \notin {"pending", "manual_review", "failed", "expired"},
           ~s.order.settled /\ r.order.status = "refunded" => s.order.refunded = Expected
    PROVE  Consistent(r)
BY DEF Calm, Consistent, Reversed, Uncredited

\* Binding the key.
LEMMA BoundConsistent ==
    ASSUME NEW s \in Db, Entitled(s), Consistent(s), NEW e
    PROVE  Consistent(Bound(s, e))
<1> DEFINE r == Bound(s, e)
<1>1. Calm(s, r) /\ r.order.status = s.order.status /\ r.topUp = s.topUp
    BY BoundFacts
<1> HIDE DEF r
<1>2. Consistent(r)
    BY <1>1, CalmConsistent DEF Consistent, Uncredited
<1> QED BY <1>2 DEF r

\* A credited order had nothing refunded before.
LEMMA FulfilledConsistent ==
    ASSUME NEW s \in Db, Entitled(s), Consistent(s), NEW by \in Int, ~CannotFulfill(s)
    PROVE  LET r == Fulfilled(s, by)
           IN /\ Consistent(r) /\ SameAmounts(s, r) /\ NotesOf(r) = NotesOf(s)
              /\ s.order.settled => r.order.settled
              /\ r.order.settled \/ r.order.refunded = Expected
<1> DEFINE r == Fulfilled(s, by)
<1>1. /\ r \in Db
      /\ IF AlreadySettled(s) THEN r = s
         ELSE /\ ~s.order.settled /\ r.order.settled
              /\ s.order.status # "manual_review"
              /\ s.topUp \in {"pending", "manual_review", "failed", "expired"}
              /\ SameAmounts(s, r) /\ NotesOf(r) = NotesOf(s)
    BY FulfilledFacts
<1> HIDE DEF r
<1>2. CASE AlreadySettled(s)
    <2>1. r = s
        BY <1>1, <1>2
    <2>2. s.order.settled \/ s.order.refunded = Expected
        BY <1>2 DEF AlreadySettled, Entitled, Consistent, Uncredited
    <2> QED BY <2>1, <2>2 DEF SameAmounts, r
<1>3. CASE ~AlreadySettled(s)
    <2>1. ~s.order.settled /\ r.order.settled /\ SameAmounts(s, r) /\ NotesOf(r) = NotesOf(s)
        BY <1>1, <1>3
    <2>2. s.order.refunded = 0 /\ Uncredited(s)
        <3>1. s.order.refunded \in Nat
            BY DbFields, AmountsAssumption
        <3> QED BY <1>1, <1>3, <3>1 DEF Consistent, Uncredited
    <2>3. Smaller(Expected, 0 + 0) = 0
        BY AmountsAssumption DEF Smaller
    <2>4. Reversed(r.order)
        BY <2>1, <2>2, <2>3, NothingReversed DEF SameAmounts, Reversed, Uncredited
    <2> QED BY <2>1, <2>4 DEF Consistent, r
<1> QED BY <1>2, <1>3

\* The order counts what it counted before, and no less is credited.
Even(s, r) ==
    /\ SameAmounts(s, r) /\ NotesOf(r) = NotesOf(s)
    /\ s.order.settled => r.order.settled

\* A step that moves no money is even.
LEMMA CalmEven ==
    ASSUME NEW s, NEW r, Calm(s, r) PROVE Even(s, r)
BY DEF Calm, Even, SameAmounts, NotesOf

\* What an event adds to the amounts of its order when it is applied.
Applies(e) ==
    /\ NotesOf(db') = NotesOf(db)
    /\ db.order.settled => db'.order.settled
    /\ db'.order.refunded =
         IF Kind(e) = "refunded" /\ ~Outdated(e) THEN Amount(e) ELSE db.order.refunded
    /\ db'.order.disputed =
         IF Kind(e) \in DisputeKinds THEN DisputedAmount(e) ELSE db.order.disputed
    /\ Kind(e) = "paid" => db'.order.settled \/ db'.order.refunded = Expected

\* An even step applies an event that adds nothing.
LEMMA EvenApplies ==
    ASSUME NEW e, Even(db, db'), Kind(e) \notin DisputeKinds, Kind(e) # "paid",
           Kind(e) # "refunded" \/ Outdated(e)
    PROVE  Applies(e)
BY DEF Even, SameAmounts, Applies

\* The effect of an event that needs no review.
LEMMA EffectApplies ==
    ASSUME TypeInv, EntitlementInv, Consistent(db), NEW e \in E,
           ~(\E l \in db.ledger : l.by = e), ~NeedsReview(e, Bound(db, e)),
           db' = Effect(e, Bound(db, e))
    PROVE  Consistent(db') /\ Applies(e)
<1> DEFINE s == Bound(db, e)
<1>0. /\ db \in Db /\ Entitled(db) /\ e \in Int
      /\ Kind(e) \in EventKinds /\ Amount(e) \in 0 .. Expected
    BY EventsArePositive DEF TypeInv, EntitlementInv
<1>1. s \in Db /\ Calm(db, s) /\ Entitled(s)
    BY <1>0, BoundFacts
<1>2. Consistent(s) /\ Even(db, s)
    BY <1>0, <1>1, BoundConsistent, CalmEven
<1>3. ~NeedsReview(e, s) /\ db' = Effect(e, s)
    OBVIOUS
<1> HIDE DEF s
<1>4. CASE Kind(e) = "paid"
    <2>1. db' = Fulfilled(s, e)
        BY <1>3, <1>4 DEF Effect, ReversalKinds, DisputeKinds
    <2>2. ~CannotFulfill(s)
        BY <1>3, <1>4 DEF NeedsReview
    <2>3. /\ Consistent(db') /\ SameAmounts(s, db') /\ NotesOf(db') = NotesOf(s)
          /\ s.order.settled => db'.order.settled
          /\ db'.order.settled \/ db'.order.refunded = Expected
        BY <1>0, <1>1, <1>2, <2>1, <2>2, FulfilledConsistent
    <2> QED BY <1>2, <1>4, <2>3 DEF Even, SameAmounts, Applies, DisputeKinds
<1>5. CASE Kind(e) \in ReversalKinds /\ Outdated(e)
    <2>1. db' = s
        BY <1>3, <1>5 DEF Effect, ReversalKinds, DisputeKinds
    <2>2. Kind(e) = "refunded"
        BY <1>5 DEF Outdated
    <2> QED BY <1>2, <1>5, <2>1, <2>2, EvenApplies DEF DisputeKinds
<1>6. CASE Kind(e) \in ReversalKinds /\ ~Outdated(e)
    <2> DEFINE refunded == RefundedAfter(e)
               disputed == DisputedAfter(e)
    <2>1. db' = Reconciled(s, e, refunded, disputed)
        BY <1>3, <1>6 DEF Effect, ReversalKinds, DisputeKinds
    <2>2. ~CannotReverse(s, refunded, disputed)
        BY <1>3, <1>6 DEF NeedsReview
    <2>3. refunded >= s.order.refunded
        <3>1. db.order.refunded \in Int /\ db.order.refunded = s.order.refunded
            BY <1>0, <1>1, DbFields, AmountsAssumption DEF Calm
        <3> QED BY <1>0, <1>6, <3>1, AmountsAssumption DEF RefundedAfter, Outdated
    <2>4. ~(\E l \in s.ledger : l.by = e /\ l.type \in ReversalTypes)
        BY <1>1 DEF Calm
    <2> HIDE DEF refunded, disputed
    <2>5. /\ db'.order.settled /\ db'.order.refunded = refunded
          /\ db'.order.disputed = disputed /\ Reversed(db'.order) /\ NotesOf(db') = NotesOf(s)
        BY <1>0, <1>1, <2>1, <2>2, <2>3, <2>4, ReversalFacts
    <2>6. Consistent(db')
        BY <2>5 DEF Consistent
    <2>7. Applies(e)
        BY <1>2, <1>6, <2>5
        DEF Even, Applies, ReversalKinds, DisputeKinds, RefundedAfter, DisputedAfter, refunded,
            disputed
    <2> QED BY <2>6, <2>7
<1>7. CASE Kind(e) \in {"failed", "expired"}
    <2> DEFINE r == Ended(s, Kind(e))
    <2>1. db' = r
        BY <1>3, <1>7 DEF Effect, ReversalKinds, DisputeKinds
    <2>2. /\ Calm(s, r)
          /\ \/ r = s
             \/ /\ s.order.status # "manual_review" /\ r.order.status = Kind(e)
                /\ r.topUp = s.topUp \/ s.topUp = "pending"
        BY <1>1, <1>7, EndedFacts
    <2> HIDE DEF r
    <2>3. Consistent(r)
        BY <1>2, <1>7, <2>2, CalmConsistent DEF Consistent, Uncredited
    <2>4. Even(db, r)
        BY <1>1, <2>2, CalmCalm, CalmEven
    <2> QED BY <1>7, <2>1, <2>3, <2>4, EvenApplies DEF DisputeKinds
<1>8. Kind(e) # "review"
    BY <1>3 DEF NeedsReview
<1> QED BY <1>0, <1>4, <1>5, <1>6, <1>7, <1>8 DEF EventKinds, ReversalKinds, DisputeKinds

\* The transaction of an event that has not posted yet: it is dismissed as old
\* news, put into review, or applied.
LEMMA SettleAmounts ==
    ASSUME TypeInv, EntitlementInv, Consistent(db), NEW e \in E,
           ~(\E l \in db.ledger : l.by = e), Settle(e)
    PROVE  /\ Consistent(db')
           /\ \/ /\ rows'[e].status = "dismissed" /\ Stale(e) /\ Even(db, db')
              \/ rows'[e].status = "manual_review"
              \/ /\ rows'[e].status = "processed" /\ ~Stale(e) /\ ~StateConflict(e)
                 /\ Applies(e)
<1> DEFINE s == Bound(db, e)
           keep == KeepsProjection(s) \/ (Kind(e) = "paid" /\ rejected)
<1>0. db \in Db /\ Entitled(db)
    BY DEF TypeInv, EntitlementInv
<1>1. s \in Db /\ Calm(db, s) /\ Entitled(s) /\ Consistent(s)
    BY <1>0, BoundFacts, BoundConsistent
<1>2. CASE Stale(e) /\ Finish(e, "dismissed", TRUE) /\ db' = s
    <2>1. rows'[e].status = "dismissed"
        BY <1>2, FinishedRow
    <2> QED BY <1>1, <1>2, <2>1, CalmEven
<1>3. CASE Finish(e, "manual_review", TRUE) /\ db' = MarkedForReview(s, keep)
    <2>1. rows'[e].status = "manual_review"
        BY <1>3, FinishedRow
    <2>2. keep \in BOOLEAN /\ (KeepsProjection(s) => keep)
        BY DEF TypeInv, KeepsProjection
    <2> HIDE DEF s, keep
    <2>3. Calm(s, db') /\ db'.order.status = "manual_review"
        BY <1>1, <1>3, <2>2, ReviewFacts
    <2>4. Consistent(db')
        BY <1>1, <2>3, CalmConsistent
    <2> QED BY <2>1, <2>4
<1>4. CASE /\ ~Stale(e) /\ ~NeedsReview(e, s) /\ Finish(e, "processed", TRUE)
           /\ db' = Effect(e, s)
    <2>1. rows'[e].status = "processed"
        BY <1>4, FinishedRow
    <2>2. Consistent(db') /\ Applies(e)
        BY <1>4, EffectApplies
    <2>3. ~StateConflict(e)
        BY <1>4 DEF NeedsReview
    <2> QED BY <1>4, <2>1, <2>2, <2>3
<1> QED BY <1>2, <1>3, <1>4 DEF Settle

\* Closing an order, binding it early, rejecting it and a conflicting delivery
\* leave its amounts alone.
LEMMA ClosingAmounts ==
    ASSUME TypeInv, EntitlementInv, Consistent(db),
           \/ SaveStart \/ AdminReject
           \/ \E status \in {"expired", "failed", "manual_review"} : CloseLocally(status)
           \/ \E e \in E : ConflictingDelivery(e)
    PROVE  Consistent(db') /\ Even(db, db')
<1>0. db \in Db /\ Entitled(db) /\ db.order \in OrderRow
    BY DbFields DEF TypeInv, EntitlementInv
<1>1. Calm(db, db')
    <2>1. DbStep(0) /\ Calm(db, db')
        BY ClosingStep
    <2> QED BY <2>1
<1>2. db.order.status = "pending" => ~db.order.settled /\ ~(db.order.refunded > 0)
    BY <1>0 DEF Entitled, Consistent, Uncredited
<1>3. CASE SaveStart
    <2>1. db'.order.status = db.order.status /\ db.order.status = "pending"
        BY <1>0, <1>3 DEF SaveStart, Db, OrderRow
    <2> QED BY <1>1, <1>2, <2>1, CalmConsistent, CalmEven
<1>4. CASE AdminReject
    <2>1. db.order.refunded = 0 /\ db'.order.status = "failed"
        BY <1>0, <1>4 DEF AdminReject, Untouched, Synced, Db, OrderRow
    <2> QED BY <1>1, <2>1, CalmConsistent, CalmEven
<1>5. ASSUME NEW status \in {"expired", "failed", "manual_review"}, CloseLocally(status)
      PROVE  Consistent(db') /\ Even(db, db')
    <2>1. db.order.status = "pending" /\ db'.order.status = status
        BY <1>0, <1>5 DEF CloseLocally, Db, OrderRow
    <2> QED BY <1>1, <1>2, <2>1, CalmConsistent, CalmEven
<1>6. ASSUME NEW e \in E, ConflictingDelivery(e)
      PROVE  Consistent(db') /\ Even(db, db')
    <2>1. db' = db \/ db'.order.status = "manual_review"
        BY <1>0, <1>6 DEF ConflictingDelivery, Db, OrderRow
    <2> QED BY <1>1, <2>1, CalmConsistent, CalmEven
<1> QED BY <1>3, <1>4, <1>5, <1>6

\* A linked payment is credited to an order that nobody has refunded.
LEMMA LinkAmounts ==
    ASSUME TypeInv, EntitlementInv, Consistent(db), NEW e \in E, AdminLink(e)
    PROVE  Consistent(db') /\ Even(db, db') /\ db'.order.settled
<1> DEFINE n == [db EXCEPT !.order.status = "pending", !.order.bound = TRUE]
           s == IF db.order.status \in {"failed", "expired"} THEN Synced(n) ELSE n
           order == [db.order EXCEPT !.status = "pending", !.bound = TRUE]
<1>0. db \in Db /\ Entitled(db) /\ db.order \in OrderRow /\ e \in Int
    BY EventsArePositive, DbFields DEF TypeInv, EntitlementInv
<1>1. ~db.order.settled /\ db.order.refunded = 0 /\ db.topUp # "success"
    BY <1>0 DEF AdminLink, Entitled, Untouched
<1>2. /\ order \in OrderRow /\ order.settled = db.order.settled /\ order.status = "pending"
      /\ order.refunded = db.order.refunded /\ order.reversedQuota = db.order.reversedQuota
      /\ order.disputed = db.order.disputed /\ order.reversed = db.order.reversed
    BY <1>0 DEF OrderRow, OrderStatuses
<1>3. n = [db EXCEPT !.order = order]
    BY <1>0 DEF Db, OrderRow
<1>4. ~CannotFulfill(s) /\ db' = Fulfilled(s, e)
    BY DEF AdminLink
<1> HIDE DEF order
<1>5. /\ n \in Db /\ n.order = order /\ n.topUp = db.topUp /\ n.ledger = db.ledger
      /\ n.debt = db.debt /\ n.wallet = db.wallet
    BY <1>0, <1>2, <1>3 DEF Db
<1> HIDE DEF n
<1>6. /\ s \in Db /\ s.order = order /\ s.ledger = db.ledger /\ s.debt = db.debt
      /\ s.wallet = db.wallet /\ s.topUp # "success"
    BY <1>1, <1>2, <1>5, SyncedFacts
<1> HIDE DEF s
<1>7. Calm(db, s)
    BY <1>2, <1>6 DEF Calm
<1>8. Entitled(s)
    BY <1>0, <1>1, <1>2, <1>6, <1>7, CalmEntitled
<1>9. Consistent(s)
    BY <1>1, <1>2, <1>6, <1>7, CalmConsistent
<1>10. /\ Consistent(db') /\ SameAmounts(s, db') /\ NotesOf(db') = NotesOf(s)
       /\ db'.order.settled
    <2>1. s.order.refunded # Expected
        BY <1>1, <1>2, <1>6, AmountsAssumption
    <2>2. /\ Consistent(db') /\ SameAmounts(s, db') /\ NotesOf(db') = NotesOf(s)
          /\ db'.order.settled \/ db'.order.refunded = Expected
        BY <1>0, <1>4, <1>6, <1>8, <1>9, FulfilledConsistent
    <2> QED BY <2>1, <2>2 DEF SameAmounts
<1> QED BY <1>2, <1>6, <1>10 DEF Even, SameAmounts, NotesOf

\* The resolution of a debt leaves what was refunded and disputed.
LEMMA ResolveDebtAmounts ==
    ASSUME TypeInv, EntitlementInv, PostersDone, Consistent(db), AdminResolveDebt
    PROVE  Consistent(db') /\ Even(db, db')
<1>1. /\ SameAmounts(db, db') /\ NotesOf(db') = NotesOf(db)
      /\ db.order.settled /\ db'.order.settled
    BY ResolveDebtStep
<1> QED BY <1>1 DEF Consistent, Reversed, SameAmounts, Even

\* A refund that an administrator confirms is noted, and counts from then on.
LEMMA ExternalRefundAmounts ==
    ASSUME TypeInv, EntitlementInv, PostersDone, Consistent(db),
           NEW refunded \in ExternalRefunds, AdminExternalRefund(refunded)
    PROVE  /\ Consistent(db')
           /\ db'.order.refunded = refunded /\ refunded > db.order.refunded
           /\ db'.order.disputed = db.order.disputed
           /\ db.order.settled => db'.order.settled
           /\ \E l \in NotesOf(db') : l.by = -refunded
<1>1. /\ db'.order.refunded = refunded /\ Refunded(db, db')
      /\ \E l \in NotesOf(db') : l.by = -refunded
    BY ExternalRefundStep
<1>2. refunded > db.order.refunded /\ db.order.disputed = 0
    BY DEF AdminExternalRefund
<1>3. Consistent(db')
    BY <1>1, <1>2 DEF Consistent, Refunded, Uncredited
<1> QED BY <1>1, <1>2, <1>3 DEF Refunded

\* Spending.
LEMMA SpendAmounts ==
    ASSUME TypeInv, Consistent(db), NEW quota \in {-1, 1}, Spend(quota)
    PROVE  Consistent(db') /\ Even(db, db')
<1>1. db'.order = db.order /\ db'.ledger = db.ledger /\ db'.topUp = db.topUp
    BY DEF TypeInv, Spend, Db
<1> QED BY <1>1 DEF Consistent, Reversed, Uncredited, Even, SameAmounts, NotesOf

-----------------------------------------------------------------------------
(* What the events add up to                                               *)

\* How the server stands to an event: its effect is applied, it was dismissed as
\* old news of its order, its order is in review because of it, or neither.
Standing(row) ==
    IF row.status = "processed" THEN "applied"
    ELSE IF row.matched /\ row.status = "dismissed" THEN "old"
    ELSE IF row.matched /\ row.status = "manual_review" THEN "doubt"
    ELSE "open"

\* The applied events of these kinds.
AppliedOf(kinds) == {e \in E : Standing(rows[e]) = "applied" /\ Kind(e) \in kinds}

\* The last state of every dispute in S, and what is disputed then.
Latest(h, S) == {e \in S : \A d \in S : h[d].resource = h[e].resource => d <= e}
ExposureOf(h, S) == MapThenSumSet(LAMBDA d : h[d].amount, {d \in S : h[d].kind # "won"})

\* The order counts the largest refund that was applied or confirmed.
RefundsCount ==
    /\ \A e \in AppliedOf({"refunded"}) : Amount(e) <= db.order.refunded
    /\ \/ db.order.refunded = 0
       \/ \E e \in AppliedOf({"refunded"}) : Amount(e) = db.order.refunded
       \/ \E l \in NotesOf(db) : -l.by = db.order.refunded

\* It counts the last applied state of every dispute; the applied ones have the
\* order of their times.
DisputesCount ==
    /\ db.order.disputed = ExposureOf(history, Latest(history, AppliedOf(DisputeKinds)))
    /\ \A d, e \in AppliedOf(DisputeKinds) :
         history[d].resource = history[e].resource /\ d < e => history[d].at < history[e].at

\* What was dismissed as old news is: a later state of the dispute is applied.
DismissedIsOld ==
    \A e \in E : Standing(rows[e]) = "old" =>
        /\ Kind(e) \in DisputeKinds
        /\ \E d \in AppliedOf(DisputeKinds) : history[d].resource = history[e].resource /\ d > e

\* An applied payment was credited unless it had been refunded before.
PaymentsCount ==
    AppliedOf({"paid"}) # {} => db.order.settled \/ db.order.refunded = Expected

\* No order is in review because of an event; then the amounts of the order are
\* those of the events.
Undoubted == \A e \in E : Standing(rows[e]) # "doubt"
Counted == RefundsCount /\ DisputesCount /\ DismissedIsOld /\ PaymentsCount
AppliedIsMatched == \A e \in E : rows[e].status = "processed" => rows[e].matched

\* The inductive invariant.  While an event is in doubt nothing is claimed of the
\* order's amounts but that they fit each other; no event leaves that state.
AgreeInv ==
    /\ history \in Histories
    /\ Consistent(db)
    /\ AppliedIsMatched
    /\ Undoubted => Counted

\* The two ways to write a sum.
LEMMA ExposureIsOf ==
    ASSUME NEW S PROVE Exposure(S) = ExposureOf(history, S)
BY DEF Exposure, ExposureOf, MapThenSumSet, MapThenFoldSet, Amount, Kind

\* A set of events that is not empty has a last one.
LEMMA LastEvent ==
    ASSUME TypeInv, NEW Q, Q \subseteq E, Q # {}
    PROVE  \E m \in Q : \A d \in Q : d <= m
<1> DEFINE B == {Len(history) - d : d \in Q}
<1>1. E = 1 .. Len(history) /\ Len(history) \in Nat
    BY DEF TypeInv, E
<1>2. B \subseteq Nat /\ B # {}
    <2>1. ASSUME NEW d \in Q PROVE Len(history) - d \in Nat
        <3>1. d \in 1 .. Len(history)
            BY <1>1
        <3> QED BY <1>1, <3>1
    <2> QED BY <2>1
<1>3. PICK k \in B : \A b \in B : k <= b
    BY <1>2, LeastNumber
<1>4. PICK m \in Q : k = Len(history) - m
    BY <1>3
<1>5. ASSUME NEW d \in Q PROVE d <= m
    <2>1. Len(history) - m <= Len(history) - d
        BY <1>3, <1>4
    <2>2. m \in Int /\ d \in Int
        BY <1>1
    <2> QED BY <1>1, <2>1, <2>2
<1> QED BY <1>5

\* Two events of one dispute.
LEMMA TwoStates ==
    ASSUME TypeInv, Timely, history \in Histories, NEW d \in E, NEW e \in E, d < e,
           history[d].resource = history[e].resource,
           Kind(d) \in DisputeKinds, Kind(e) \in DisputeKinds
    PROVE  /\ history[d].at \in Nat /\ history[e].at \in Nat
           /\ \/ history[d].at < history[e].at
              \/ /\ history[d].at = history[e].at /\ Kind(d) # Kind(e)
                 /\ Resolved(d) /\ Resolved(e)
<1>1. history[d] \in Event /\ history[e] \in Event
    BY DEF TypeInv, E
<1>2. history[d].at \in Nat /\ history[e].at \in Nat
    BY <1>1 DEF Event
<1> QED BY <1>2 DEF Timely, TimelyHistory, E, Kind, Resolved

\* The disputes that the transaction of e looks at are the applied ones, and the
\* newest of a dispute, by time and id, is its last state.
LEMMA NewestIsLast ==
    ASSUME TypeInv, AppliedIsMatched, DisputesCount, NEW e \in E,
           Standing(rows[e]) # "applied"
    PROVE  /\ Applied(e) = AppliedOf(DisputeKinds)
           /\ \A r : Newest(AppliedTo(e, r)) =
                       {d \in Latest(history, AppliedOf(DisputeKinds)) : history[d].resource = r}
<1> DEFINE P == AppliedOf(DisputeKinds)
<1>1. Applied(e) = P
    BY DEF Applied, AppliedOf, AppliedIsMatched, Standing
<1>2. ASSUME NEW r
      PROVE  Newest(AppliedTo(e, r)) = {d \in Latest(history, P) : history[d].resource = r}
    <2> DEFINE Q == AppliedTo(e, r)
    <2>1. Q = {d \in P : history[d].resource = r}
        BY <1>1 DEF AppliedTo
    <2>2. ASSUME NEW d \in Q, NEW o \in Q, d # o PROVE Newer(d, o) <=> o < d
        <3>1. d \in Int /\ o \in Int /\ history[d].at \in Nat /\ history[o].at \in Nat
            <4>1. d \in E /\ o \in E
                BY <2>1, <2>2 DEF AppliedOf
            <4>2. history[d] \in Event /\ history[o] \in Event
                BY <4>1 DEF TypeInv, E
            <4>3. history[d].at \in Nat /\ history[o].at \in Nat
                BY <4>2 DEF Event
            <4> QED BY <4>1, <4>3, EventsArePositive
        <3>2. d \in P /\ o \in P /\ history[d].resource = history[o].resource
            BY <2>1, <2>2
        <3>3. CASE d < o
            <4>1. history[d].at < history[o].at
                BY <3>2, <3>3 DEF DisputesCount
            <4> QED BY <3>1, <3>3, <4>1 DEF Newer
        <3>4. CASE o < d
            <4>1. history[o].at < history[d].at
                BY <3>2, <3>4 DEF DisputesCount
            <4> QED BY <3>1, <3>4, <4>1 DEF Newer
        <3> QED BY <2>2, <3>1, <3>3, <3>4
    <2>3. \A d \in P : d \in Int
        BY EventsArePositive DEF AppliedOf
    <2> HIDE DEF Q, P
    <2>4. Newest(Q) = {d \in Q : \A o \in Q \ {d} : o < d}
        BY <2>2 DEF Newest
    <2>5. {d \in Q : \A o \in Q \ {d} : o < d} = {d \in Q : \A o \in Q : o <= d}
        <3>1. \A d \in Q : d \in Int
            BY <2>1, <2>3
        <3> QED BY <3>1
    <2>6. {d \in Q : \A o \in Q : o <= d} = {d \in Latest(history, P) : history[d].resource = r}
        BY <2>1 DEF Latest
    <2> QED BY <2>4, <2>5, <2>6 DEF Q, P
<1> QED BY <1>1, <1>2

\* The state of a dispute that is neither old news nor a contradiction comes
\* after all that were applied.
LEMMA NewsIsLast ==
    ASSUME TypeInv, Timely, history \in Histories, AppliedIsMatched, DisputesCount,
           NEW e \in E, Standing(rows[e]) # "applied", Kind(e) \in DisputeKinds,
           ~Stale(e), ~StateConflict(e),
           NEW d \in AppliedOf(DisputeKinds), history[d].resource = history[e].resource
    PROVE  d < e /\ history[d].at < history[e].at
<1> DEFINE P == AppliedOf(DisputeKinds)
           Q == {o \in P : history[o].resource = history[e].resource}
<1>1. Q \subseteq E /\ d \in Q /\ Q \subseteq P
    BY DEF AppliedOf
<1>2. PICK m \in Q : \A o \in Q : o <= m
    BY <1>1, LastEvent
<1>3. m \in Newest(AppliedTo(e, history[e].resource))
    <2>1. m \in Latest(history, P) /\ history[m].resource = history[e].resource
        BY <1>2 DEF Latest
    <2> QED BY <2>1, NewestIsLast
<1>4. m \in E /\ m # e /\ Kind(m) \in DisputeKinds /\ m \in Int /\ e \in Int /\ d \in Int
    BY <1>1, <1>2, EventsArePositive DEF AppliedOf
<1>5. ~(history[m].at > history[e].at)
    BY <1>3 DEF Stale
<1>6. ~(history[m].at = history[e].at /\ Resolved(m) /\ Resolved(e) /\ Kind(m) # Kind(e))
    BY <1>3 DEF StateConflict
<1>7. m < e /\ history[m].at < history[e].at
    <2>1. CASE m < e
        BY <1>2, <1>4, <1>6, <2>1, TwoStates
    <2>2. CASE e < m
        <3>1. /\ history[e].at \in Nat /\ history[m].at \in Nat
              /\ \/ history[e].at < history[m].at
                 \/ /\ history[e].at = history[m].at /\ Kind(e) # Kind(m)
                    /\ Resolved(e) /\ Resolved(m)
            BY <1>2, <1>4, <2>2, TwoStates
        <3> QED BY <1>5, <1>6, <3>1
    <2> QED BY <1>4, <2>1, <2>2
<1>8. d <= m
    BY <1>1, <1>2
<1>9. CASE d = m
    BY <1>7, <1>9
<1>10. CASE d < m
    <2>1. history[d].at < history[m].at
        BY <1>1, <1>2, <1>10 DEF DisputesCount
    <2>2. d \in E /\ history[d].at \in Nat /\ history[m].at \in Nat /\ history[e].at \in Nat
        <3>1. d \in E
            BY <1>1
        <3>2. history[d] \in Event /\ history[m] \in Event /\ history[e] \in Event
            BY <1>4, <3>1 DEF TypeInv, E
        <3> QED BY <3>1, <3>2 DEF Event
    <2> QED BY <1>4, <1>7, <1>10, <2>1, <2>2
<1> QED BY <1>4, <1>8, <1>9, <1>10

\* What is dismissed as old news is older than a state that was applied.
LEMMA StaleIsOld ==
    ASSUME TypeInv, Timely, history \in Histories, AppliedIsMatched, DisputesCount,
           NEW e \in E, Standing(rows[e]) # "applied", Stale(e)
    PROVE  /\ Kind(e) \in DisputeKinds
           /\ \E d \in AppliedOf(DisputeKinds) :
                history[d].resource = history[e].resource /\ d > e
<1>1. Kind(e) \in DisputeKinds
    BY DEF Stale
<1>2. PICK m \in Newest(AppliedTo(e, history[e].resource)) :
        \/ history[m].at > history[e].at
        \/ history[m].at = history[e].at /\ (Kind(m) = Kind(e) \/ ~Resolved(e))
    BY DEF Stale
<1>3. m \in AppliedOf(DisputeKinds) /\ history[m].resource = history[e].resource
    BY <1>2, NewestIsLast DEF Latest
<1>4. m \in E /\ m # e /\ Kind(m) \in DisputeKinds /\ m \in Int /\ e \in Int
    BY <1>3, EventsArePositive DEF AppliedOf
<1>5. ~(m < e)
    <2> SUFFICES ASSUME m < e PROVE FALSE
        OBVIOUS
    <2>1. /\ history[m].at \in Nat /\ history[e].at \in Nat
          /\ \/ history[m].at < history[e].at
             \/ /\ history[m].at = history[e].at /\ Kind(m) # Kind(e)
                /\ Resolved(m) /\ Resolved(e)
        BY <1>1, <1>3, <1>4, TwoStates
    <2> QED BY <1>2, <2>1
<1> QED BY <1>1, <1>3, <1>4, <1>5

\* Then the disputed amount of the order is that of the last states, e's with
\* those of the other disputes.
LEMMA DisputedIsLatest ==
    ASSUME TypeInv, Timely, history \in Histories, AppliedIsMatched, DisputesCount,
           NEW e \in E, Standing(rows[e]) # "applied", Kind(e) \in DisputeKinds,
           ~Stale(e), ~StateConflict(e)
    PROVE  DisputedAmount(e) =
             ExposureOf(history, Latest(history, AppliedOf(DisputeKinds) \cup {e}))
<1> DEFINE P == AppliedOf(DisputeKinds)
           others == {history[d].resource : d \in Applied(e)} \ {history[e].resource}
           S == {e} \cup UNION {Newest(AppliedTo(e, r)) : r \in others}
<1>1. Applied(e) = P
    BY NewestIsLast
<1>2. \A r : Newest(AppliedTo(e, r)) = {d \in Latest(history, P) : history[d].resource = r}
    BY NewestIsLast
<1>3. \A d \in P : history[d].resource = history[e].resource => d < e
    BY NewsIsLast
<1>4. e \in Int /\ \A d \in P : d \in Int
    BY EventsArePositive DEF AppliedOf
<1> HIDE DEF P
<1>5. S = {e} \cup {d \in Latest(history, P) : history[d].resource # history[e].resource}
    <2>1. \A d \in Latest(history, P) : d \in P
        BY DEF Latest
    <2> QED BY <1>1, <1>2, <2>1
<1>6. Latest(history, P \cup {e}) =
        {e} \cup {d \in Latest(history, P) : history[d].resource # history[e].resource}
    BY <1>3, <1>4 DEF Latest
<1>7. DisputedAmount(e) = Exposure(S)
    BY DEF DisputedAmount
<1> HIDE DEF S
<1> QED BY <1>5, <1>6, <1>7, ExposureIsOf DEF P

\* A step that leaves the standing of every event, or puts one in doubt, and the
\* amounts of the order.
QuietRows ==
    /\ history' = history
    /\ \A d \in E : \/ Standing(rows'[d]) = Standing(rows[d])
                    \/ Standing(rows'[d]) = "doubt"
    /\ \A d \in E : rows'[d].status = "processed" => rows'[d].matched

\* The events a quiet step leaves applied.
LEMMA QuietStandings ==
    ASSUME QuietRows, Undoubted'
    PROVE  /\ Undoubted
           /\ \A e \in E : Standing(rows'[e]) = Standing(rows[e])
           /\ E' = E
           /\ \A kinds : AppliedOf(kinds)' = AppliedOf(kinds)
<1>1. E' = E
    BY DEF QuietRows, E
<1>2. \A e \in E : Standing(rows'[e]) = Standing(rows[e]) /\ Standing(rows[e]) # "doubt"
    BY <1>1 DEF QuietRows, Undoubted
<1>3. \A e \in E : Kind(e)' = Kind(e)
    BY DEF QuietRows, Kind
<1> QED BY <1>1, <1>2, <1>3 DEF Undoubted, AppliedOf

\* It keeps the invariant.
LEMMA QuietStep ==
    ASSUME AgreeInv, QuietRows, Consistent(db'), Even(db, db')
    PROVE  AgreeInv'
<1>1. E' = E /\ history' = history /\ history' \in Histories /\ AppliedIsMatched'
    BY DEF QuietRows, E, AgreeInv, AppliedIsMatched
<1>2. ASSUME Undoubted' PROVE Counted'
    <2>1. Counted /\ \A e \in E : Standing(rows'[e]) = Standing(rows[e])
        BY <1>2, QuietStandings DEF AgreeInv
    <2>2. /\ AppliedOf({"refunded"})' = AppliedOf({"refunded"})
          /\ AppliedOf(DisputeKinds)' = AppliedOf(DisputeKinds)
          /\ AppliedOf({"paid"})' = AppliedOf({"paid"})
        <3>1. \A kinds : AppliedOf(kinds)' = AppliedOf(kinds)
            BY <1>2, QuietStandings
        <3> QED BY <3>1
    <2>3. RefundsCount'
        BY <1>1, <2>1, <2>2 DEF Counted, RefundsCount, Even, SameAmounts, Amount
    <2>4. DisputesCount'
        BY <1>1, <2>1, <2>2 DEF Counted, DisputesCount, Even, SameAmounts
    <2>5. DismissedIsOld'
        BY <1>1, <2>1, <2>2 DEF Counted, DismissedIsOld, Kind
    <2>6. PaymentsCount'
        BY <1>1, <2>1, <2>2 DEF Counted, PaymentsCount, Even, SameAmounts
    <2> QED BY <2>3, <2>4, <2>5, <2>6 DEF Counted
<1> QED BY <1>1, <1>2 DEF AgreeInv

\* Only the row of e is written; nobody had applied, dismissed or doubted e.
OnlyRow(e) ==
    /\ history' = history
    /\ Standing(rows[e]) = "open" /\ rows'[e].matched
    /\ \A d \in E : d # e => rows'[d] = rows[d]

\* An event in doubt puts the order in review: nothing is said of its amounts.
LEMMA DoubtStep ==
    ASSUME AgreeInv, NEW e \in E, OnlyRow(e), rows'[e].status = "manual_review", Consistent(db')
    PROVE  AgreeInv'
<1>1. E' = E /\ history' = history /\ history' \in Histories
    BY DEF OnlyRow, E, AgreeInv
<1>2. ~Undoubted'
    <2>1. Standing(rows'[e]) = "doubt"
        BY DEF OnlyRow, Standing
    <2> QED BY <1>1, <2>1 DEF Undoubted
<1>3. AppliedIsMatched'
    BY <1>1 DEF AgreeInv, AppliedIsMatched, OnlyRow
<1> QED BY <1>1, <1>2, <1>3 DEF AgreeInv

\* An event dismissed as old news.
LEMMA OldStep ==
    ASSUME TypeInv, Timely, AgreeInv, NEW e \in E, OnlyRow(e), rows'[e].status = "dismissed",
           Stale(e), Consistent(db'), Even(db, db')
    PROVE  AgreeInv'
<1>1. E' = E /\ history' = history /\ history' \in Histories
    BY DEF OnlyRow, E, AgreeInv
<1>2. AppliedIsMatched'
    BY <1>1 DEF AgreeInv, AppliedIsMatched, OnlyRow
<1>3. Standing(rows'[e]) = "old" /\ \A d \in E : d # e => Standing(rows'[d]) = Standing(rows[d])
    BY DEF OnlyRow, Standing
<1>4. ASSUME Undoubted' PROVE Counted'
    <2>1. Counted
        <3>1. Undoubted
            BY <1>1, <1>3, <1>4 DEF Undoubted, OnlyRow
        <3> QED BY <3>1 DEF AgreeInv
    <2>2. \A kinds : AppliedOf(kinds)' = AppliedOf(kinds)
        <3>1. \A d \in E : Kind(d)' = Kind(d)
            BY <1>1 DEF Kind
        <3>2. \A d \in E : Standing(rows'[d]) = "applied" <=> Standing(rows[d]) = "applied"
            BY <1>3 DEF OnlyRow
        <3> QED BY <1>1, <3>1, <3>2 DEF AppliedOf
    <2>3. /\ AppliedOf({"refunded"})' = AppliedOf({"refunded"})
          /\ AppliedOf(DisputeKinds)' = AppliedOf(DisputeKinds)
          /\ AppliedOf({"paid"})' = AppliedOf({"paid"})
        BY <2>2
    <2>4. RefundsCount'
        BY <1>1, <2>1, <2>3 DEF Counted, RefundsCount, Even, SameAmounts, Amount
    <2>5. DisputesCount'
        BY <1>1, <2>1, <2>3 DEF Counted, DisputesCount, Even, SameAmounts
    <2>6. DismissedIsOld'
        <3>1. /\ Kind(e) \in DisputeKinds
              /\ \E d \in AppliedOf(DisputeKinds) :
                   history[d].resource = history[e].resource /\ d > e
            <4>1. Standing(rows[e]) # "applied"
                BY DEF OnlyRow
            <4> QED BY <2>1, <4>1, StaleIsOld DEF AgreeInv, Counted
        <3> QED BY <1>1, <1>3, <2>1, <2>3, <3>1 DEF Counted, DismissedIsOld, Kind
    <2>7. PaymentsCount'
        BY <1>1, <2>1, <2>3 DEF Counted, PaymentsCount, Even, SameAmounts
    <2> QED BY <2>4, <2>5, <2>6, <2>7 DEF Counted
<1> QED BY <1>1, <1>2, <1>4 DEF AgreeInv

\* An event that is applied.
LEMMA AppliedStep ==
    ASSUME TypeInv, Timely, AgreeInv, NEW e \in E, OnlyRow(e), rows'[e].status = "processed",
           ~Stale(e), ~StateConflict(e), Consistent(db'), Applies(e),
           db'.order.refunded \in 0 .. Expected
    PROVE  AgreeInv'
<1>0. /\ db.order.refunded \in 0 .. Expected /\ db.order.refunded \in Int
      /\ db'.order.refunded \in Int /\ Expected \in Int
    BY DbFields, AmountsAssumption DEF TypeInv
<1>1. E' = E /\ history' = history /\ history' \in Histories
    BY DEF OnlyRow, E, AgreeInv
<1>2. AppliedIsMatched'
    BY <1>1 DEF AgreeInv, AppliedIsMatched, OnlyRow
<1>3. /\ Standing(rows'[e]) = "applied" /\ Standing(rows[e]) = "open"
      /\ \A d \in E : d # e => Standing(rows'[d]) = Standing(rows[d])
    BY DEF OnlyRow, Standing
<1>4. ASSUME Undoubted' PROVE Counted'
    <2>1. Counted
        <3>1. Undoubted
            BY <1>1, <1>3, <1>4 DEF Undoubted
        <3> QED BY <3>1 DEF AgreeInv
    <2>2. \A kinds : AppliedOf(kinds)' =
            IF Kind(e) \in kinds THEN AppliedOf(kinds) \cup {e} ELSE AppliedOf(kinds)
        <3>1. \A d \in E : Kind(d)' = Kind(d)
            BY <1>1 DEF Kind
        <3> QED BY <1>1, <1>3, <3>1 DEF AppliedOf
    <2>3. AppliedOf({"refunded"})' =
            IF Kind(e) = "refunded" THEN AppliedOf({"refunded"}) \cup {e} ELSE AppliedOf({"refunded"})
        BY <2>2
    <2>4. AppliedOf(DisputeKinds)' =
            IF Kind(e) \in DisputeKinds THEN AppliedOf(DisputeKinds) \cup {e}
            ELSE AppliedOf(DisputeKinds)
        BY <2>2
    <2>5. AppliedOf({"paid"})' =
            IF Kind(e) = "paid" THEN AppliedOf({"paid"}) \cup {e} ELSE AppliedOf({"paid"})
        BY <2>2
    <2>6. \A d \in E : Amount(d)' = Amount(d) /\ Amount(d) \in 0 .. Expected /\ Amount(d) \in Int
        BY <1>1, EventsArePositive DEF Amount
    <2>7. db'.order.refunded >= db.order.refunded
        <3>1. Amount(e) \in Int
            BY <2>6
        <3> QED BY <1>0, <3>1 DEF Applies, Outdated
    <2>8. RefundsCount'
        <3>1. \A d \in AppliedOf({"refunded"}) : d \in E /\ Amount(d) <= db.order.refunded
            BY <2>1 DEF Counted, RefundsCount, AppliedOf
        <3>2. \A d \in AppliedOf({"refunded"})' : Amount(d)' <= db'.order.refunded
            <4> SUFFICES ASSUME NEW d \in AppliedOf({"refunded"})'
                         PROVE  Amount(d)' <= db'.order.refunded
                OBVIOUS
            <4>1. CASE d \in AppliedOf({"refunded"})
                <5>1. d \in E /\ Amount(d) <= db.order.refunded
                    BY <3>1, <4>1
                <5>2. Amount(d)' = Amount(d) /\ Amount(d) \in Int
                    BY <2>6, <5>1
                <5> QED BY <1>0, <2>7, <5>1, <5>2
            <4>2. CASE d = e /\ Kind(e) = "refunded"
                <5>1. Amount(d)' = Amount(e) /\ Amount(e) \in Int
                    BY <2>6, <4>2
                <5> QED BY <1>0, <4>2, <5>1 DEF Applies, Outdated
            <4> QED BY <2>3, <4>1, <4>2
        <3>3. \/ db'.order.refunded = 0
              \/ \E d \in AppliedOf({"refunded"})' : Amount(d)' = db'.order.refunded
              \/ \E l \in NotesOf(db') : -l.by = db'.order.refunded
            <4>1. CASE Kind(e) = "refunded" /\ ~Outdated(e)
                <5>1. db'.order.refunded = Amount(e) /\ Amount(e)' = Amount(e)
                    BY <2>6, <4>1 DEF Applies
                <5> QED BY <2>3, <4>1, <5>1
            <4>2. CASE ~(Kind(e) = "refunded" /\ ~Outdated(e))
                <5>1. db'.order.refunded = db.order.refunded /\ NotesOf(db') = NotesOf(db)
                    BY <4>2 DEF Applies
                <5>2. \A d \in AppliedOf({"refunded"}) :
                        d \in AppliedOf({"refunded"})' /\ Amount(d)' = Amount(d)
                    BY <2>3, <2>6, <3>1
                <5> QED BY <2>1, <5>1, <5>2 DEF Counted, RefundsCount
            <4> QED BY <4>1, <4>2
        <3> QED BY <3>2, <3>3 DEF RefundsCount
    <2>9. DisputesCount'
        <3>1. CASE Kind(e) \notin DisputeKinds
            BY <1>1, <2>1, <2>4, <3>1 DEF Counted, DisputesCount, Applies
        <3>2. CASE Kind(e) \in DisputeKinds
            <4> DEFINE P == AppliedOf(DisputeKinds)
            <4>0. AppliedOf(DisputeKinds)' = P \cup {e}
                BY <2>4, <3>2
            <4>1. history \in Histories /\ AppliedIsMatched /\ DisputesCount
                  /\ Standing(rows[e]) # "applied"
                BY <1>3, <2>1 DEF AgreeInv, Counted
            <4>2. DisputedAmount(e) = ExposureOf(history, Latest(history, P \cup {e}))
                BY <3>2, <4>1, DisputedIsLatest
            <4>3. \A d \in P : history[d].resource = history[e].resource =>
                                 d < e /\ history[d].at < history[e].at
                BY <3>2, <4>1, NewsIsLast
            <4>4. db'.order.disputed = DisputedAmount(e)
                BY <3>2 DEF Applies
            <4>5. e \in Int /\ \A d \in P : d \in Int
                BY EventsArePositive DEF AppliedOf
            <4>6. \A c, d \in P \cup {e} :
                    history[c].resource = history[d].resource /\ c < d =>
                        history[c].at < history[d].at
                BY <4>1, <4>3, <4>5 DEF DisputesCount
            <4> HIDE DEF P
            <4> QED BY <1>1, <4>0, <4>2, <4>4, <4>6 DEF DisputesCount
        <3> QED BY <3>1, <3>2
    <2>10. DismissedIsOld'
        <3>1. AppliedOf(DisputeKinds) \subseteq AppliedOf(DisputeKinds)'
            BY <2>4
        <3>2. \A d \in E : Standing(rows'[d]) = "old" => Standing(rows[d]) = "old"
            BY <1>3
        <3> QED BY <1>1, <2>1, <3>1, <3>2 DEF Counted, DismissedIsOld, Kind
    <2>11. PaymentsCount'
        <3>1. CASE Kind(e) = "paid"
            BY <3>1 DEF Applies, PaymentsCount
        <3>2. CASE Kind(e) # "paid"
            BY <1>0, <2>1, <2>5, <2>7, <3>2 DEF Counted, PaymentsCount, Applies
        <3> QED BY <3>1, <3>2
    <2> QED BY <2>8, <2>9, <2>10, <2>11 DEF Counted
<1> QED BY <1>1, <1>2, <1>4 DEF AgreeInv

-----------------------------------------------------------------------------
(* The steps keep the agreement                                            *)

\* The transaction of an event that found its order.
LEMMA SettleAgrees ==
    ASSUME TypeInv, EntitlementInv, PostersDone, Timely, AgreeInv, history' = history,
           NEW e \in E, ~Final(e) \/ Unmatched(e), Settle(e)
    PROVE  AgreeInv'
<1>1. ~Done(e) /\ Standing(rows[e]) = "open"
    BY DEF Final, Unmatched, Done, Standing
<1>2. ~(\E l \in db.ledger : l.by = e)
    <2>1. e \in Int /\ e > 0
        BY EventsArePositive
    <2> QED BY <1>1, <2>1 DEF PostersDone, Done
<1>3. db' \in Db
    BY <1>2, SettleStep DEF DbStep
<1>4. OnlyRow(e)
    <2>1. RowStep(e) /\ Done(e)'
        BY SettleKeepsRow
    <2> QED BY <1>1, <2>1 DEF OnlyRow, RowStep, Done
<1>5. /\ Consistent(db')
      /\ \/ /\ rows'[e].status = "dismissed" /\ Stale(e) /\ Even(db, db')
         \/ rows'[e].status = "manual_review"
         \/ /\ rows'[e].status = "processed" /\ ~Stale(e) /\ ~StateConflict(e)
            /\ Applies(e)
    BY <1>2, SettleAmounts DEF AgreeInv
<1>6. db'.order.refunded \in 0 .. Expected
    BY <1>3, DbFields
<1> QED BY <1>4, <1>5, <1>6, DoubtStep, OldStep, AppliedStep

\* Linking a payment by hand.
LEMMA LinkAgrees ==
    ASSUME TypeInv, EntitlementInv, Timely, AgreeInv, NEW e \in E, AdminLink(e)
    PROVE  AgreeInv'
<1>1. /\ Unmatched(e) /\ Kind(e) = "paid" /\ history' = history
      /\ Finish(e, "processed", TRUE)
    BY DEF AdminLink, traffic
<1>2. Standing(rows[e]) = "open"
    BY <1>1 DEF Unmatched, Standing
<1>3. RowStep(e) /\ rows'[e].status = "processed" /\ rows'[e].matched
    BY <1>1, FinishedRow
<1>4. OnlyRow(e)
    BY <1>1, <1>2, <1>3 DEF OnlyRow, RowStep
<1>5. Consistent(db') /\ Even(db, db') /\ db'.order.settled
    BY LinkAmounts DEF AgreeInv
<1>6. Applies(e)
    BY <1>1, <1>5 DEF Applies, Even, SameAmounts, DisputeKinds
<1>7. ~Stale(e) /\ ~StateConflict(e)
    BY <1>1 DEF Stale, StateConflict, DisputeKinds
<1>8. db'.order.refunded \in 0 .. Expected
    BY <1>5, DbFields DEF TypeInv, Even, SameAmounts
<1> QED BY <1>3, <1>4, <1>5, <1>6, <1>7, <1>8, AppliedStep

\* A refund that an administrator confirms.
LEMMA ExternalRefundAgrees ==
    ASSUME TypeInv, EntitlementInv, PostersDone, AgreeInv,
           NEW refunded \in ExternalRefunds, AdminExternalRefund(refunded)
    PROVE  AgreeInv'
<1>1. /\ Consistent(db')
      /\ db'.order.refunded = refunded /\ refunded > db.order.refunded
      /\ db'.order.disputed = db.order.disputed
      /\ db.order.settled => db'.order.settled
      /\ \E l \in NotesOf(db') : l.by = -refunded
    BY ExternalRefundAmounts DEF AgreeInv
<1>2. /\ db.order.refunded \in 0 .. Expected /\ db.order.refunded \in Int
      /\ refunded \in 1 .. Expected /\ refunded \in Int /\ Expected \in Int
    BY DbFields, AmountsAssumption DEF TypeInv
<1>3. history' = history /\ rows' = rows /\ E' = E
    BY DEF AdminExternalRefund, traffic, E
<1>4. /\ AppliedOf({"refunded"})' = AppliedOf({"refunded"})
      /\ AppliedOf(DisputeKinds)' = AppliedOf(DisputeKinds)
      /\ AppliedOf({"paid"})' = AppliedOf({"paid"})
    BY <1>3 DEF AppliedOf, Kind
<1>5. ASSUME Undoubted' PROVE Counted'
    <2>1. Counted
        BY <1>3, <1>5 DEF Undoubted, AgreeInv
    <2>2. RefundsCount'
        <3>1. \A d \in AppliedOf({"refunded"}) : Amount(d)' <= db'.order.refunded
            <4> SUFFICES ASSUME NEW d \in AppliedOf({"refunded"})
                         PROVE  Amount(d)' <= db'.order.refunded
                OBVIOUS
            <4>1. Amount(d) <= db.order.refunded /\ d \in E
                BY <2>1 DEF Counted, RefundsCount, AppliedOf
            <4>2. Amount(d)' = Amount(d) /\ Amount(d) \in Int
                BY <1>3, <4>1, EventsArePositive, AmountsAssumption DEF Amount
            <4> QED BY <1>1, <1>2, <4>1, <4>2
        <3>2. \E l \in NotesOf(db') : -l.by = db'.order.refunded
            BY <1>1, <1>2
        <3> QED BY <1>4, <3>1, <3>2 DEF RefundsCount
    <2>3. DisputesCount'
        BY <1>1, <1>3, <1>4, <2>1 DEF Counted, DisputesCount
    <2>4. DismissedIsOld'
        BY <1>3, <1>4, <2>1 DEF Counted, DismissedIsOld, Kind
    <2>5. PaymentsCount'
        BY <1>1, <1>2, <1>4, <2>1 DEF Counted, PaymentsCount
    <2> QED BY <2>2, <2>3, <2>4, <2>5 DEF Counted
<1>6. AppliedIsMatched'
    BY <1>3 DEF AgreeInv, AppliedIsMatched
<1> QED BY <1>1, <1>3, <1>5, <1>6 DEF AgreeInv

\* A step that writes no row.
LEMMA NoRowsQuiet ==
    ASSUME AgreeInv, UNCHANGED <<history, rows>>
    PROVE  QuietRows
BY DEF QuietRows, AgreeInv, AppliedIsMatched

\* One that writes the row of an event without applying it.
LEMMA OneRowQuiet ==
    ASSUME AgreeInv, history' = history, NEW e \in E,
           \A d \in E : d # e => rows'[d] = rows[d],
           \/ Standing(rows'[e]) = Standing(rows[e])
           \/ Standing(rows'[e]) = "doubt",
           rows'[e].status # "processed"
    PROVE  QuietRows
BY DEF QuietRows, AgreeInv, AppliedIsMatched

\* Nothing moves.
LEMMA NothingMoves ==
    ASSUME AgreeInv, QuietRows, db' = db
    PROVE  AgreeInv'
BY QuietStep DEF AgreeInv, Even, SameAmounts

\* The requests.
LEMMA RequestAgrees ==
    ASSUME TypeInv, EntitlementInv, RowsLocked, PostersDone, Timely, AgreeInv,
           NEW h \in Handlers,
           \/ HandlerStep(h) \/ ValidationFailed(h) \/ Crash(h)
           \/ \E e \in E : Deliver(h, e) \/ Duplicate(h, e)
    PROVE  AgreeInv'
<1> DEFINE e == handlers[h].event
<1>1. CASE Process(h)
    <2>1. e \in E /\ history' = history
        BY <1>1 DEF Process, TypeInv, At
    <2>2. CASE AfterSettlement(h, e)
        BY <2>1, <2>2, SettleAgrees DEF AfterSettlement
    <2>3. CASE UNCHANGED <<rows, db>>
        BY <2>1, <2>3, NoRowsQuiet, NothingMoves
    <2> QED BY <1>1, <2>2, <2>3 DEF Process, AfterDuplicate, WithoutOrder
<1>2. CASE Replay(h)
    <2>1. PICK r \in handlers[h].replays :
            IF Unmatched(r) /\ Found(r) THEN Settle(r) ELSE UNCHANGED <<rows, db>>
        BY <1>2 DEF Replay
    <2>2. r \in E /\ history' = history
        BY <1>2, <2>1 DEF TypeInv, Request, Replay
    <2>3. CASE Unmatched(r) /\ Settle(r)
        BY <2>2, <2>3, SettleAgrees
    <2>4. CASE UNCHANGED <<rows, db>>
        BY <2>2, <2>4, NoRowsQuiet, NothingMoves
    <2> QED BY <2>1, <2>3, <2>4
<1>3. CASE CommitUnmatched(h)
    <2>1. e \in E /\ history' = history /\ db' = db /\ ~Final(e)
        BY <1>3 DEF CommitUnmatched, TypeInv, At, RowsLocked
    <2>2. PICK status \in {"failed", "manual_review"} : Finish(e, status, FALSE)
        BY <1>3 DEF CommitUnmatched
    <2>3. /\ rows'[e] = [status |-> status, matched |-> rows[e].matched \/ FALSE]
          /\ \A d \in E : d # e => rows'[d] = rows[d]
        BY <2>1, <2>2 DEF Finish, TypeInv
    <2>4. /\ rows'[e].status \in {"failed", "manual_review"}
          /\ Standing(rows'[e]) \in {"open", "doubt"}
        BY <2>3 DEF Standing
    <2>5. Standing(rows[e]) = "open"
        BY <2>1 DEF Final, Standing
    <2> HIDE DEF e
    <2> QED BY <2>1, <2>3, <2>4, <2>5, OneRowQuiet, NothingMoves
<1>4. CASE RecordUnmatched(h)
    <2>1. e \in E /\ history' = history /\ db' = db
        BY <1>4 DEF RecordUnmatched, TypeInv, At
    <2>2. CASE rows' = rows
        BY <2>1, <2>2, NoRowsQuiet, NothingMoves
    <2>3. CASE /\ rows[e].status \notin {"processed", "dismissed"}
               /\ rows' = [rows EXCEPT ![e].status = "manual_review"]
        <3>1. /\ rows'[e].status = "manual_review" /\ rows'[e].matched = rows[e].matched
              /\ \A d \in E : d # e => rows'[d] = rows[d]
            BY <2>1, <2>3 DEF TypeInv, EventRow
        <3>2. Standing(rows'[e]) = "doubt" \/ Standing(rows'[e]) = Standing(rows[e])
            BY <2>3, <3>1 DEF Standing
        <3> HIDE DEF e
        <3> QED BY <2>1, <3>1, <3>2, OneRowQuiet, NothingMoves
    <2> QED BY <1>4, <2>2, <2>3 DEF RecordUnmatched
<1>5. CASE ValidationFailed(h)
    <2>1. e \in E /\ history' = history /\ db' = db
        BY <1>5 DEF ValidationFailed, TypeInv, At
    <2>2. CASE rows' = rows
        BY <2>1, <2>2, NoRowsQuiet, NothingMoves
    <2>3. CASE ~Final(e) /\ rows' = [rows EXCEPT ![e].status = "failed"]
        <3>1. /\ rows'[e].status = "failed"
              /\ \A d \in E : d # e => rows'[d] = rows[d]
            BY <2>1, <2>3 DEF TypeInv, EventRow
        <3>2. Standing(rows'[e]) = Standing(rows[e])
            BY <2>3, <3>1 DEF Standing, Final
        <3> HIDE DEF e
        <3> QED BY <2>1, <3>1, <3>2, OneRowQuiet, NothingMoves
    <2> QED BY <1>5, <2>2, <2>3 DEF ValidationFailed
<1>6. ASSUME NEW d \in E, Deliver(h, d) PROVE AgreeInv'
    <2>1. history' = history /\ db' = db
        BY <1>6 DEF Deliver, Receive
    <2>2. CASE rows' = rows
        BY <2>1, <2>2, NoRowsQuiet, NothingMoves
    <2>3. CASE rows[d].status = "none" /\ rows' = [rows EXCEPT ![d].status = "received"]
        <3>1. /\ rows'[d].status = "received"
              /\ \A c \in E : c # d => rows'[c] = rows[c]
            BY <1>6, <2>3 DEF TypeInv, EventRow
        <3>2. Standing(rows'[d]) = Standing(rows[d])
            BY <2>3, <3>1 DEF Standing
        <3> QED BY <2>1, <3>1, <3>2, OneRowQuiet, NothingMoves
    <2> QED BY <1>6, <2>2, <2>3 DEF Deliver
<1>7. CASE UNCHANGED <<history, rows, db>>
    BY <1>7, NoRowsQuiet, NothingMoves
<1> QED BY <1>1, <1>2, <1>3, <1>4, <1>5, <1>6, <1>7
        DEF HandlerStep, QueryUnmatched, Crash, Duplicate, Receive

\* The server and the administrators.
LEMMA OtherAgrees ==
    ASSUME TypeInv, EntitlementInv, RowsLocked, PostersDone, Timely, AgreeInv,
           \/ \E e \in E : ConflictingDelivery(e) \/ AdminLink(e) \/ AdminDismiss(e)
           \/ SaveStart
           \/ \E status \in {"expired", "failed", "manual_review"} : CloseLocally(status)
           \/ \E quota \in {-1, 1} : Spend(quota)
           \/ AdminReject \/ AdminResolveDebt
           \/ \E refunded \in ExternalRefunds : AdminExternalRefund(refunded)
    PROVE  AgreeInv'
<1>0. Consistent(db)
    BY DEF AgreeInv
<1>1. ASSUME NEW e \in E, ConflictingDelivery(e) PROVE AgreeInv'
    <2>1. Consistent(db') /\ Even(db, db')
        BY <1>0, <1>1, ClosingAmounts
    <2>2. /\ rows'[e] = [status |-> "manual_review", matched |-> rows[e].matched \/ FALSE]
          /\ \A d \in E : d # e => rows'[d] = rows[d]
          /\ history' = history
        BY <1>1 DEF ConflictingDelivery, Finish, TypeInv
    <2>3. rows[e].matched \in BOOLEAN
        BY DEF TypeInv, EventRow
    <2>4. rows'[e].status = "manual_review" /\ rows'[e].matched = rows[e].matched
        BY <2>2, <2>3
    <2>5. Standing(rows'[e]) = "doubt" \/ Standing(rows'[e]) = Standing(rows[e])
        BY <2>4 DEF Standing, AgreeInv, AppliedIsMatched
    <2> QED BY <2>1, <2>2, <2>4, <2>5, OneRowQuiet, QuietStep
<1>2. ASSUME NEW e \in E, AdminLink(e) PROVE AgreeInv'
    BY <1>2, LinkAgrees
<1>3. ASSUME NEW e \in E, AdminDismiss(e) PROVE AgreeInv'
    <2>1. /\ rows'[e] = [status |-> "dismissed", matched |-> rows[e].matched \/ FALSE]
          /\ \A d \in E : d # e => rows'[d] = rows[d]
          /\ history' = history /\ db' = db /\ Unmatched(e)
        BY <1>3 DEF AdminDismiss, Finish, TypeInv, traffic
    <2>2. rows'[e].status = "dismissed" /\ ~rows'[e].matched
        <3>1. ~(rows[e].matched \/ FALSE)
            BY <2>1 DEF Unmatched
        <3> DEFINE matched == rows[e].matched \/ FALSE
        <3>2. rows'[e] = [status |-> "dismissed", matched |-> matched] /\ ~matched
            BY <2>1, <3>1
        <3> HIDE DEF matched
        <3> QED BY <3>2
    <2>3. Standing(rows'[e]) = Standing(rows[e])
        BY <2>1, <2>2 DEF Standing, Unmatched
    <2> QED BY <2>1, <2>2, <2>3, OneRowQuiet, NothingMoves
<1>4. CASE \/ SaveStart \/ AdminReject
           \/ \E status \in {"expired", "failed", "manual_review"} : CloseLocally(status)
    <2>1. Consistent(db') /\ Even(db, db')
        BY <1>0, <1>4, ClosingAmounts
    <2>2. UNCHANGED <<history, rows>>
        BY <1>4 DEF SaveStart, AdminReject, CloseLocally, traffic
    <2> QED BY <2>1, <2>2, NoRowsQuiet, QuietStep
<1>5. ASSUME NEW quota \in {-1, 1}, Spend(quota) PROVE AgreeInv'
    <2>1. Consistent(db') /\ Even(db, db')
        BY <1>0, <1>5, SpendAmounts
    <2>2. UNCHANGED <<history, rows>>
        BY <1>5 DEF Spend, traffic
    <2> QED BY <2>1, <2>2, NoRowsQuiet, QuietStep
<1>6. CASE AdminResolveDebt
    <2>1. Consistent(db') /\ Even(db, db')
        BY <1>0, <1>6, ResolveDebtAmounts
    <2>2. UNCHANGED <<history, rows>>
        BY <1>6 DEF AdminResolveDebt, traffic
    <2> QED BY <2>1, <2>2, NoRowsQuiet, QuietStep
<1>7. ASSUME NEW refunded \in ExternalRefunds, AdminExternalRefund(refunded) PROVE AgreeInv'
    BY <1>7, ExternalRefundAgrees
<1> QED BY <1>1, <1>2, <1>3, <1>4, <1>5, <1>6, <1>7

\* It holds of a new order.
LEMMA InitAgrees == Init => AgreeInv
<1> SUFFICES ASSUME Init PROVE AgreeInv
    OBVIOUS
<1>1. \A e \in E : rows[e].status = "none" /\ ~rows[e].matched
    BY DEF Init
<1>2. \A e \in E : Standing(rows[e]) = "open"
    BY <1>1 DEF Standing
<1>3. /\ ~db.order.settled /\ db.order.status = "pending"
      /\ db.order.refunded = 0 /\ db.order.disputed = 0
      /\ db.order.reversed = 0 /\ db.order.reversedQuota = 0
    BY DEF Init
<1>4. Consistent(db)
    BY <1>3 DEF Consistent, Uncredited
<1>5. /\ AppliedOf({"refunded"}) = {} /\ AppliedOf(DisputeKinds) = {}
      /\ AppliedOf({"paid"}) = {}
    BY <1>2 DEF AppliedOf
<1>6. ExposureOf(history, Latest(history, {})) = 0
    <2>1. Latest(history, {}) = {}
        BY DEF Latest
    <2>2. ExposureOf(history, {}) = 0
        <3> DEFINE S == {d \in {} : history[d].kind # "won"}
                   w == [d \in S |-> 0]
        <3> QED BY DEF ExposureOf, MapThenSumSet, MapThenFoldSet
    <2> QED BY <2>1, <2>2
<1>7. Counted
    BY <1>2, <1>3, <1>5, <1>6
    DEF Counted, RefundsCount, DisputesCount, DismissedIsOld, PaymentsCount
<1>8. history \in Histories /\ AppliedIsMatched
    BY <1>1 DEF Init, AppliedIsMatched
<1> QED BY <1>4, <1>7, <1>8 DEF AgreeInv

\* Every step preserves it.
LEMMA NextAgrees ==
    ASSUME Timely, IInv, AgreeInv, [Next]_vars
    PROVE  AgreeInv'
<1>0. TypeInv /\ EntitlementInv /\ RowsLocked /\ PostersDone
    BY DEF IInv, LedgerInv
<1>1. CASE \E h \in Handlers : \/ HandlerStep(h) \/ ValidationFailed(h) \/ Crash(h)
                               \/ \E e \in E : Deliver(h, e) \/ Duplicate(h, e)
    BY <1>0, <1>1, RequestAgrees
<1>2. CASE \/ \E e \in E : ConflictingDelivery(e) \/ AdminLink(e) \/ AdminDismiss(e)
           \/ SaveStart
           \/ \E status \in {"expired", "failed", "manual_review"} : CloseLocally(status)
           \/ \E quota \in {-1, 1} : Spend(quota)
           \/ AdminReject \/ AdminResolveDebt
           \/ \E refunded \in ExternalRefunds : AdminExternalRefund(refunded)
    BY <1>0, <1>2, OtherAgrees
<1>3. CASE UNCHANGED vars
    BY <1>3, NoRowsQuiet, NothingMoves DEF vars
<1> QED BY <1>1, <1>2, <1>3 DEF Next

\* The largest element of a set.
LEMMA MaxIs ==
    ASSUME NEW S, S \subseteq Int, NEW m \in S, \A n \in S : n <= m
    PROVE  Max(S) = m
<1>1. \A x \in S : (\A y \in S : x >= y) => x = m
    BY SMT
<1>2. \A y \in S : m >= y
    BY SMT
<1> QED BY <1>1, <1>2 DEF Max

\* The invariant says what the events told add up to.
LEMMA AgreeMeaning ==
    ASSUME IInv, AgreeInv PROVE AgreesWithProvider
<1> SUFFICES ASSUME \A e \in Told : \/ rows[e].status = "processed"
                                    \/ rows[e].status = "dismissed" /\ rows[e].matched
             PROVE  /\ db.order.settled =>
                         /\ db.order.reversed = Smaller(Expected, ToldRefunded + ToldDisputed)
                         /\ db.order.reversedQuota = ReversedQuota(db.order.reversed)
                    /\ (\E e \in Told : Kind(e) = "paid") =>
                         db.order.settled \/ db.order.refunded = Expected
    BY DEF AgreesWithProvider
<1>0. TypeInv /\ PostersDone
    BY DEF IInv, LedgerInv
<1>1. \A e \in E : \/ rows[e].status = "none" /\ Standing(rows[e]) = "open"
                   \/ e \in Told /\ Standing(rows[e]) \in {"applied", "old"}
    BY DEF Told, Standing
<1>2. Counted
    BY <1>1 DEF Undoubted, AgreeInv
<1>3. \A e \in Told : \/ Standing(rows[e]) = "applied"
                      \/ Standing(rows[e]) = "old" /\ Kind(e) \in DisputeKinds
    BY <1>1, <1>2 DEF Told, Standing, Counted, DismissedIsOld
<1>4. AppliedOf({"refunded"}) = {d \in Told : Kind(d) = "refunded"}
    BY <1>1, <1>3 DEF AppliedOf, Told, DisputeKinds, Standing
<1>5. ToldRefunded = db.order.refunded
    <2> DEFINE S == {0} \cup {Amount(e) : e \in {d \in Told : Kind(d) = "refunded"}}
                        \cup {-l.by : l \in {k \in db.ledger : k.type = "admin_external_refund"}}
    <2>0. db.order.refunded \in Nat
        BY <1>0, DbFields, AmountsAssumption DEF TypeInv
    <2>1. \A e \in {d \in Told : Kind(d) = "refunded"} :
            Amount(e) \in Int /\ Amount(e) <= db.order.refunded
        <3>1. \A e \in E : Amount(e) \in Int
            BY <1>0, EventsArePositive, AmountsAssumption
        <3> QED BY <1>2, <1>4, <3>1 DEF Counted, RefundsCount, Told
    <2>2. \A l \in db.ledger : l.by \in Int /\ -l.by <= db.order.refunded
        <3> SUFFICES ASSUME NEW l \in db.ledger PROVE l.by \in Int /\ -l.by <= db.order.refunded
            OBVIOUS
        <3>1. l.by \in Int
            BY <1>0, DbFields DEF TypeInv
        <3>2. l.by < 0 => -l.by <= db.order.refunded
            BY <1>0 DEF PostersDone
        <3> QED BY <2>0, <3>1, <3>2
    <2>3. S \subseteq Int /\ \A n \in S : n <= db.order.refunded
        BY <2>0, <2>1, <2>2
    <2>4. db.order.refunded \in S
        <3>1. CASE db.order.refunded = 0
            BY <3>1
        <3>2. CASE \E e \in AppliedOf({"refunded"}) : Amount(e) = db.order.refunded
            BY <1>4, <3>2
        <3>3. CASE \E l \in NotesOf(db) : -l.by = db.order.refunded
            BY <3>3 DEF NotesOf
        <3> QED BY <1>2, <3>1, <3>2, <3>3 DEF Counted, RefundsCount
    <2>5. ToldRefunded = Max(S)
        BY DEF ToldRefunded
    <2> HIDE DEF S
    <2> QED BY <2>3, <2>4, <2>5, MaxIs
<1>6. ToldDisputed = db.order.disputed
    <2> DEFINE disputes == {e \in Told : Kind(e) \in DisputeKinds}
               last == {e \in disputes : \A d \in disputes :
                           history[d].resource = history[e].resource => d <= e}
               P == AppliedOf(DisputeKinds)
    <2>1. P \subseteq disputes /\ \A e \in disputes : e \in P \/ Standing(rows[e]) = "old"
        BY <1>1, <1>3 DEF AppliedOf, Told
    <2>2. \A e \in disputes : e \in Int /\ e \in E
        BY <1>0, EventsArePositive DEF Told
    <2>3. \A e \in disputes : Standing(rows[e]) = "old" =>
            \E d \in P : history[d].resource = history[e].resource /\ d > e
        BY <1>2, <2>2 DEF Counted, DismissedIsOld
    <2>4. ToldDisputed = Exposure(last)
        BY DEF ToldDisputed
    <2> HIDE DEF disputes, P
    <2>5. last \subseteq Latest(history, P)
        <3> SUFFICES ASSUME NEW e \in last PROVE e \in Latest(history, P)
            OBVIOUS
        <3>1. e \in P
            <4> SUFFICES ASSUME e \notin P PROVE FALSE
                OBVIOUS
            <4>1. PICK d \in P : history[d].resource = history[e].resource /\ d > e
                BY <2>1, <2>3
            <4>2. d \in disputes /\ d <= e
                BY <2>1, <4>1
            <4> QED BY <2>2, <4>1, <4>2
        <3> QED BY <2>1, <3>1 DEF Latest
    <2>6. Latest(history, P) \subseteq last
        <3> SUFFICES ASSUME NEW e \in Latest(history, P), NEW d \in disputes,
                            history[d].resource = history[e].resource
                     PROVE  d <= e
            BY <2>1 DEF Latest
        <3>1. CASE d \in P
            BY <3>1 DEF Latest
        <3>2. CASE d \notin P
            <4>1. PICK c \in P : history[c].resource = history[d].resource /\ c > d
                BY <2>1, <2>3, <3>2
            <4>2. c <= e
                BY <4>1 DEF Latest
            <4>3. c \in Int /\ d \in Int /\ e \in Int
                BY <2>1, <2>2 DEF Latest
            <4> QED BY <4>1, <4>2, <4>3
        <3> QED BY <3>1, <3>2
    <2>7. last = Latest(history, P)
        BY <2>5, <2>6
    <2>8. db.order.disputed = ExposureOf(history, Latest(history, P))
        BY <1>2 DEF Counted, DisputesCount, P
    <2> HIDE DEF last
    <2> QED BY <2>4, <2>7, <2>8, ExposureIsOf
<1>7. ASSUME db.order.settled
      PROVE  /\ db.order.reversed = Smaller(Expected, ToldRefunded + ToldDisputed)
             /\ db.order.reversedQuota = ReversedQuota(db.order.reversed)
    BY <1>5, <1>6, <1>7 DEF AgreeInv, Consistent, Reversed
<1>8. ASSUME NEW e \in Told, Kind(e) = "paid"
      PROVE  db.order.settled \/ db.order.refunded = Expected
    <2>1. e \in AppliedOf({"paid"})
        BY <1>3, <1>8 DEF AppliedOf, Told, DisputeKinds
    <2> QED BY <1>2, <2>1 DEF Counted, PaymentsCount
<1> QED BY <1>7, <1>8

\* When every event the server knows of is applied or dismissed as old news, in
\* whatever order the events came and whatever administrators did in between, the
\* credit is reversed by what the provider and the administrators say is refunded
\* and by the last state of every dispute, and a payment was credited unless it
\* had been refunded before (reconcilePaymentReversalTx, paymentDisputedAmountTx,
\* evaluateProviderStateOrderTx).  The states of one dispute must not share a
\* second, two contradicting ends excepted: paymentDisputedAmountTx orders such
\* states by their ids in the inbox, which need not be the order of the provider.
THEOREM SettlementAgreesWithProvider ==
    ASSUME Timely PROVE Spec => []AgreesWithProvider
<1>1. Init => IInv /\ AgreeInv
    BY InitInv, InitAgrees
<1>2. (IInv /\ AgreeInv) /\ [Next]_vars => (IInv /\ AgreeInv)'
    BY NextInv, NextAgrees
<1>3. IInv /\ AgreeInv => AgreesWithProvider
    BY AgreeMeaning
<1> QED BY <1>1, <1>2, <1>3, PTL DEF Spec

=============================================================================
