--------------------------- MODULE WebPageProofs ---------------------------
(***************************************************************************)
(* Two pages of the web frontend.                                          *)
(*                                                                         *)
(* Part I, the wallet page (PaymentCheckout): that one confirmation makes  *)
(* one order and that what is confirmed is what was shown, for any number  *)
(* of methods, options, amounts, quotes and starts.  The argument is about *)
(* the pairs of a quote and a request id: wherever such a pair is kept (a  *)
(* start, an order, the page), each quote goes with one request id and     *)
(* each request id with one quote.                                         *)
(*                                                                         *)
(* Part II, the playground (Playground): that a spinner can always be      *)
(* stopped, that what is shown is kept, and that a completed answer is     *)
(* what its own request delivered, for any number of requests, chunks,     *)
(* loads and kept messages.  The first two rest on PlayInv: of every       *)
(* conversation, shown or kept, only the last message is pending, and the  *)
(* flags of the page fit the requests under way.  The third rests on       *)
(* AnswerInv: while a request runs, the text of the last message followed  *)
(* by what the buffer holds is what that request has delivered.            *)
(***************************************************************************)
EXTENDS PaymentCheckout, Playground, TLAPS

-----------------------------------------------------------------------------
(* Part I: the wallet page.                                                *)


-----------------------------------------------------------------------------
(* The inductive invariants                                                *)

Shown == Amounts \cup {0, MinTopup}

OrderRow == [quote : Nat, request : Nat, status : Statuses]
QuoteRow == [amount : Shown, route : Routes, expired : BOOLEAN, order : Nat]
StartRow == [id : Nat, quote : Nat, request : Nat, done : BOOLEAN, order : Nat,
             awaited : BOOLEAN]

Call == [amount : Shown, route : Methods]
Ref == [quote : Nat, request : Nat]
OptionRef == [option : Options, amount : Shown, quote : Nat, request : Nat]

WalletRow == [amount : Shown, method : Methods, quote : Nat,
              timer : Call \cup {None}, call : Call \cup {None}, dialog : BOOLEAN,
              loading : Routes \cup {"none"}, request : Ref \cup {None},
              start : Nat, optionStart : Nat, operation : OptionRef \cup {None}]

TypeInv ==
    /\ orders \in Seq(OrderRow) /\ quotes \in Seq(QuoteRow)
    /\ starts \subseteq StartRow /\ sent \in Nat
    /\ wallet \in WalletRow

\* Where a quote q is kept together with a request id r.
Kept(q, r) ==
    \/ \E s \in starts : s.quote = q /\ s.request = r
    \/ \E o \in Orders : orders[o].quote = q /\ orders[o].request = r
    \/ wallet.request # None /\ wallet.request.quote = q /\ wallet.request.request = r
    \/ wallet.operation # None /\ wallet.operation.quote = q /\ wallet.operation.request = r

\* Each quote in use has one request id, and each request id one quote.
KeptInPairs ==
    /\ \A q, r : Kept(q, r) => q \in Quotes /\ r \in 1..sent
    /\ \A q, r, p, t : Kept(q, r) /\ Kept(p, t) => (q = p <=> r = t)

\* A quote and its order know each other.
OrdersMatchQuotes ==
    /\ \A o \in Orders : orders[o].quote \in Quotes /\ quotes[orders[o].quote].order = o
    /\ \A q \in Quotes : quotes[q].order # 0 =>
         quotes[q].order \in Orders /\ orders[quotes[q].order].quote = q

\* The quote on the page has been started only with the request id the page
\* keeps for it; while another quote is asked for, none is kept.
PageKeepsItsRequest ==
    /\ wallet.quote # 0 => wallet.quote \in Quotes
    /\ wallet.request # None => wallet.request.quote = wallet.quote
    /\ wallet.request = None => \A r : ~Kept(wallet.quote, r)
    /\ Calculating => wallet.request = None /\ wallet.quote = 0
    /\ wallet.call # None => wallet.timer = None

\* A selection waits for the quote of the method and amount on the page, and the
\* dialog shows one.
SelectionIsAsked ==
    wallet.loading \in Methods =>
        wallet.timer = None /\ wallet.call = [amount |-> wallet.amount, route |-> wallet.method]
DialogShowsQuote ==
    wallet.dialog =>
        /\ ~Calculating /\ wallet.quote \in Quotes
        /\ quotes[wallet.quote].amount = wallet.amount
        /\ quotes[wallet.quote].route = wallet.method

ShownInv == SelectionIsAsked /\ DialogShowsQuote

-----------------------------------------------------------------------------
(* The wallet                                                              *)

\* A reference is not the lack of one.
LEMMA SomeIsNotNone == None \notin Ref /\ None \notin Call /\ None \notin OptionRef
<1>1. DOMAIN None = {"none"}
    BY DEF None
<1>2. \A x \in Ref : DOMAIN x = {"quote", "request"}
    BY DEF Ref
<1>3. \A x \in Call : DOMAIN x = {"amount", "route"}
    BY DEF Call
<1>4. \A x \in OptionRef : DOMAIN x = {"option", "amount", "quote", "request"}
    BY DEF OptionRef
<1>5. "none" \notin {"quote", "request"} /\ "none" \notin {"amount", "route"}
        /\ "none" \notin {"option", "amount", "quote", "request"}
    OBVIOUS
<1> QED BY <1>1, <1>2, <1>3, <1>4, <1>5

\* What cancelPendingQuote leaves alone and what it drops.
LEMMA CancelFacts ==
    ASSUME NEW w \in WalletRow
    PROVE  /\ CancelPendingQuote(w) \in WalletRow
           /\ CancelPendingQuote(w).timer = None /\ CancelPendingQuote(w).call = None
           /\ CancelPendingQuote(w).request = None
           /\ CancelPendingQuote(w).operation = w.operation
           /\ CancelPendingQuote(w).amount = w.amount /\ CancelPendingQuote(w).method = w.method
           /\ CancelPendingQuote(w).dialog = w.dialog
           /\ CancelPendingQuote(w).loading =
                IF w.call # None /\ w.loading \in Methods THEN "none" ELSE w.loading
<1> DEFINE l == IF w.call # None /\ w.loading \in Methods THEN "none" ELSE w.loading
<1>1. l \in Routes \cup {"none"}
    BY DEF WalletRow
<1>2. CancelPendingQuote(w) = [w EXCEPT !.timer = None, !.call = None, !.request = None,
                                        !.loading = l]
    BY DEF CancelPendingQuote
<1> HIDE DEF l
<1>3. /\ CancelPendingQuote(w) \in WalletRow
      /\ CancelPendingQuote(w).loading = l
      /\ CancelPendingQuote(w).timer = None /\ CancelPendingQuote(w).call = None
      /\ CancelPendingQuote(w).request = None
      /\ CancelPendingQuote(w).operation = w.operation
      /\ CancelPendingQuote(w).amount = w.amount /\ CancelPendingQuote(w).method = w.method
      /\ CancelPendingQuote(w).dialog = w.dialog
    BY <1>1, <1>2 DEF WalletRow
<1> QED BY <1>3 DEF l

\* What a new quote, asked for at once or after the debounce, does to the page.
Asking(w, v, a, m) ==
    /\ v \in WalletRow /\ v.quote = 0 /\ v.request = None /\ v.operation = w.operation
    /\ v.amount = w.amount /\ v.method = w.method /\ v.dialog = w.dialog
    /\ {v.timer, v.call} = {None, [amount |-> a, route |-> m]}

\* SchedulePaymentQuote and calculatePaymentQuote.
LEMMA AskFacts ==
    ASSUME NEW w \in WalletRow, NEW a \in Shown, NEW m \in Methods
    PROVE  /\ Asking(w, SchedulePaymentQuote(w, a, m), a, m)
           /\ SchedulePaymentQuote(w, a, m).loading =
                IF w.call # None /\ w.loading \in Methods THEN "none" ELSE w.loading
           /\ Asking(w, CalculatePaymentQuote(w, a, m), a, m)
           /\ CalculatePaymentQuote(w, a, m).timer = None
<1> DEFINE c == CancelPendingQuote(w)
           ask == [amount |-> a, route |-> m]
<1>1. /\ c \in WalletRow /\ c.timer = None /\ c.call = None /\ c.request = None
      /\ c.operation = w.operation /\ c.amount = w.amount /\ c.method = w.method
      /\ c.dialog = w.dialog
      /\ c.loading = IF w.call # None /\ w.loading \in Methods THEN "none" ELSE w.loading
    BY CancelFacts
<1>2. ask \in Call
    BY DEF Call
<1>3. SchedulePaymentQuote(w, a, m) = [c EXCEPT !.quote = 0, !.timer = ask]
    BY DEF SchedulePaymentQuote
<1>4. CalculatePaymentQuote(w, a, m) = [c EXCEPT !.quote = 0, !.call = ask]
    BY DEF CalculatePaymentQuote
<1> HIDE DEF c, ask
<1>5. LET v == [c EXCEPT !.quote = 0, !.timer = ask]
      IN  /\ v \in WalletRow /\ v.quote = 0 /\ v.request = None /\ v.operation = w.operation
          /\ v.amount = w.amount /\ v.method = w.method /\ v.dialog = w.dialog
          /\ v.timer = ask /\ v.call = None /\ v.loading = c.loading
    BY <1>1, <1>2 DEF WalletRow
<1>6. LET v == [c EXCEPT !.quote = 0, !.call = ask]
      IN  /\ v \in WalletRow /\ v.quote = 0 /\ v.request = None /\ v.operation = w.operation
          /\ v.amount = w.amount /\ v.method = w.method /\ v.dialog = w.dialog
          /\ v.call = ask /\ v.timer = None
    BY <1>1, <1>2 DEF WalletRow
<1> QED BY <1>1, <1>3, <1>4, <1>5, <1>6 DEF Asking, ask

\* The page when its settings have loaded.
LEMMA LoadedFacts ==
    ASSUME NEW w \in WalletRow
    PROVE  /\ LoadedWallet(w) \in WalletRow /\ LoadedWallet(w).quote = 0
           /\ LoadedWallet(w).request = None /\ LoadedWallet(w).operation = w.operation
           /\ LoadedWallet(w).dialog = w.dialog
           /\ (LoadedWallet(w).call # None => LoadedWallet(w).timer = None)
           /\ LoadedWallet(w).loading =
                IF w.call # None /\ w.loading \in Methods THEN "none" ELSE w.loading
<1> DEFINE v == [w EXCEPT !.amount = MinTopup, !.method = Default]
<1>1. MinTopup \in Shown /\ Default \in Methods
    BY CheckoutAssumption DEF Shown
<1>2. /\ v \in WalletRow /\ v.operation = w.operation /\ v.dialog = w.dialog
      /\ v.call = w.call /\ v.loading = w.loading
    BY <1>1 DEF WalletRow
<1>3. LoadedWallet(w) = SchedulePaymentQuote(v, MinTopup, Default)
    BY DEF LoadedWallet
<1> HIDE DEF v
<1>4. /\ Asking(v, LoadedWallet(w), MinTopup, Default)
      /\ LoadedWallet(w).loading =
           IF v.call # None /\ v.loading \in Methods THEN "none" ELSE v.loading
    BY <1>1, <1>2, <1>3, AskFacts
<1> QED BY <1>2, <1>4 DEF Asking

\* A page that was just mounted keeps nothing.
LEMMA FreshFacts ==
    /\ FreshWallet \in WalletRow /\ FreshWallet.quote = 0 /\ FreshWallet.request = None
    /\ FreshWallet.operation = None /\ FreshWallet.dialog = FALSE
    /\ FreshWallet.loading = "none"
    /\ (FreshWallet.call # None => FreshWallet.timer = None)
<1> DEFINE w == [amount |-> 0, method |-> Default, quote |-> 0, timer |-> None,
                 call |-> None, dialog |-> FALSE, loading |-> "none", request |-> None,
                 start |-> 0, optionStart |-> 0, operation |-> None]
<1>1. /\ w \in WalletRow /\ w.operation = None /\ w.dialog = FALSE /\ w.loading = "none"
      /\ w.call = None
    BY CheckoutAssumption DEF WalletRow, Shown
<1>2. FreshWallet = LoadedWallet(w)
    BY DEF FreshWallet
<1> HIDE DEF w
<1> QED BY <1>1, <1>2, LoadedFacts

\* A handler that is done with a start changes only what it waited for.
LEMMA EndFacts ==
    ASSUME NEW w \in WalletRow, NEW s \in StartRow
    PROVE  /\ StartEnds(w, s) \in WalletRow
           /\ StartEnds(w, s).quote = w.quote /\ StartEnds(w, s).request = w.request
           /\ StartEnds(w, s).operation = w.operation /\ StartEnds(w, s).dialog = w.dialog
           /\ StartEnds(w, s).amount = w.amount /\ StartEnds(w, s).method = w.method
           /\ StartEnds(w, s).timer = w.timer /\ StartEnds(w, s).call = w.call
           /\ StartEnds(w, s).loading \in {w.loading, "none"}
<1> DEFINE x == IF w.start = s.id THEN 0 ELSE w.start
           y == IF w.optionStart = s.id THEN 0 ELSE w.optionStart
           l == IF w.optionStart = s.id THEN "none" ELSE w.loading
<1>1. x \in Nat /\ y \in Nat /\ l \in Routes \cup {"none"} /\ l \in {w.loading, "none"}
    BY DEF WalletRow
<1>2. StartEnds(w, s) = [w EXCEPT !.start = x, !.optionStart = y, !.loading = l]
    BY DEF StartEnds
<1> HIDE DEF x, y, l
<1> QED BY <1>1, <1>2 DEF WalletRow

-----------------------------------------------------------------------------
(* Types                                                                   *)

\* The initial state is well typed.
LEMMA InitTypeInv == CheckoutInit => TypeInv
BY FreshFacts DEF CheckoutInit, TypeInv

\* What is appended to the quotes.
LEMMA NewQuoteFacts ==
    ASSUME TypeInv, NEW a \in Shown, NEW r \in Routes,
           quotes' = Append(quotes, NewQuote(a, r))
    PROVE  /\ quotes' \in Seq(QuoteRow) /\ Len(quotes) \in Nat /\ Len(quotes') = Len(quotes) + 1
           /\ \A q \in Quotes : quotes'[q] = quotes[q]
           /\ quotes'[Len(quotes) + 1] = NewQuote(a, r)
<1>1. NewQuote(a, r) \in QuoteRow
    BY DEF NewQuote, QuoteRow
<1> QED BY <1>1 DEF TypeInv, Quotes

\* What is sent.
LEMMA SendFacts ==
    ASSUME TypeInv, NEW q \in Nat, NEW r \in Nat, Send(q, r)
    PROVE  /\ starts' \subseteq StartRow /\ sent' = sent + 1 /\ sent' \in Nat
           /\ \A s \in starts' : s \in starts \/ (s.quote = q /\ s.request = r)
<1> DEFINE n == [id |-> sent + 1, quote |-> q, request |-> r,
                 done |-> FALSE, order |-> 0, awaited |-> TRUE]
<1>1. n \in StartRow /\ n.quote = q /\ n.request = r
    BY DEF TypeInv, StartRow
<1>2. starts' = starts \cup {n} /\ sent' = sent + 1
    BY DEF Send
<1> HIDE DEF n
<1> QED BY <1>1, <1>2 DEF TypeInv

\* The page keeps the types.
LEMMA WalletTypeInv ==
    ASSUME TypeInv, WalletStep
    PROVE  TypeInv'
<1>1. wallet \in WalletRow /\ sent \in Nat /\ Len(quotes) \in Nat
    BY DEF TypeInv
<1>2. ASSUME wallet' \in WalletRow, UNCHANGED <<pageVars, quotes, starts, sent>>
      PROVE  TypeInv'
    BY <1>2 DEF TypeInv, pageVars
<1>3. ASSUME NEW a \in Amounts \cup {0}, handleTopupAmountChange(a) PROVE TypeInv'
    <2>1. CASE a = 0
        BY <1>1, <1>2, <1>3, <2>1, LoadedFacts DEF handleTopupAmountChange
    <2>2. CASE a # 0
        <3> DEFINE w == [wallet EXCEPT !.amount = a]
        <3>1. w \in WalletRow /\ a \in Shown /\ wallet.method \in Methods
            BY <1>1 DEF WalletRow, Shown
        <3>2. wallet' = SchedulePaymentQuote(w, a, wallet.method)
            BY <1>3, <2>2 DEF handleTopupAmountChange
        <3> HIDE DEF w
        <3>3. wallet' \in WalletRow
            BY <3>1, <3>2, AskFacts DEF Asking
        <3> QED BY <1>2, <1>3, <3>3 DEF handleTopupAmountChange
    <2> QED BY <2>1, <2>2
<1>4. CASE QuoteTimerFires
    <2>1. wallet' \in WalletRow
        BY <1>1, <1>4 DEF QuoteTimerFires, WalletRow
    <2> QED BY <1>2, <1>4, <2>1 DEF QuoteTimerFires
<1>5. ASSUME NEW m \in Methods, handlePaymentMethodSelect(m) PROVE TypeInv'
    <2> DEFINE w == [wallet EXCEPT !.method = m]
    <2>1. w \in WalletRow /\ w.amount \in Shown
        BY <1>1 DEF WalletRow
    <2>2. wallet' = w \/ wallet' = [CalculatePaymentQuote(w, w.amount, m) EXCEPT !.loading = m]
        BY <1>5 DEF handlePaymentMethodSelect
    <2> HIDE DEF w
    <2>3. CalculatePaymentQuote(w, w.amount, m) \in WalletRow
        BY <2>1, AskFacts DEF Asking
    <2>4. wallet' \in WalletRow
        BY <2>1, <2>2, <2>3 DEF WalletRow, Routes
    <2> QED BY <1>2, <1>5, <2>4 DEF handlePaymentMethodSelect
<1>6. CASE ApplyQuote
    <2>1. wallet.call \in Call
        BY <1>1, <1>6 DEF ApplyQuote, WalletRow
    <2>2. wallet.call.amount \in Shown /\ wallet.call.route \in Routes
        BY <2>1 DEF Call, Routes
    <2>3. quotes' \in Seq(QuoteRow)
        BY <1>6, <2>2, NewQuoteFacts DEF ApplyQuote
    <2> DEFINE d == wallet.dialog \/ wallet.loading \in Methods
               l == IF wallet.loading \in Methods THEN "none" ELSE wallet.loading
    <2>4. d \in BOOLEAN /\ l \in Routes \cup {"none"} /\ Len(quotes) + 1 \in Nat
        BY <1>1 DEF WalletRow
    <2>5. wallet' = [wallet EXCEPT !.quote = Len(quotes) + 1, !.call = None,
                                   !.dialog = d, !.loading = l]
        BY <1>6 DEF ApplyQuote
    <2> HIDE DEF d, l
    <2>6. wallet' \in WalletRow
        BY <1>1, <2>4, <2>5 DEF WalletRow
    <2> QED BY <1>6, <2>3, <2>6 DEF ApplyQuote, TypeInv, pageVars
<1>7. CASE QuoteFails
    <2>1. wallet' \in WalletRow
        BY <1>1, <1>7 DEF QuoteFails, WalletRow
    <2> QED BY <1>2, <1>7, <2>1 DEF QuoteFails
<1>8. CASE CloseDialog
    <2>1. wallet' \in WalletRow
        BY <1>1, <1>8 DEF CloseDialog, WalletRow
    <2> QED BY <1>2, <1>8, <2>1 DEF CloseDialog
<1>9. CASE handlePaymentConfirm
    <2> DEFINE r == RequestFor(wallet, wallet.quote)
    <2>1. r \in Nat /\ wallet.quote \in Nat
        BY <1>1 DEF RequestFor, WalletRow, Ref
    <2>2. Send(wallet.quote, r)
            /\ wallet' = [wallet EXCEPT !.start = sent + 1,
                                        !.request = [quote |-> wallet.quote, request |-> r]]
        BY <1>9 DEF handlePaymentConfirm
    <2> HIDE DEF r
    <2>3. starts' \subseteq StartRow /\ sent' \in Nat
        BY <2>1, <2>2, SendFacts
    <2> DEFINE n == sent + 1
               ref == [quote |-> wallet.quote, request |-> r]
    <2>4. n \in Nat /\ ref \in Ref /\ wallet' = [wallet EXCEPT !.start = n, !.request = ref]
        BY <1>1, <2>1, <2>2 DEF Ref
    <2> HIDE DEF n, ref
    <2>5. wallet' \in WalletRow
        BY <1>1, <2>4 DEF WalletRow
    <2> QED BY <1>9, <2>3, <2>5 DEF handlePaymentConfirm, TypeInv, pageVars
<1>10. ASSUME NEW o \in Options, handlePaymentRouteOptionSelect(o) PROVE TypeInv'
    <2>1. wallet.operation \in OptionRef
        BY <1>1, <1>10 DEF handlePaymentRouteOptionSelect, SameOperation, WalletRow
    <2>2. wallet.operation.quote \in Nat /\ wallet.operation.request \in Nat
        BY <2>1 DEF OptionRef
    <2>3. starts' \subseteq StartRow /\ sent' \in Nat
        BY <1>10, <2>2, SendFacts DEF handlePaymentRouteOptionSelect
    <2>4. wallet' \in WalletRow
        <3> DEFINE n == sent + 1
        <3>1. n \in Nat /\ wallet' = [wallet EXCEPT !.loading = o, !.optionStart = n]
            BY <1>1, <1>10 DEF handlePaymentRouteOptionSelect
        <3> HIDE DEF n
        <3> QED BY <1>1, <3>1 DEF WalletRow, Routes
    <2> QED BY <1>10, <2>3, <2>4 DEF handlePaymentRouteOptionSelect, TypeInv, pageVars
<1>11. ASSUME NEW o \in Options, NewOperation(o) PROVE TypeInv'
    <2>1. wallet.amount \in Shown /\ o \in Routes
        BY <1>1 DEF WalletRow, Routes
    <2>2. quotes' \in Seq(QuoteRow)
        BY <1>11, <2>1, NewQuoteFacts DEF NewOperation
    <2>3. starts' \subseteq StartRow /\ sent' \in Nat
        <3>1. Len(quotes) + 1 \in Nat /\ sent + 1 \in Nat
            BY <1>1
        <3> QED BY <1>11, <3>1, SendFacts DEF NewOperation
    <2> DEFINE op == [option |-> o, amount |-> wallet.amount,
                      quote |-> Len(quotes) + 1, request |-> sent + 1]
               n == sent + 1
    <2>4. op \in OptionRef /\ n \in Nat
        BY <1>1, <2>1 DEF OptionRef
    <2>5. wallet' = [wallet EXCEPT !.loading = o, !.optionStart = n, !.operation = op]
        BY <1>11 DEF NewOperation
    <2> HIDE DEF op, n
    <2>6. wallet' \in WalletRow
        BY <1>1, <2>1, <2>4, <2>5 DEF WalletRow
    <2> QED BY <1>11, <2>2, <2>3, <2>6 DEF NewOperation, TypeInv, pageVars
<1> QED BY <1>3, <1>4, <1>5, <1>6, <1>7, <1>8, <1>9, <1>10, <1>11 DEF WalletStep

\* A new status leaves an order on its quote and request.
LEMMA StatusFacts ==
    ASSUME TypeInv, NEW o \in Orders, NEW x \in Statuses, SetStatus(o, x)
    PROVE  /\ orders' \in Seq(OrderRow) /\ Len(orders') = Len(orders)
           /\ \A p \in Orders : orders'[p].quote = orders[p].quote
                                  /\ orders'[p].request = orders[p].request
<1>1. orders[o] \in OrderRow
    BY DEF TypeInv, Orders
<1>2. [orders[o] EXCEPT !.status = x] \in OrderRow
    BY <1>1 DEF OrderRow
<1>3. orders' = [orders EXCEPT ![o] = [orders[o] EXCEPT !.status = x]]
    BY DEF SetStatus
<1>4. [orders[o] EXCEPT !.status = x].quote = orders[o].quote
        /\ [orders[o] EXCEPT !.status = x].request = orders[o].request
    BY <1>1 DEF OrderRow
<1> QED BY <1>2, <1>3, <1>4 DEF TypeInv, Orders

\* The steps of an order change its status only.
LEMMA OrderStepFacts ==
    ASSUME TypeInv, OrderStep
    PROVE  \E o \in Orders, x \in Statuses : SetStatus(o, x)
BY DEF OrderStep, SavePaymentOrderStart, FulfillPaymentOrder, FailPaymentOrder,
     ReversePaymentOrder, ExpireDuePaymentOrder, Statuses, Open

\* The page of an order changes no order.
LEMMA PageStepFacts == ASSUME PageStep PROVE orders' = orders
BY DEF PageStep, PollStep, PollAgain, OrderArrives, RequestFails, AbortedPollReturns,
     BrowserClockPasses, handleVisibilityChange, handleRefresh, RetryLoad

\* An answered start is still the same start.
LEMMA AnsweredFacts ==
    ASSUME TypeInv, NEW s \in starts, NEW o \in Nat, Answered(s, o)
    PROVE  /\ starts' \subseteq StartRow
           /\ \A t \in starts' : \E u \in starts : t.quote = u.quote /\ t.request = u.request
<1> DEFINE n == [s EXCEPT !.done = TRUE, !.order = o]
<1>1. n \in StartRow /\ n.quote = s.quote /\ n.request = s.request
    BY DEF TypeInv, StartRow
<1>2. starts' \subseteq (starts \ {s}) \cup {n}
    BY DEF Answered
<1> HIDE DEF n
<1> QED BY <1>1, <1>2 DEF TypeInv

\* So do the server and the way back.
LEMMA StartTypeInv ==
    ASSUME TypeInv, KeptInPairs, StartStep
    PROVE  TypeInv'
<1>1. PICK s \in starts : StartPayment(s) \/ OrderOpens(s) \/ StartRefused(s) \/ StartLost(s)
    BY DEF StartStep
<1>2. s \in StartRow /\ wallet \in WalletRow /\ starts \subseteq StartRow /\ Len(orders) \in Nat
    BY DEF TypeInv
<1>3. CASE StartPayment(s)
    <2>1. UNCHANGED <<view, sent, wallet>>
        BY <1>3 DEF StartPayment
    <2>2. CASE RetriedStart(s)
        <3>1. PICK o \in Orders :
                 /\ UNCHANGED quotes
                 /\ \/ Answered(s, IF orders[o].status \in Open THEN o ELSE 0) /\ UNCHANGED orders
                    \/ Answered(s, 0) /\ SetStatus(o, "expired")
            BY <2>2 DEF RetriedStart, OrderOf
        <3>2. o \in Nat /\ "expired" \in Statuses
            BY <1>2 DEF Orders, Statuses
        <3>3. starts' \subseteq StartRow
            BY <3>1, <3>2, AnsweredFacts
        <3>4. orders' \in Seq(OrderRow)
            BY <3>1, <3>2, StatusFacts DEF TypeInv
        <3> QED BY <2>1, <3>1, <3>3, <3>4 DEF TypeInv
    <2>3. CASE FirstStart(s)
        <3> DEFINE n == [quote |-> s.quote, request |-> s.request, status |-> "preparing"]
                   k == Len(orders) + 1
        <3>1. n \in OrderRow /\ k \in Nat
            BY <1>2 DEF StartRow, OrderRow, Statuses, Open
        <3>2. /\ orders' = Append(orders, n) /\ Answered(s, k)
              /\ quotes' = [quotes EXCEPT ![s.quote].order = k]
            BY <2>3 DEF FirstStart
        <3> HIDE DEF n, k
        <3>3. orders' \in Seq(OrderRow)
            BY <3>1, <3>2 DEF TypeInv
        <3>4. starts' \subseteq StartRow
            BY <3>1, <3>2, AnsweredFacts
        <3>5. quotes' \in Seq(QuoteRow)
            <4>1. s.quote \in Quotes
                BY DEF KeptInPairs, Kept
            <4>2. quotes[s.quote] \in QuoteRow
                BY <4>1 DEF TypeInv, Quotes
            <4>3. [quotes[s.quote] EXCEPT !.order = k] \in QuoteRow
                BY <3>1, <4>2 DEF QuoteRow
            <4>4. quotes' = [quotes EXCEPT ![s.quote] = [quotes[s.quote] EXCEPT !.order = k]]
                BY <3>2
            <4> QED BY <4>1, <4>3, <4>4 DEF TypeInv, Quotes
        <3> QED BY <2>1, <3>3, <3>4, <3>5 DEF TypeInv
    <2>4. CASE RefusedStart(s)
        <3>1. starts' \subseteq StartRow
            BY <2>4, AnsweredFacts DEF RefusedStart
        <3> QED BY <2>1, <2>4, <3>1 DEF RefusedStart, TypeInv
    <2> QED BY <1>3, <2>2, <2>3, <2>4 DEF StartPayment
<1>4. CASE OrderOpens(s)
    BY <1>4, FreshFacts DEF OrderOpens, TypeInv
<1>5. CASE StartRefused(s)
    BY <1>2, <1>5, EndFacts DEF StartRefused, TypeInv, pageVars
<1>6. CASE StartLost(s)
    <2>1. [s EXCEPT !.awaited = FALSE] \in StartRow
        BY <1>2 DEF StartRow
    <2> QED BY <1>2, <1>6, <2>1, EndFacts DEF StartLost, TypeInv, pageVars
<1> QED BY <1>1, <1>3, <1>4, <1>5, <1>6

\* An expired quote is otherwise the same.
LEMMA ExpiredFacts ==
    ASSUME TypeInv, NEW q \in Quotes, QuoteExpires(q)
    PROVE  /\ quotes' \in Seq(QuoteRow) /\ Len(quotes') = Len(quotes)
           /\ \A p \in Quotes : /\ quotes'[p].order = quotes[p].order
                                /\ quotes'[p].amount = quotes[p].amount
                                /\ quotes'[p].route = quotes[p].route
<1> DEFINE n == [quotes[q] EXCEPT !.expired = TRUE]
<1>1. quotes[q] \in QuoteRow
    BY DEF TypeInv, Quotes
<1>2. n \in QuoteRow /\ n.order = quotes[q].order /\ n.amount = quotes[q].amount
        /\ n.route = quotes[q].route
    BY <1>1 DEF QuoteRow
<1>3. quotes' = [quotes EXCEPT ![q] = n]
    BY DEF QuoteExpires
<1> HIDE DEF n
<1> QED BY <1>2, <1>3 DEF TypeInv, Quotes

\* Every step keeps the types.
LEMMA StepTypeInv == TypeInv /\ KeptInPairs /\ [CheckoutNext]_vars => TypeInv'
<1> SUFFICES ASSUME TypeInv, KeptInPairs, [CheckoutNext]_vars PROVE TypeInv'
    OBVIOUS
<1>1. CASE UNCHANGED vars
    BY <1>1 DEF vars, pageVars, TypeInv
<1>2. ASSUME NEW q \in Quotes, QuoteExpires(q) PROVE TypeInv'
    BY <1>2, ExpiredFacts DEF QuoteExpires, TypeInv, pageVars
<1>3. CASE ReturnToWallet
    BY <1>3, FreshFacts DEF ReturnToWallet, TypeInv
<1>4. CASE (OrderStep \/ PageStep) /\ UNCHANGED <<quotes, starts, sent, wallet>>
    <2>1. orders' \in Seq(OrderRow)
        BY <1>4, OrderStepFacts, StatusFacts, PageStepFacts DEF TypeInv
    <2> QED BY <1>4, <2>1 DEF TypeInv
<1> QED BY <1>1, <1>2, <1>3, <1>4, WalletTypeInv, StartTypeInv DEF CheckoutNext

-----------------------------------------------------------------------------
(* Pairs of a quote and a request id                                       *)

\* Nothing is kept that was not.
NothingNew == \A q, r : Kept(q, r)' => Kept(q, r)

\* One pair is kept that was not: a quote that is in no pair, with a new id.
OnePairMore(q0) ==
    /\ \A q, r : Kept(q, r)' => Kept(q, r) \/ (q = q0 /\ r = sent + 1)
    /\ \A r : ~Kept(q0, r)
    /\ q0 \in Quotes' /\ sent' = sent + 1

\* Nothing is new if orders, starts and page keep what they had.
LEMMA NothingNewFrom ==
    ASSUME \A t \in starts' : \E u \in starts : t.quote = u.quote /\ t.request = u.request,
           \A o \in Orders' : Kept(orders'[o].quote, orders'[o].request),
           wallet'.request \in {None, wallet.request},
           wallet'.operation \in {None, wallet.operation}
    PROVE  NothingNew
<1> SUFFICES ASSUME NEW q, NEW r, Kept(q, r)' PROVE Kept(q, r)
    BY DEF NothingNew
<1>1. CASE \E s \in starts' : s.quote = q /\ s.request = r
    BY <1>1 DEF Kept
<1>2. CASE \E o \in Orders' : orders'[o].quote = q /\ orders'[o].request = r
    BY <1>2
<1>3. CASE wallet'.request # None /\ wallet'.request.quote = q /\ wallet'.request.request = r
    BY <1>3 DEF Kept
<1>4. CASE wallet'.operation # None /\ wallet'.operation.quote = q /\ wallet'.operation.request = r
    BY <1>4 DEF Kept
<1> QED BY <1>1, <1>2, <1>3, <1>4 DEF Kept

\* The orders are kept as long as they keep their quote and request.
LEMMA OrdersKept ==
    ASSUME Len(orders') = Len(orders),
           \A p \in Orders : orders'[p].quote = orders[p].quote
                               /\ orders'[p].request = orders[p].request
    PROVE  \A o \in Orders' : Kept(orders'[o].quote, orders'[o].request)
BY DEF Orders, Kept

\* The quotes and the starts only get more.
Grown == /\ Len(quotes) \in Nat /\ sent \in Nat
         /\ Len(quotes') >= Len(quotes) /\ sent' >= sent
         /\ Len(quotes') \in Nat /\ sent' \in Nat

PairStep == Grown /\ (NothingNew \/ \E q0 \in Nat : OnePairMore(q0))

\* A page that forgets its request and keeps its operation keeps nothing new.
LEMMA PagePairs ==
    ASSUME TypeInv, UNCHANGED <<orders, starts, sent>>, Len(quotes') \in Nat,
           Len(quotes') >= Len(quotes),
           wallet'.request \in {None, wallet.request},
           wallet'.operation \in {None, wallet.operation}
    PROVE  Grown /\ NothingNew
<1>1. NothingNew
    <2>1. \A o \in Orders' : Kept(orders'[o].quote, orders'[o].request)
        BY OrdersKept DEF Orders
    <2> QED BY <2>1, NothingNewFrom
<1>2. Grown
    BY DEF Grown, TypeInv
<1> QED BY <1>1, <1>2

\* An operation that is resumed sends the pair it has.
LEMMA ResumedPairs ==
    ASSUME TypeInv, NEW o \in Options, handlePaymentRouteOptionSelect(o)
    PROVE  Grown /\ NothingNew
<1>0. wallet \in WalletRow /\ sent \in Nat /\ Len(quotes) \in Nat
    BY DEF TypeInv
<1>1. wallet.operation \in OptionRef /\ wallet.operation # None
    BY <1>0 DEF handlePaymentRouteOptionSelect, SameOperation, WalletRow
<1>2. wallet.operation.quote \in Nat /\ wallet.operation.request \in Nat
    BY <1>1 DEF OptionRef
<1>3. /\ sent' = sent + 1
      /\ \A s \in starts' : s \in starts \/ (s.quote = wallet.operation.quote
                                               /\ s.request = wallet.operation.request)
    BY <1>2, SendFacts DEF handlePaymentRouteOptionSelect
<1>4. Kept(wallet.operation.quote, wallet.operation.request)
    BY <1>1 DEF Kept
<1>5. wallet'.request = wallet.request /\ wallet'.operation = wallet.operation
    BY <1>0 DEF handlePaymentRouteOptionSelect, WalletRow
<1>6. UNCHANGED <<orders, quotes>>
    BY DEF handlePaymentRouteOptionSelect, pageVars
<1>7. NothingNew
    BY <1>3, <1>4, <1>5, <1>6 DEF NothingNew, Kept, Orders
<1>8. Grown
    BY <1>0, <1>3, <1>6 DEF Grown
<1> QED BY <1>7, <1>8

\* A new operation makes one pair.
LEMMA NewOperationPairs ==
    ASSUME TypeInv, KeptInPairs, NEW o \in Options, NewOperation(o)
    PROVE  Grown /\ Len(quotes) + 1 \in Nat /\ OnePairMore(Len(quotes) + 1)
<1>0. wallet \in WalletRow /\ sent \in Nat /\ Len(quotes) \in Nat
    BY DEF TypeInv
<1> DEFINE q0 == Len(quotes) + 1
           r0 == sent + 1
<1>1. wallet.amount \in Shown /\ o \in Routes /\ q0 \in Nat /\ r0 \in Nat
    BY <1>0 DEF WalletRow, Routes
<1>2. Len(quotes') = q0
    BY <1>1, NewQuoteFacts DEF NewOperation
<1>3. /\ sent' = sent + 1
      /\ \A s \in starts' : s \in starts \/ (s.quote = q0 /\ s.request = r0)
    BY <1>1, SendFacts DEF NewOperation
<1>4. /\ wallet'.request = wallet.request
      /\ wallet'.operation.quote = q0 /\ wallet'.operation.request = r0
    BY <1>0 DEF NewOperation, WalletRow
<1>5. orders' = orders
    BY DEF NewOperation, pageVars
<1>6. \A r : ~Kept(q0, r)
    BY <1>0 DEF KeptInPairs, Quotes
<1>7. Grown /\ q0 \in Quotes'
    BY <1>0, <1>2, <1>3 DEF Grown, Quotes
<1>8. \A q, r : Kept(q, r)' => Kept(q, r) \/ (q = q0 /\ r = r0)
    BY <1>3, <1>4, <1>5 DEF Kept, Orders
<1>9. OnePairMore(q0)
    BY <1>3, <1>6, <1>7, <1>8 DEF OnePairMore
<1> QED BY <1>1, <1>7, <1>9

\* What the page asks for is not kept before it is started.
LEMMA WalletPairs ==
    ASSUME TypeInv, KeptInPairs, PageKeepsItsRequest, WalletStep
    PROVE  PairStep
<1>1. wallet \in WalletRow /\ sent \in Nat /\ Len(quotes) \in Nat
    BY DEF TypeInv
<1>2. ASSUME NEW a \in Amounts \cup {0}, handleTopupAmountChange(a) PROVE PairStep
    <2>1. wallet'.request = None /\ wallet'.operation = wallet.operation
        <3>1. CASE a = 0
            BY <1>1, <1>2, <3>1, LoadedFacts DEF handleTopupAmountChange
        <3>2. CASE a # 0
            <4> DEFINE w == [wallet EXCEPT !.amount = a]
            <4>1. w \in WalletRow /\ a \in Shown /\ wallet.method \in Methods
                    /\ w.operation = wallet.operation
                BY <1>1 DEF WalletRow, Shown
            <4>2. wallet' = SchedulePaymentQuote(w, a, wallet.method)
                BY <1>2, <3>2 DEF handleTopupAmountChange
            <4> HIDE DEF w
            <4> QED BY <4>1, <4>2, AskFacts DEF Asking
        <3> QED BY <3>1, <3>2
    <2> QED BY <1>1, <1>2, <2>1, PagePairs DEF PairStep, handleTopupAmountChange, pageVars
<1>3. ASSUME NEW m \in Methods, handlePaymentMethodSelect(m) PROVE PairStep
    <2> DEFINE w == [wallet EXCEPT !.method = m]
               c == CalculatePaymentQuote(w, w.amount, m)
    <2>1. w \in WalletRow /\ w.amount \in Shown /\ w.operation = wallet.operation
            /\ w.request = wallet.request
        BY <1>1 DEF WalletRow
    <2>2. wallet' = w \/ wallet' = [c EXCEPT !.loading = m]
        BY <1>3 DEF handlePaymentMethodSelect
    <2> HIDE DEF w
    <2>3. c \in WalletRow /\ c.request = None /\ c.operation = wallet.operation
        BY <2>1, AskFacts DEF Asking
    <2> HIDE DEF c
    <2>4. wallet'.request \in {None, wallet.request} /\ wallet'.operation = wallet.operation
        BY <2>1, <2>2, <2>3 DEF WalletRow
    <2> QED BY <1>1, <1>3, <2>4, PagePairs DEF PairStep, handlePaymentMethodSelect, pageVars
<1>4. CASE QuoteTimerFires \/ QuoteFails \/ CloseDialog
    <2>1. wallet'.request = wallet.request /\ wallet'.operation = wallet.operation
        BY <1>1, <1>4 DEF QuoteTimerFires, QuoteFails, CloseDialog, WalletRow
    <2>2. UNCHANGED <<orders, starts, sent, quotes>>
        BY <1>4 DEF QuoteTimerFires, QuoteFails, CloseDialog, pageVars
    <2> QED BY <1>1, <2>1, <2>2, PagePairs DEF PairStep
<1>5. CASE ApplyQuote
    <2>1. wallet'.request = wallet.request /\ wallet'.operation = wallet.operation
        BY <1>1, <1>5 DEF ApplyQuote, WalletRow
    <2>2. wallet.call.amount \in Shown /\ wallet.call.route \in Routes
        BY <1>1, <1>5 DEF ApplyQuote, WalletRow, Call, Routes
    <2>3. Len(quotes') = Len(quotes) + 1
        BY <1>5, <2>2, NewQuoteFacts DEF ApplyQuote
    <2>4. UNCHANGED <<orders, starts, sent>>
        BY <1>5 DEF ApplyQuote, pageVars
    <2> QED BY <1>1, <2>1, <2>3, <2>4, PagePairs DEF PairStep
<1>6. CASE handlePaymentConfirm
    <2> DEFINE r == RequestFor(wallet, wallet.quote)
    <2>1. r \in Nat /\ wallet.quote \in Nat
        BY <1>1 DEF RequestFor, WalletRow, Ref
    <2>2. /\ Send(wallet.quote, r) /\ wallet.quote # 0 /\ UNCHANGED <<orders, quotes>>
          /\ wallet' = [wallet EXCEPT !.start = sent + 1,
                                      !.request = [quote |-> wallet.quote, request |-> r]]
        BY <1>6 DEF handlePaymentConfirm, pageVars
    <2>3. wallet'.operation = wallet.operation
            /\ wallet'.request.quote = wallet.quote /\ wallet'.request.request = r
        BY <1>1, <2>2 DEF WalletRow
    <2>4. IF wallet.request = None THEN r = sent + 1 /\ \A t : ~Kept(wallet.quote, t)
                                   ELSE Kept(wallet.quote, r)
        BY DEF RequestFor, PageKeepsItsRequest, Kept
    <2> HIDE DEF r
    <2>5. /\ sent' = sent + 1
          /\ \A s \in starts' : s \in starts \/ (s.quote = wallet.quote /\ s.request = r)
        BY <2>1, <2>2, SendFacts
    <2>6. \A q, t : Kept(q, t)' => Kept(q, t) \/ (q = wallet.quote /\ t = r)
        BY <2>2, <2>3, <2>5 DEF Kept, Orders
    <2>7. Grown
        BY <1>1, <2>2, <2>5 DEF Grown
    <2>8. CASE wallet.request = None
        <3>1. wallet.quote \in Quotes'
            BY <2>2 DEF PageKeepsItsRequest, Quotes
        <3>2. OnePairMore(wallet.quote)
            BY <2>4, <2>5, <2>6, <2>8, <3>1 DEF OnePairMore
        <3> QED BY <2>1, <2>7, <3>2 DEF PairStep
    <2>9. CASE wallet.request # None
        BY <2>4, <2>6, <2>7, <2>9 DEF PairStep, NothingNew
    <2> QED BY <2>8, <2>9
<1>7. ASSUME NEW o \in Options, handlePaymentRouteOptionSelect(o) PROVE PairStep
    BY <1>7, ResumedPairs DEF PairStep
<1>8. ASSUME NEW o \in Options, NewOperation(o) PROVE PairStep
    BY <1>1, <1>8, NewOperationPairs DEF PairStep
<1> QED BY <1>2, <1>3, <1>4, <1>5, <1>6, <1>7, <1>8 DEF WalletStep

\* A start keeps its quote and request, and so does the order it makes.
LEMMA StartPairs ==
    ASSUME TypeInv, KeptInPairs, StartStep
    PROVE  Grown /\ NothingNew
<1>1. PICK s \in starts : StartPayment(s) \/ OrderOpens(s) \/ StartRefused(s) \/ StartLost(s)
    BY DEF StartStep
<1>2. /\ s \in StartRow /\ wallet \in WalletRow /\ Len(orders) \in Nat
      /\ Len(quotes) \in Nat /\ sent \in Nat
    BY DEF TypeInv
<1>3. Kept(s.quote, s.request)
    BY DEF Kept
<1>4. CASE StartPayment(s)
    <2>1. UNCHANGED <<sent, wallet>>
        BY <1>4 DEF StartPayment
    <2>2. CASE RetriedStart(s)
        <3>1. PICK o \in Orders :
                 /\ UNCHANGED quotes
                 /\ \/ Answered(s, IF orders[o].status \in Open THEN o ELSE 0) /\ UNCHANGED orders
                    \/ Answered(s, 0) /\ SetStatus(o, "expired")
            BY <2>2 DEF RetriedStart, OrderOf
        <3>2. o \in Nat /\ "expired" \in Statuses
            BY <1>2 DEF Orders, Statuses
        <3>3. \A t \in starts' : \E u \in starts : t.quote = u.quote /\ t.request = u.request
            BY <3>1, <3>2, AnsweredFacts
        <3>4. Len(orders') = Len(orders)
                /\ \A p \in Orders : orders'[p].quote = orders[p].quote
                                       /\ orders'[p].request = orders[p].request
            BY <3>1, <3>2, StatusFacts
        <3>5. NothingNew
            BY <2>1, <3>3, <3>4, OrdersKept, NothingNewFrom
        <3> QED BY <1>2, <2>1, <3>1, <3>5 DEF Grown
    <2>3. CASE FirstStart(s)
        <3> DEFINE n == [quote |-> s.quote, request |-> s.request, status |-> "preparing"]
                   k == Len(orders) + 1
        <3>1. n \in OrderRow /\ k \in Nat /\ n.quote = s.quote /\ n.request = s.request
            BY <1>2 DEF StartRow, OrderRow, Statuses, Open
        <3>2. /\ orders' = Append(orders, n) /\ Answered(s, k)
              /\ quotes' = [quotes EXCEPT ![s.quote].order = k]
            BY <2>3 DEF FirstStart
        <3>3. \A t \in starts' : \E u \in starts : t.quote = u.quote /\ t.request = u.request
            BY <3>1, <3>2, AnsweredFacts
        <3> HIDE DEF n
        <3>4. \A o \in Orders' : Kept(orders'[o].quote, orders'[o].request)
            <4>1. Len(orders') = k /\ orders'[k] = n /\ \A p \in Orders : orders'[p] = orders[p]
                BY <3>1, <3>2 DEF TypeInv, Orders
            <4>2. \A p \in Orders : Kept(orders[p].quote, orders[p].request)
                BY DEF Kept
            <4>3. \A o \in Orders' : o \in Orders \/ o = k
                BY <1>2, <4>1 DEF Orders
            <4> QED BY <1>3, <3>1, <4>1, <4>2, <4>3
        <3>5. Len(quotes') = Len(quotes)
            BY <3>2 DEF TypeInv
        <3>6. NothingNew
            BY <2>1, <3>3, <3>4, NothingNewFrom
        <3> QED BY <1>2, <2>1, <3>5, <3>6 DEF Grown
    <2>4. CASE RefusedStart(s)
        <3>1. \A t \in starts' : \E u \in starts : t.quote = u.quote /\ t.request = u.request
            BY <2>4, AnsweredFacts DEF RefusedStart
        <3>2. UNCHANGED <<orders, quotes>>
            BY <2>4 DEF RefusedStart
        <3>3. NothingNew
            BY <2>1, <3>1, <3>2, OrdersKept, NothingNewFrom
        <3> QED BY <1>2, <2>1, <3>2, <3>3 DEF Grown
    <2> QED BY <1>4, <2>2, <2>3, <2>4 DEF StartPayment
<1>5. CASE OrderOpens(s) \/ StartRefused(s) \/ StartLost(s)
    <2>1. UNCHANGED <<orders, quotes, sent>>
        BY <1>5 DEF OrderOpens, StartRefused, StartLost, pageVars
    <2>2. \A t \in starts' : \E u \in starts : t.quote = u.quote /\ t.request = u.request
        <3> DEFINE n == [s EXCEPT !.awaited = FALSE]
        <3>1. n.quote = s.quote /\ n.request = s.request
            BY <1>2 DEF StartRow
        <3>2. starts' \subseteq starts \cup {n}
            BY <1>5 DEF OrderOpens, StartRefused, StartLost
        <3> HIDE DEF n
        <3> QED BY <3>1, <3>2
    <2>3. wallet'.request \in {None, wallet.request}
            /\ wallet'.operation \in {None, wallet.operation}
        <3>1. CASE wallet' = FreshWallet
            BY <3>1, FreshFacts
        <3>2. CASE wallet' = StartEnds(wallet, s)
            BY <1>2, <3>2, EndFacts
        <3> QED BY <1>5, <3>1, <3>2 DEF OrderOpens, StartRefused, StartLost
    <2>4. NothingNew
        BY <2>1, <2>2, <2>3, OrdersKept, NothingNewFrom
    <2> QED BY <1>2, <2>1, <2>4 DEF Grown
<1> QED BY <1>1, <1>4, <1>5

\* Every step keeps what was kept, or adds one new pair.
LEMMA PairSteps ==
    ASSUME TypeInv, KeptInPairs, PageKeepsItsRequest, CheckoutNext
    PROVE  PairStep
<1>1. Len(quotes) \in Nat /\ sent \in Nat
    BY DEF TypeInv
<1>2. ASSUME NEW q \in Quotes, QuoteExpires(q) PROVE PairStep
    <2>1. Len(quotes') = Len(quotes)
        BY <1>2, ExpiredFacts
    <2> QED BY <1>1, <1>2, <2>1, PagePairs DEF PairStep, QuoteExpires, pageVars
<1>3. CASE ReturnToWallet
    BY <1>1, <1>3, FreshFacts, PagePairs DEF PairStep, ReturnToWallet
<1>4. CASE (OrderStep \/ PageStep) /\ UNCHANGED <<quotes, starts, sent, wallet>>
    <2>1. Len(orders') = Len(orders)
            /\ \A p \in Orders : orders'[p].quote = orders[p].quote
                                   /\ orders'[p].request = orders[p].request
        BY <1>4, OrderStepFacts, StatusFacts, PageStepFacts
    <2>2. NothingNew
        BY <1>4, <2>1, OrdersKept, NothingNewFrom
    <2> QED BY <1>1, <1>4, <2>2 DEF PairStep, Grown
<1> QED BY <1>2, <1>3, <1>4, WalletPairs, StartPairs DEF CheckoutNext, PairStep

\* So the pairs stay pairs.
LEMMA PairsStay ==
    ASSUME KeptInPairs, PairStep
    PROVE  KeptInPairs'
<1>1. CASE NothingNew
    BY <1>1 DEF PairStep, NothingNew, KeptInPairs, Grown, Quotes
<1>2. ASSUME NEW q0 \in Nat, OnePairMore(q0) PROVE KeptInPairs'
    <2>1. \A q, r : Kept(q, r) => q \in Quotes /\ r \in 1..sent
        BY DEF KeptInPairs
    <2>2. /\ sent \in Nat /\ sent' = sent + 1 /\ Len(quotes) \in Nat /\ Len(quotes') \in Nat
          /\ Len(quotes') >= Len(quotes)
        BY <1>2 DEF PairStep, Grown, OnePairMore
    <2>3. \A q, r : Kept(q, r)' => q \in Quotes' /\ r \in 1..sent'
        BY <1>2, <2>1, <2>2 DEF OnePairMore, Quotes
    <2>4. ASSUME NEW q, NEW r, NEW p, NEW t, Kept(q, r)', Kept(p, t)'
          PROVE  q = p <=> r = t
        <3>1. Kept(q, r) \/ (q = q0 /\ r = sent + 1)
            BY <1>2, <2>4 DEF OnePairMore
        <3>2. Kept(p, t) \/ (p = q0 /\ t = sent + 1)
            BY <1>2, <2>4 DEF OnePairMore
        <3>3. CASE Kept(q, r) /\ Kept(p, t)
            BY <3>3 DEF KeptInPairs
        <3>4. CASE Kept(q, r) /\ p = q0 /\ t = sent + 1
            <4>1. q # q0 /\ r \in 1..sent
                BY <1>2, <2>1, <3>4 DEF OnePairMore
            <4> QED BY <2>2, <3>4, <4>1
        <3>5. CASE Kept(p, t) /\ q = q0 /\ r = sent + 1
            <4>1. p # q0 /\ t \in 1..sent
                BY <1>2, <2>1, <3>5 DEF OnePairMore
            <4> QED BY <2>2, <3>5, <4>1
        <3> QED BY <3>1, <3>2, <3>3, <3>4, <3>5
    <2> QED BY <2>3, <2>4 DEF KeptInPairs
<1> QED BY <1>1, <1>2 DEF PairStep

-----------------------------------------------------------------------------
(* Orders and their quotes                                                 *)

\* A quote keeps what it is for; what may change is its expiry and its order.
QuotesGrow ==
    /\ Len(quotes) \in Nat /\ Len(quotes') \in Nat /\ Len(quotes') >= Len(quotes)
    /\ \A q \in Quotes : /\ quotes'[q].amount = quotes[q].amount
                         /\ quotes'[q].route = quotes[q].route

\* No quote gets an order.
NoneOrdered ==
    \A q \in Quotes' : quotes'[q].order = IF q \in Quotes THEN quotes[q].order ELSE 0

\* The orders stay on their quotes.
OrdersStay == /\ Len(orders') = Len(orders)
              /\ \A p \in Orders : orders'[p].quote = orders[p].quote

\* Then quotes and orders still know each other.
LEMMA MatchStays ==
    ASSUME OrdersMatchQuotes, OrdersStay, QuotesGrow, NoneOrdered
    PROVE  OrdersMatchQuotes'
<1>1. Orders' = Orders /\ Quotes \subseteq Quotes'
    BY DEF OrdersStay, QuotesGrow, Orders, Quotes
<1>2. ASSUME NEW o \in Orders'
      PROVE  orders'[o].quote \in Quotes' /\ quotes'[orders'[o].quote].order = o
    <2>1. o \in Orders /\ orders'[o].quote = orders[o].quote
        BY <1>1 DEF OrdersStay
    <2>2. orders[o].quote \in Quotes /\ quotes[orders[o].quote].order = o
        BY <2>1 DEF OrdersMatchQuotes
    <2> QED BY <1>1, <2>1, <2>2 DEF NoneOrdered
<1>3. ASSUME NEW q \in Quotes', quotes'[q].order # 0
      PROVE  quotes'[q].order \in Orders' /\ orders'[quotes'[q].order].quote = q
    <2>1. q \in Quotes /\ quotes'[q].order = quotes[q].order
        BY <1>3 DEF NoneOrdered
    <2>2. quotes[q].order \in Orders /\ orders[quotes[q].order].quote = q
        BY <1>3, <2>1 DEF OrdersMatchQuotes
    <2> QED BY <1>1, <2>1, <2>2 DEF OrdersStay
<1> QED BY <1>2, <1>3 DEF OrdersMatchQuotes

\* Quotes that are the same.
LEMMA SameQuotes ==
    ASSUME TypeInv, quotes' = quotes
    PROVE  QuotesGrow /\ NoneOrdered
BY DEF TypeInv, QuotesGrow, NoneOrdered, Quotes

\* A quote more.
LEMMA QuoteMore ==
    ASSUME TypeInv, NEW a \in Shown, NEW r \in Routes,
           quotes' = Append(quotes, NewQuote(a, r))
    PROVE  QuotesGrow /\ NoneOrdered
<1> DEFINE n == NewQuote(a, r)
           k == Len(quotes) + 1
<1>1. /\ Len(quotes) \in Nat /\ Len(quotes') = k /\ quotes'[k] = n
      /\ \A q \in Quotes : quotes'[q] = quotes[q]
    BY NewQuoteFacts
<1>2. n.order = 0
    BY DEF NewQuote
<1> HIDE DEF n
<1>3. QuotesGrow
    <2>1. Len(quotes') \in Nat /\ Len(quotes') >= Len(quotes)
        BY <1>1
    <2>2. \A q \in Quotes : /\ quotes'[q].amount = quotes[q].amount
                            /\ quotes'[q].route = quotes[q].route
        BY <1>1
    <2> QED BY <1>1, <2>1, <2>2 DEF QuotesGrow
<1>4. \A q \in Quotes' : q \in Quotes \/ q = k
    BY <1>1 DEF Quotes
<1>5. k \notin Quotes
    BY <1>1 DEF Quotes
<1> HIDE DEF k
<1> QED BY <1>1, <1>2, <1>3, <1>4, <1>5 DEF NoneOrdered

\* The page makes no order.
LEMMA WalletQuotes ==
    ASSUME TypeInv, WalletStep
    PROVE  QuotesGrow /\ NoneOrdered /\ orders' = orders
<1>1. wallet \in WalletRow
    BY DEF TypeInv
<1>2. CASE ApplyQuote
    <2>1. wallet.call.amount \in Shown /\ wallet.call.route \in Routes
        BY <1>1, <1>2 DEF ApplyQuote, WalletRow, Call, Routes
    <2> QED BY <1>2, <2>1, QuoteMore DEF ApplyQuote, pageVars
<1>3. ASSUME NEW o \in Options, NewOperation(o)
      PROVE  QuotesGrow /\ NoneOrdered /\ orders' = orders
    <2>1. wallet.amount \in Shown /\ o \in Routes
        BY <1>1 DEF WalletRow, Routes
    <2> QED BY <1>3, <2>1, QuoteMore DEF NewOperation, pageVars
<1>4. CASE UNCHANGED <<pageVars, quotes>>
    BY <1>4, SameQuotes DEF pageVars
<1> QED BY <1>2, <1>3, <1>4 DEF WalletStep, handleTopupAmountChange, QuoteTimerFires,
          handlePaymentMethodSelect, QuoteFails, CloseDialog, handlePaymentConfirm,
          handlePaymentRouteOptionSelect

\* The server makes an order of a quote that has none.
LEMMA FirstStartMatches ==
    ASSUME TypeInv, KeptInPairs, OrdersMatchQuotes, NEW s \in starts, FirstStart(s)
    PROVE  QuotesGrow /\ OrdersMatchQuotes'
<1> DEFINE n == [quote |-> s.quote, request |-> s.request, status |-> "preparing"]
           k == Len(orders) + 1
           m == [quotes[s.quote] EXCEPT !.order = k]
<1>1. s.quote \in Quotes /\ quotes[s.quote].order = 0
    BY DEF FirstStart, KeptInPairs, Kept
<1>2. /\ n \in OrderRow /\ n.quote = s.quote /\ Len(orders) \in Nat /\ k \in Nat /\ k # 0
      /\ k \notin Orders
    BY DEF TypeInv, StartRow, OrderRow, Statuses, Open, Orders
<1>3. /\ m.order = k /\ m.amount = quotes[s.quote].amount
      /\ m.route = quotes[s.quote].route
    <2>1. quotes[s.quote] \in QuoteRow
        BY <1>1 DEF TypeInv, Quotes
    <2> QED BY <2>1 DEF QuoteRow
<1>4. orders' = Append(orders, n) /\ quotes' = [quotes EXCEPT ![s.quote] = m]
    BY DEF FirstStart
<1> HIDE DEF n, m
<1>5. /\ Len(orders') = k /\ orders'[k] = n
      /\ \A p \in Orders : orders'[p] = orders[p]
    BY <1>2, <1>4 DEF TypeInv, Orders
<1>6. /\ Len(quotes') = Len(quotes) /\ Len(quotes) \in Nat /\ quotes'[s.quote] = m
      /\ \A q \in Quotes \ {s.quote} : quotes'[q] = quotes[q]
    BY <1>1, <1>4 DEF TypeInv, Quotes
<1>7. QuotesGrow
    BY <1>3, <1>6 DEF QuotesGrow
<1>8. /\ Quotes' = Quotes /\ k \in Orders' /\ Orders \subseteq Orders'
      /\ \A o \in Orders' : o \in Orders \/ o = k
    BY <1>2, <1>5, <1>6 DEF Quotes, Orders
<1> HIDE DEF k
<1>9. ASSUME NEW o \in Orders'
      PROVE  orders'[o].quote \in Quotes' /\ quotes'[orders'[o].quote].order = o
    <2>1. CASE o = k
        BY <1>1, <1>2, <1>3, <1>5, <1>6, <1>8, <2>1
    <2>2. CASE o \in Orders
        <3>1. orders'[o] = orders[o] /\ orders[o].quote \in Quotes
                /\ quotes[orders[o].quote].order = o
            BY <1>5, <2>2 DEF OrdersMatchQuotes
        <3>2. orders[o].quote # s.quote
            BY <1>1, <2>2, <3>1 DEF Orders
        <3> QED BY <1>6, <1>8, <3>1, <3>2
    <2> QED BY <1>8, <2>1, <2>2
<1>10. ASSUME NEW q \in Quotes', quotes'[q].order # 0
       PROVE  quotes'[q].order \in Orders' /\ orders'[quotes'[q].order].quote = q
    <2>1. CASE q = s.quote
        BY <1>2, <1>3, <1>5, <1>6, <1>8, <2>1
    <2>2. CASE q # s.quote
        <3>1. q \in Quotes /\ quotes'[q] = quotes[q]
            BY <1>6, <1>8, <2>2
        <3>2. quotes[q].order \in Orders /\ orders[quotes[q].order].quote = q
            BY <1>10, <3>1 DEF OrdersMatchQuotes
        <3> QED BY <1>5, <1>8, <3>1, <3>2
    <2> QED BY <2>1, <2>2
<1> QED BY <1>7, <1>9, <1>10 DEF OrdersMatchQuotes

\* Every step keeps orders and quotes together.
LEMMA StepMatches ==
    ASSUME TypeInv, KeptInPairs, OrdersMatchQuotes, CheckoutNext
    PROVE  QuotesGrow /\ OrdersMatchQuotes'
<1>1. ASSUME QuotesGrow, NoneOrdered, OrdersStay PROVE QuotesGrow /\ OrdersMatchQuotes'
    BY <1>1, MatchStays
<1>2. orders' = orders => OrdersStay
    BY DEF OrdersStay
<1>3. CASE WalletStep
    BY <1>1, <1>2, <1>3, WalletQuotes
<1>4. CASE StartStep
    <2>1. PICK s \in starts : StartPayment(s) \/ OrderOpens(s) \/ StartRefused(s) \/ StartLost(s)
        BY <1>4 DEF StartStep
    <2>2. CASE FirstStart(s)
        BY <2>2, FirstStartMatches
    <2>3. CASE RetriedStart(s)
        <3>1. quotes' = quotes /\ (orders' = orders \/ \E o \in Orders : SetStatus(o, "expired"))
            BY <2>3 DEF RetriedStart, OrderOf
        <3>2. "expired" \in Statuses
            BY DEF Statuses
        <3>3. OrdersStay
            BY <1>2, <3>1, <3>2, StatusFacts DEF OrdersStay
        <3> QED BY <1>1, <3>1, <3>3, SameQuotes
    <2>4. CASE RefusedStart(s) \/ OrderOpens(s) \/ StartRefused(s) \/ StartLost(s)
        <3>1. quotes' = quotes /\ orders' = orders
            BY <2>4 DEF RefusedStart, OrderOpens, StartRefused, StartLost, pageVars
        <3> QED BY <1>1, <1>2, <3>1, SameQuotes
    <2> QED BY <2>1, <2>2, <2>3, <2>4 DEF StartPayment
<1>5. ASSUME NEW q \in Quotes, QuoteExpires(q) PROVE QuotesGrow /\ OrdersMatchQuotes'
    <2>1. QuotesGrow /\ NoneOrdered
        <3>1. Len(quotes) \in Nat
            BY DEF TypeInv
        <3> QED BY <1>5, <3>1, ExpiredFacts DEF QuotesGrow, NoneOrdered, Quotes
    <2>2. orders' = orders
        BY <1>5 DEF QuoteExpires, pageVars
    <2> QED BY <1>1, <1>2, <2>1, <2>2
<1>6. CASE ReturnToWallet
    BY <1>1, <1>2, <1>6, SameQuotes DEF ReturnToWallet
<1>7. CASE (OrderStep \/ PageStep) /\ UNCHANGED <<quotes, starts, sent, wallet>>
    <2>1. OrdersStay
        BY <1>2, <1>7, OrderStepFacts, StatusFacts, PageStepFacts DEF OrdersStay
    <2> QED BY <1>1, <1>7, <2>1, SameQuotes
<1> QED BY <1>3, <1>4, <1>5, <1>6, <1>7 DEF CheckoutNext

-----------------------------------------------------------------------------
(* What the page keeps and shows                                           *)

\* A page that asks anew keeps no quote and no request.
LEMMA PageForgets ==
    ASSUME KeptInPairs', wallet'.quote = 0, wallet'.request = None,
           wallet'.call # None => wallet'.timer = None
    PROVE  PageKeepsItsRequest'
<1>1. 0 \notin Quotes'
    BY DEF Quotes
<1>2. \A r : ~Kept(0, r)'
    BY <1>1 DEF KeptInPairs
<1>3. \A r : ~Kept(wallet.quote, r)'
    BY <1>2
<1> QED BY <1>3 DEF PageKeepsItsRequest

\* A page whose quote and request stay, while no other pair has its quote.
LEMMA PageStays ==
    ASSUME PageKeepsItsRequest, Grown, NothingNew \/ OnePairMore(Len(quotes) + 1),
           wallet'.quote = wallet.quote, wallet'.request = wallet.request,
           wallet'.timer = wallet.timer, wallet'.call = wallet.call
    PROVE  PageKeepsItsRequest'
<1>1. Quotes \subseteq Quotes'
    BY DEF Grown, Quotes
<1>2. wallet.quote # Len(quotes) + 1
    BY DEF PageKeepsItsRequest, Grown, Quotes
<1>3. \A r : Kept(wallet.quote, r)' => Kept(wallet.quote, r)
    BY <1>2 DEF NothingNew, OnePairMore
<1> QED BY <1>1, <1>3 DEF PageKeepsItsRequest, Calculating

\* What the dialog shows stays as long as the page does.
LEMMA ShownStays ==
    ASSUME ShownInv, QuotesGrow, wallet'.quote = wallet.quote,
           wallet'.timer = wallet.timer, wallet'.call = wallet.call,
           wallet'.amount = wallet.amount, wallet'.method = wallet.method,
           wallet'.dialog = wallet.dialog \/ wallet'.dialog = FALSE,
           wallet'.loading = wallet.loading \/ wallet'.loading \notin Methods
    PROVE  ShownInv'
<1>1. SelectionIsAsked'
    BY DEF ShownInv, SelectionIsAsked
<1>2. CASE wallet'.dialog
    <2>1. wallet.dialog
        BY <1>2
    <2>2. /\ ~Calculating /\ wallet.quote \in Quotes
          /\ quotes[wallet.quote].amount = wallet.amount
          /\ quotes[wallet.quote].route = wallet.method
        BY <2>1 DEF ShownInv, DialogShowsQuote
    <2>3. ~Calculating'
        BY <2>2 DEF Calculating
    <2>4. wallet.quote \in Quotes'
        BY <2>2 DEF QuotesGrow, Quotes
    <2>5. quotes'[wallet.quote].amount = wallet.amount
            /\ quotes'[wallet.quote].route = wallet.method
        BY <2>2 DEF QuotesGrow
    <2> QED BY <1>1, <2>3, <2>4, <2>5 DEF ShownInv, DialogShowsQuote
<1>3. CASE ~wallet'.dialog
    BY <1>1, <1>3 DEF ShownInv, DialogShowsQuote
<1> QED BY <1>2, <1>3

\* Without a dialog and a selection there is nothing to show.
LEMMA NothingShown ==
    ASSUME wallet'.dialog = FALSE, wallet'.loading \notin Methods
    PROVE  ShownInv'
BY DEF ShownInv, SelectionIsAsked, DialogShowsQuote

\* The page keeps the request of its quote and shows what it was asked.
LEMMA WalletPage ==
    ASSUME TypeInv, KeptInPairs, KeptInPairs', PageKeepsItsRequest, ShownInv, WalletStep
    PROVE  PageKeepsItsRequest' /\ ShownInv'
<1>1. /\ wallet \in WalletRow /\ sent \in Nat /\ Len(quotes) \in Nat
      /\ wallet.amount \in Shown /\ wallet.method \in Methods
    BY DEF TypeInv, WalletRow
<1>2. "none" \notin Methods
    BY CheckoutAssumption
<1>3. QuotesGrow
    BY WalletQuotes
<1>4. wallet.loading \in Methods => wallet.call # None
    <2>1. [amount |-> wallet.amount, route |-> wallet.method] \in Call
        BY <1>1 DEF Call
    <2> QED BY <2>1, SomeIsNotNone DEF ShownInv, SelectionIsAsked
<1>5. ASSUME NEW a \in Amounts \cup {0}, handleTopupAmountChange(a)
      PROVE  PageKeepsItsRequest' /\ ShownInv'
    <2> DEFINE l == IF wallet.call # None /\ wallet.loading \in Methods THEN "none"
                    ELSE wallet.loading
    <2>1. l \notin Methods
        BY <1>2, <1>4
    <2>2. wallet.dialog = FALSE
        BY <1>1, <1>5 DEF handleTopupAmountChange, Usable, WalletRow
    <2>3. /\ wallet'.quote = 0 /\ wallet'.request = None /\ wallet'.dialog = wallet.dialog
          /\ wallet'.loading = l /\ (wallet'.call # None => wallet'.timer = None)
        <3>1. CASE a = 0
            <4>1. wallet' = LoadedWallet(wallet)
                BY <1>5, <3>1 DEF handleTopupAmountChange
            <4> QED BY <1>1, <4>1, LoadedFacts
        <3>2. CASE a # 0
            <4> DEFINE w == [wallet EXCEPT !.amount = a]
            <4>1. /\ w \in WalletRow /\ a \in Shown /\ w.dialog = wallet.dialog
                  /\ w.call = wallet.call /\ w.loading = wallet.loading
                BY <1>1 DEF WalletRow, Shown
            <4>2. wallet' = SchedulePaymentQuote(w, a, wallet.method)
                BY <1>5, <3>2 DEF handleTopupAmountChange
            <4> HIDE DEF w
            <4>3. /\ Asking(w, wallet', a, wallet.method)
                  /\ wallet'.loading = IF w.call # None /\ w.loading \in Methods THEN "none"
                                       ELSE w.loading
                BY <1>1, <4>1, <4>2, AskFacts
            <4> QED BY <4>1, <4>3 DEF Asking
        <3> QED BY <3>1, <3>2
    <2> HIDE DEF l
    <2> QED BY <2>1, <2>2, <2>3, PageForgets, NothingShown
<1>6. CASE QuoteTimerFires
    <2>1. wallet.timer # None /\ wallet.request = None /\ wallet.quote = 0
        BY <1>6 DEF QuoteTimerFires, PageKeepsItsRequest, Calculating
    <2>2. /\ wallet'.timer = None /\ wallet'.quote = wallet.quote
          /\ wallet'.request = wallet.request /\ wallet'.dialog = wallet.dialog
          /\ wallet'.loading = wallet.loading
        BY <1>1, <1>6 DEF QuoteTimerFires, WalletRow
    <2>3. wallet.loading \notin Methods /\ wallet.dialog = FALSE
        BY <1>1, <2>1 DEF ShownInv, SelectionIsAsked, DialogShowsQuote, Calculating, WalletRow
    <2> QED BY <2>1, <2>2, <2>3, PageForgets, NothingShown
<1>7. ASSUME NEW m \in Methods, handlePaymentMethodSelect(m)
      PROVE  PageKeepsItsRequest' /\ ShownInv'
    <2> DEFINE w == [wallet EXCEPT !.method = m]
               c == CalculatePaymentQuote(w, w.amount, m)
               ask == [amount |-> w.amount, route |-> m]
    <2>1. /\ w \in WalletRow /\ w.amount \in Shown /\ w.quote = wallet.quote
          /\ w.request = wallet.request /\ w.operation = wallet.operation
          /\ w.timer = wallet.timer /\ w.call = wallet.call /\ w.dialog = wallet.dialog
          /\ w.loading = wallet.loading /\ w.method = m
        BY <1>1 DEF WalletRow
    <2>2. wallet' = w \/ wallet' = [c EXCEPT !.loading = m]
        BY <1>7 DEF handlePaymentMethodSelect
    <2>3. wallet.dialog = FALSE /\ wallet.loading = "none"
        BY <1>1, <1>7 DEF handlePaymentMethodSelect, Usable, WalletRow
    <2>4. ask \in Call
        BY <2>1 DEF Call
    <2> HIDE DEF w
    <2>5. Asking(w, c, w.amount, m) /\ c.timer = None
        BY <2>1, AskFacts
    <2> HIDE DEF c
    <2>6. /\ c \in WalletRow /\ c.quote = 0 /\ c.request = None /\ c.amount = w.amount
          /\ c.method = m /\ c.dialog = FALSE /\ c.timer = None /\ {c.timer, c.call} = {None, ask}
        BY <2>1, <2>3, <2>5 DEF Asking
    <2> HIDE DEF ask
    <2>7. c.call = ask
        BY <2>4, <2>6, SomeIsNotNone
    <2>8. CASE wallet' = w
        <3>0. UNCHANGED <<orders, quotes, starts, sent>>
            BY <1>7 DEF handlePaymentMethodSelect, pageVars
        <3>1. Grown /\ NothingNew
            BY <1>1, <2>1, <2>8, <3>0, PagePairs
        <3> QED BY <1>2, <2>1, <2>3, <2>8, <3>1, PageStays, NothingShown
    <2>9. CASE wallet' = [c EXCEPT !.loading = m]
        <3>1. /\ wallet'.quote = 0 /\ wallet'.request = None /\ wallet'.timer = None
              /\ wallet'.call = ask /\ wallet'.dialog = FALSE
              /\ wallet'.amount = w.amount /\ wallet'.method = m
            BY <2>6, <2>7, <2>9 DEF WalletRow
        <3>2. PageKeepsItsRequest'
            BY <3>1, PageForgets
        <3>3. ShownInv'
            BY <3>1 DEF ShownInv, SelectionIsAsked, DialogShowsQuote, ask
        <3> QED BY <3>2, <3>3
    <2> QED BY <2>2, <2>8, <2>9
<1>8. CASE ApplyQuote
    <2> DEFINE k == Len(quotes) + 1
               d == wallet.dialog \/ wallet.loading \in Methods
               l == IF wallet.loading \in Methods THEN "none" ELSE wallet.loading
    <2>1. /\ wallet.call # None /\ wallet.request = None /\ wallet.timer = None
          /\ ~wallet.dialog
        BY <1>8 DEF ApplyQuote, PageKeepsItsRequest, Calculating, ShownInv, DialogShowsQuote
    <2>2. wallet.call.amount \in Shown /\ wallet.call.route \in Routes
        BY <1>1, <1>8 DEF ApplyQuote, WalletRow, Call, Routes
    <2>3. /\ Len(quotes') = k
          /\ quotes'[k] = NewQuote(wallet.call.amount, wallet.call.route)
        BY <1>8, <2>2, NewQuoteFacts DEF ApplyQuote
    <2>4. /\ k \in Nat /\ k # 0 /\ k \in Quotes' /\ k \notin Quotes
          /\ l \notin Methods
        BY <1>1, <1>2, <2>3 DEF Quotes
    <2>5. wallet' = [wallet EXCEPT !.quote = k, !.call = None, !.dialog = d, !.loading = l]
        BY <1>8 DEF ApplyQuote
    <2>6. d <=> wallet.loading \in Methods
        BY <2>1
    <2> HIDE DEF d, k, l
    <2>7. /\ wallet'.quote = k /\ wallet'.call = None /\ wallet'.dialog = d
          /\ wallet'.loading = l /\ wallet'.request = None /\ wallet'.timer = None
          /\ wallet'.amount = wallet.amount /\ wallet'.method = wallet.method
          /\ wallet'.operation = wallet.operation
        BY <1>1, <2>1, <2>5 DEF WalletRow
    <2>8. NothingNew
        <3>1. UNCHANGED <<orders, starts, sent>>
            BY <1>8 DEF ApplyQuote, pageVars
        <3> QED BY <1>3, <2>1, <2>7, <3>1, PagePairs DEF QuotesGrow
    <2>9. \A r : ~Kept(wallet.quote, r)'
        <3>1. \A q, r : q = k => ~Kept(q, r)
            BY <2>4 DEF KeptInPairs
        <3>2. \A q, r : q = k => ~Kept(q, r)'
            BY <2>8, <3>1 DEF NothingNew
        <3> QED BY <2>7, <3>2
    <2>10. PageKeepsItsRequest'
        BY <2>4, <2>7, <2>9 DEF PageKeepsItsRequest, Calculating
    <2>11. DialogShowsQuote'
        <3>1. CASE wallet.loading \in Methods
            <4>1. wallet.call = [amount |-> wallet.amount, route |-> wallet.method]
                BY <3>1 DEF ShownInv, SelectionIsAsked
            <4>2. quotes'[k].amount = wallet.amount /\ quotes'[k].route = wallet.method
                BY <2>3, <4>1 DEF NewQuote
            <4> QED BY <2>4, <2>7, <4>2 DEF DialogShowsQuote, Calculating
        <3>2. CASE wallet.loading \notin Methods
            BY <2>6, <2>7, <3>2 DEF DialogShowsQuote
        <3> QED BY <3>1, <3>2
    <2> QED BY <2>4, <2>7, <2>10, <2>11 DEF ShownInv, SelectionIsAsked
<1>9. CASE QuoteFails
    <2> DEFINE l == IF wallet.loading \in Methods THEN "none" ELSE wallet.loading
    <2>1. /\ wallet.request = None /\ wallet.quote = 0 /\ wallet.dialog = FALSE
        BY <1>1, <1>9 DEF QuoteFails, PageKeepsItsRequest, Calculating, ShownInv,
             DialogShowsQuote, WalletRow
    <2>2. l \notin Methods /\ wallet' = [wallet EXCEPT !.call = None, !.loading = l]
        BY <1>2, <1>9 DEF QuoteFails
    <2> HIDE DEF l
    <2>3. /\ wallet'.request = None /\ wallet'.quote = 0 /\ wallet'.dialog = FALSE
          /\ wallet'.call = None /\ wallet'.loading = l
        BY <1>1, <2>1, <2>2 DEF WalletRow
    <2> QED BY <2>2, <2>3, PageForgets, NothingShown
<1>10. CASE CloseDialog
    <2>1. /\ wallet'.quote = wallet.quote /\ wallet'.request = wallet.request
          /\ wallet'.timer = wallet.timer /\ wallet'.call = wallet.call
          /\ wallet'.amount = wallet.amount /\ wallet'.method = wallet.method
          /\ wallet'.dialog = FALSE /\ wallet'.loading = wallet.loading
          /\ wallet'.operation = wallet.operation
        BY <1>1, <1>10 DEF CloseDialog, WalletRow
    <2>2. UNCHANGED <<orders, quotes, starts, sent>>
        BY <1>10 DEF CloseDialog, pageVars
    <2>3. Grown /\ NothingNew
        BY <1>1, <2>1, <2>2, PagePairs
    <2> QED BY <1>3, <2>1, <2>3, PageStays, ShownStays
<1>11. CASE handlePaymentConfirm
    <2> DEFINE n == sent + 1
               ref == [quote |-> wallet.quote, request |-> RequestFor(wallet, wallet.quote)]
    <2>1. RequestFor(wallet, wallet.quote) \in Nat /\ wallet.quote \in Nat
        BY <1>1 DEF RequestFor, WalletRow, Ref
    <2>2. /\ ref \in Ref /\ ref.quote = wallet.quote /\ n \in Nat
          /\ wallet' = [wallet EXCEPT !.start = n, !.request = ref]
          /\ quotes' = quotes /\ ~Calculating /\ wallet.quote # 0
        BY <1>1, <1>11, <2>1 DEF handlePaymentConfirm, Ref
    <2> HIDE DEF n, ref
    <2>3. /\ wallet'.quote = wallet.quote /\ wallet'.request = ref
          /\ wallet'.timer = wallet.timer /\ wallet'.call = wallet.call
          /\ wallet'.amount = wallet.amount /\ wallet'.method = wallet.method
          /\ wallet'.dialog = wallet.dialog /\ wallet'.loading = wallet.loading
        BY <1>1, <2>2 DEF WalletRow
    <2>4. ref # None /\ Quotes' = Quotes
        BY <2>2, SomeIsNotNone DEF Quotes
    <2>5. PageKeepsItsRequest'
        BY <2>2, <2>3, <2>4 DEF PageKeepsItsRequest, Calculating
    <2> QED BY <1>3, <2>3, <2>5, ShownStays
<1>12. ASSUME NEW o \in Options, handlePaymentRouteOptionSelect(o) \/ NewOperation(o)
       PROVE  PageKeepsItsRequest' /\ ShownInv'
    <2>1. wallet.dialog = FALSE /\ o \notin Methods
        BY <1>1, <1>12, CheckoutAssumption DEF handlePaymentRouteOptionSelect, NewOperation,
             OptionReady, Usable, WalletRow
    <2>2. /\ wallet'.quote = wallet.quote /\ wallet'.request = wallet.request
          /\ wallet'.timer = wallet.timer /\ wallet'.call = wallet.call
          /\ wallet'.dialog = wallet.dialog /\ wallet'.loading = o
        BY <1>1, <1>12 DEF handlePaymentRouteOptionSelect, NewOperation, WalletRow
    <2>3. Grown /\ (NothingNew \/ OnePairMore(Len(quotes) + 1))
        BY <1>12, ResumedPairs, NewOperationPairs
    <2> QED BY <2>1, <2>2, <2>3, PageStays, NothingShown
<1> QED BY <1>5, <1>6, <1>7, <1>8, <1>9, <1>10, <1>11, <1>12 DEF WalletStep

\* So it does while starts end and the server moves on.
LEMMA StartPage ==
    ASSUME TypeInv, KeptInPairs, KeptInPairs', PageKeepsItsRequest, ShownInv, QuotesGrow,
           StartStep
    PROVE  PageKeepsItsRequest' /\ ShownInv'
<1>1. PICK s \in starts : StartPayment(s) \/ OrderOpens(s) \/ StartRefused(s) \/ StartLost(s)
    BY DEF StartStep
<1>2. s \in StartRow /\ wallet \in WalletRow /\ "none" \notin Methods
    BY CheckoutAssumption DEF TypeInv
<1>3. Grown /\ NothingNew
    BY StartPairs
<1>4. CASE wallet' = FreshWallet
    BY <1>2, <1>4, FreshFacts, PageForgets, NothingShown
<1>5. CASE wallet' = wallet
    BY <1>3, <1>5, PageStays, ShownStays
<1>6. CASE wallet' = StartEnds(wallet, s)
    BY <1>2, <1>3, <1>6, EndFacts, PageStays, ShownStays
<1> QED BY <1>1, <1>4, <1>5, <1>6 DEF StartPayment, OrderOpens, StartRefused, StartLost

-----------------------------------------------------------------------------
(* The theorems                                                            *)

CheckoutInv ==
    TypeInv /\ KeptInPairs /\ OrdersMatchQuotes /\ PageKeepsItsRequest /\ ShownInv

\* The initial state satisfies the invariants.
LEMMA InitCheckoutInv == CheckoutInit => CheckoutInv
<1> SUFFICES ASSUME CheckoutInit PROVE CheckoutInv
    OBVIOUS
<1>1. TypeInv
    BY InitTypeInv
<1>2. /\ Len(orders) = 0 /\ Len(quotes) = 0 /\ starts = {} /\ wallet = FreshWallet
    BY DEF CheckoutInit
<1>3. Orders = {} /\ Quotes = {}
    BY <1>2 DEF Orders, Quotes
<1>4. \A q, r : ~Kept(q, r)
    BY <1>2, <1>3, FreshFacts DEF Kept
<1>5. KeptInPairs
    BY <1>4 DEF KeptInPairs
<1>6. OrdersMatchQuotes
    BY <1>3 DEF OrdersMatchQuotes
<1>7. PageKeepsItsRequest
    BY <1>2, <1>4, FreshFacts DEF PageKeepsItsRequest
<1>8. ShownInv
    BY <1>2, FreshFacts, CheckoutAssumption DEF ShownInv, SelectionIsAsked, DialogShowsQuote
<1> QED BY <1>1, <1>5, <1>6, <1>7, <1>8 DEF CheckoutInv

\* Every step keeps the invariants.
LEMMA StepCheckoutInv == CheckoutInv /\ [CheckoutNext]_vars => CheckoutInv'
<1> SUFFICES ASSUME CheckoutInv, [CheckoutNext]_vars PROVE CheckoutInv'
    OBVIOUS
<1> USE DEF CheckoutInv
<1>1. TypeInv'
    BY StepTypeInv
<1>2. CASE UNCHANGED vars
    <2>1. UNCHANGED <<orders, quotes, starts, sent, wallet>>
        BY <1>2 DEF vars, pageVars
    <2>2. \A q, r : Kept(q, r)' <=> Kept(q, r)
        BY <2>1 DEF Kept, Orders
    <2>3. KeptInPairs'
        BY <2>1, <2>2 DEF KeptInPairs, Quotes
    <2>4. OrdersMatchQuotes'
        BY <2>1 DEF OrdersMatchQuotes, Orders, Quotes
    <2>5. PageKeepsItsRequest'
        BY <2>1, <2>2 DEF PageKeepsItsRequest, Quotes, Calculating
    <2>6. ShownInv'
        BY <2>1 DEF ShownInv, SelectionIsAsked, DialogShowsQuote, Quotes, Calculating
    <2> QED BY <1>1, <2>3, <2>4, <2>5, <2>6
<1>3. CASE CheckoutNext
    <2>1. PairStep
        BY <1>3, PairSteps
    <2>2. KeptInPairs'
        BY <2>1, PairsStay
    <2>3. QuotesGrow /\ OrdersMatchQuotes'
        BY <1>3, StepMatches
    <2>4. PageKeepsItsRequest' /\ ShownInv'
        <3>1. CASE WalletStep
            BY <2>2, <3>1, WalletPage
        <3>2. CASE StartStep
            BY <2>2, <2>3, <3>2, StartPage
        <3>3. CASE ReturnToWallet
            <4>1. wallet' = FreshWallet /\ "none" \notin Methods
                BY <3>3, CheckoutAssumption DEF ReturnToWallet
            <4> QED BY <2>2, <4>1, FreshFacts, PageForgets, NothingShown
        <3>4. CASE UNCHANGED <<starts, sent, wallet>> /\ OrdersStay
                     /\ (\A p \in Orders : orders'[p].request = orders[p].request)
            <4>1. NothingNew
                BY <3>4, OrdersKept, NothingNewFrom DEF OrdersStay
            <4>2. Grown
                BY <2>1 DEF PairStep
            <4> QED BY <2>3, <3>4, <4>1, <4>2, PageStays, ShownStays
        <3>5. ASSUME NEW q \in Quotes, QuoteExpires(q)
              PROVE  UNCHANGED <<starts, sent, wallet>> /\ OrdersStay
                       /\ (\A p \in Orders : orders'[p].request = orders[p].request)
            BY <3>5 DEF QuoteExpires, pageVars, OrdersStay
        <3>6. ASSUME (OrderStep \/ PageStep) /\ UNCHANGED <<quotes, starts, sent, wallet>>
              PROVE  UNCHANGED <<starts, sent, wallet>> /\ OrdersStay
                       /\ (\A p \in Orders : orders'[p].request = orders[p].request)
            BY <3>6, OrderStepFacts, StatusFacts, PageStepFacts DEF OrdersStay
        <3> QED BY <1>3, <3>1, <3>2, <3>3, <3>4, <3>5, <3>6 DEF CheckoutNext
    <2> QED BY <1>1, <2>2, <2>3, <2>4
<1> QED BY <1>2, <1>3

\* The invariants hold of every reachable state.
LEMMA CheckoutInvariance == CheckoutSpec => []CheckoutInv
BY InitCheckoutInv, StepCheckoutInv, PTL DEF CheckoutSpec

\* One confirmation makes one order, however often its start is lost, repeated
\* or overtaken by its retry (startPayment and createPaymentOrderFromQuote).
THEOREM OneOrder == CheckoutSpec => []OneOrderPerConfirmation
<1>1. CheckoutInv => OneOrderPerConfirmation
    <2> SUFFICES ASSUME CheckoutInv PROVE OneOrderPerConfirmation
        OBVIOUS
    <2> USE DEF CheckoutInv
    <2>1. \A o \in Orders : Kept(orders[o].quote, orders[o].request)
        BY DEF Kept
    <2>2. ASSUME NEW o \in Orders, NEW p \in Orders, o # p
          PROVE  orders[o].quote # orders[p].quote /\ orders[o].request # orders[p].request
        <3>1. orders[o].quote # orders[p].quote
            BY <2>2 DEF OrdersMatchQuotes
        <3> QED BY <2>1, <3>1 DEF KeptInPairs
    <2>3. ASSUME NEW s \in starts, quotes[s.quote].order # 0
          PROVE  orders[quotes[s.quote].order].request = s.request
        <3> DEFINE o == quotes[s.quote].order
        <3>1. Kept(s.quote, s.request)
            BY DEF Kept
        <3>2. s.quote \in Quotes
            BY <3>1 DEF KeptInPairs
        <3>3. o \in Orders /\ orders[o].quote = s.quote
            BY <2>3, <3>2 DEF OrdersMatchQuotes
        <3> HIDE DEF o
        <3>4. Kept(s.quote, orders[o].request)
            BY <2>1, <3>3
        <3>5. orders[o].request = s.request
            BY <3>1, <3>4 DEF KeptInPairs
        <3> QED BY <3>5 DEF o
    <2> QED BY <2>2, <2>3 DEF OneOrderPerConfirmation
<1> QED BY <1>1, CheckoutInvariance, PTL

\* What is confirmed is the quote of the amount and the method on the page
\* (handlePaymentConfirm).
THEOREM ConfirmsWhatItShows == CheckoutSpec => ConfirmedAsShown
<1>1. CheckoutInv /\ [CheckoutNext]_vars
        => [handlePaymentConfirm => /\ quotes[wallet.quote].amount = wallet.amount
                                    /\ quotes[wallet.quote].route = wallet.method]_vars
    BY DEF CheckoutInv, ShownInv, DialogShowsQuote, handlePaymentConfirm
<1> QED BY <1>1, CheckoutInvariance, PTL DEF CheckoutSpec, ConfirmedAsShown

-----------------------------------------------------------------------------
(* Part II: the playground.  Messages and conversations                    *)

\* What the conversation shown and the kept ones have in common: only the last
\* message, an answer, is pending, and every key was given by a request so far.
LastOnly(ms) ==
    \A i \in DOMAIN ms : isAssistantMessagePending(ms[i]) => i = Len(ms) /\ IsAssistant(ms[i])
KeysKnown(ms, n) == \A i \in DOMAIN ms : ms[i].key[2] <= n
NonePending(ms) == \A i \in DOMAIN ms : ~isAssistantMessagePending(ms[i])
Conversation(ms, n) == ms \in Seq(MessageType) /\ LastOnly(ms) /\ KeysKnown(ms, n)

\* The texts that a request can have delivered.
Texts == {s \in Seq(Nat \X Nat) : Len(s) <= MaxChunks}

\* Fields of a message.
LEMMA MessageFields ==
    ASSUME NEW m \in MessageType
    PROVE  /\ m.key \in Keys /\ m.key[1] \in {"user", "assistant"} /\ m.key[2] \in 0 .. MaxSends
           /\ m.key = <<m.key[1], m.key[2]>>
           /\ m.status \in {"loading", "streaming", "complete", "error"}
           /\ m.text \in Seq(Nat \X Nat)
BY DEF MessageType, Keys

\* A message with another status and text.
LEMMA Rewritten ==
    ASSUME NEW m \in MessageType,
           NEW status \in {"loading", "streaming", "complete", "error"},
           NEW text \in Seq(Nat \X Nat)
    PROVE  LET r == [m EXCEPT !.status = status, !.text = text]
           IN /\ r \in MessageType /\ r.key = m.key /\ r.status = status /\ r.text = text
              /\ r = [m EXCEPT !.text = text, !.status = status]
BY DEF MessageType

\* The texts of the page.
LEMMA PageTexts ==
    ErrorText \in Seq(Nat \X Nat) /\ OtherText \in Seq(Nat \X Nat) /\ <<>> \in Seq(Nat \X Nat)
BY DEF ErrorText, OtherText

\* Replacing one message.
LEMMA Replaced ==
    ASSUME NEW S, NEW ms \in Seq(S), NEW i \in DOMAIN ms, NEW u \in S
    PROVE  LET r == [ms EXCEPT ![i] = u]
           IN /\ r \in Seq(S) /\ Len(r) = Len(ms) /\ DOMAIN r = DOMAIN ms
              /\ r[i] = u /\ \A j \in DOMAIN ms : j # i => r[j] = ms[j]
OBVIOUS

\* The last message of a conversation.
LEMMA LastOf ==
    ASSUME NEW S, NEW ms \in Seq(S), ms # <<>>
    PROVE  /\ Len(ms) \in DOMAIN ms /\ Last(ms) = ms[Len(ms)] /\ Last(ms) \in S
           /\ Len(ms) \in Nat \ {0} /\ DOMAIN ms = 1 .. Len(ms)
BY DEF Last

HasAnswer(ms) == ms # <<>> /\ IsAssistant(Last(ms))

\* updateLastAssistantMessage writes the last message if it is an answer.
LEMMA LastUpdated ==
    ASSUME NEW ms \in Seq(MessageType), NEW u, HasAnswer(ms) => u \in MessageType
    PROVE  LET r == updateLastAssistantMessage(ms, u)
           IN /\ r \in Seq(MessageType) /\ Len(r) = Len(ms) /\ DOMAIN r = DOMAIN ms
              /\ HasAnswer(ms) => /\ r # <<>> /\ r[Len(ms)] = u /\ Last(r) = u
                                  /\ \A j \in DOMAIN ms : j # Len(ms) => r[j] = ms[j]
              /\ ~HasAnswer(ms) => r = ms
<1> DEFINE r == updateLastAssistantMessage(ms, u)
<1>1. CASE HasAnswer(ms)
    <2>1. r = [ms EXCEPT ![Len(ms)] = u]
        BY <1>1 DEF updateLastAssistantMessage, HasAnswer
    <2>2. Len(ms) \in DOMAIN ms /\ u \in MessageType
        BY <1>1, LastOf DEF HasAnswer
    <2> HIDE DEF r
    <2>3. /\ r \in Seq(MessageType) /\ Len(r) = Len(ms) /\ DOMAIN r = DOMAIN ms
          /\ r[Len(ms)] = u /\ \A j \in DOMAIN ms : j # Len(ms) => r[j] = ms[j]
        BY <2>1, <2>2, Replaced
    <2>4. r # <<>> /\ Last(r) = u
        BY <2>2, <2>3 DEF Last
    <2> QED BY <1>1, <2>3, <2>4 DEF r
<1>2. CASE ~HasAnswer(ms)
    <2>1. r = ms
        BY <1>2 DEF updateLastAssistantMessage, HasAnswer
    <2> QED BY <1>2, <2>1
<1> QED BY <1>1, <1>2

\* A message more, a part of the conversation, a message less.
LEMMA Appended ==
    ASSUME NEW S, NEW ms \in Seq(S), NEW u \in S
    PROVE  LET r == Append(ms, u)
           IN /\ r \in Seq(S) /\ Len(r) = Len(ms) + 1 /\ r # <<>> /\ r[Len(r)] = u
              /\ Last(r) = u /\ DOMAIN r = 1 .. Len(ms) + 1
              /\ \A j \in DOMAIN ms : j \in DOMAIN r /\ r[j] = ms[j] /\ j # Len(r)
              /\ \A j \in DOMAIN r : j # Len(r) => j \in DOMAIN ms
<1> DEFINE r == Append(ms, u)
<1>1. /\ r \in Seq(S) /\ Len(r) = Len(ms) + 1 /\ Len(ms) \in Nat
      /\ DOMAIN ms = 1 .. Len(ms) /\ DOMAIN r = 1 .. Len(r)
    OBVIOUS
<1>2. r[Len(ms) + 1] = u /\ \A j \in 1 .. Len(ms) : r[j] = ms[j]
    OBVIOUS
<1> HIDE DEF r
<1>3. r # <<>> /\ r[Len(r)] = u /\ Last(r) = u
    BY <1>1, <1>2 DEF Last
<1>4. /\ \A j \in DOMAIN ms : j \in DOMAIN r /\ r[j] = ms[j] /\ j # Len(r)
      /\ \A j \in DOMAIN r : j # Len(r) => j \in DOMAIN ms
    BY <1>1, <1>2
<1> QED BY <1>1, <1>3, <1>4 DEF r

\* The beginning of a conversation (createRegeneratedMessages, applyMessageEdit).
LEMMA Cut ==
    ASSUME NEW S, NEW ms \in Seq(S), NEW k \in 0 .. Len(ms)
    PROVE  LET r == SubSeq(ms, 1, k)
           IN /\ r \in Seq(S) /\ Len(r) = k /\ DOMAIN r = 1 .. k
              /\ \A j \in DOMAIN r : j \in DOMAIN ms /\ r[j] = ms[j]
OBVIOUS

\* A conversation without one of its messages (removeMessageByKey).
LEMMA Removed ==
    ASSUME NEW S, NEW ms \in Seq(S), NEW i \in DOMAIN ms
    PROVE  LET r == RemoveAt(ms, i)
           IN /\ r \in Seq(S)
              /\ \A j \in DOMAIN r : \E k \in DOMAIN ms : r[j] = ms[k]
<1> DEFINE a == SubSeq(ms, 1, i - 1)
           b == SubSeq(ms, i + 1, Len(ms))
<1>0. i \in 1 .. Len(ms) /\ Len(ms) \in Nat
    OBVIOUS
<1>1. /\ a \in Seq(S) /\ Len(a) = i - 1
      /\ \A j \in 1 .. Len(a) : a[j] = ms[j]
    BY <1>0
<1>2. /\ b \in Seq(S) /\ Len(b) = Len(ms) - i
      /\ \A j \in 1 .. Len(b) : b[j] = ms[j + i]
    BY <1>0
<1>3. RemoveAt(ms, i) = a \o b
    BY DEF RemoveAt
<1> HIDE DEF a, b
<1>4. /\ a \o b \in Seq(S) /\ Len(a \o b) = Len(a) + Len(b)
      /\ \A j \in 1 .. Len(a) + Len(b) : (a \o b)[j] = IF j <= Len(a) THEN a[j] ELSE b[j - Len(a)]
    BY <1>1, <1>2
<1>5. ASSUME NEW j \in DOMAIN (a \o b) PROVE \E k \in DOMAIN ms : (a \o b)[j] = ms[k]
    <2>1. j \in 1 .. Len(a) + Len(b) /\ DOMAIN ms = 1 .. Len(ms)
        BY <1>4
    <2>2. CASE j <= Len(a)
        BY <1>0, <1>1, <1>4, <2>1, <2>2
    <2>3. CASE ~(j <= Len(a))
        <3>1. j - Len(a) \in 1 .. Len(b) /\ j - Len(a) + i \in 1 .. Len(ms)
            BY <1>0, <1>1, <1>2, <2>1, <2>3
        <3> QED BY <1>2, <1>4, <2>1, <2>3, <3>1
    <2> QED BY <2>2, <2>3
<1> QED BY <1>3, <1>4, <1>5

-----------------------------------------------------------------------------
(* Conversations that are written, asked, trimmed and loaded               *)

\* A request that reports writes the last message, if that is an answer: the
\* conversation stays one, and if what it writes is final, nothing is pending.
LEMMA AnswerWritten ==
    ASSUME NEW n \in Nat, NEW ms, Conversation(ms, n), NEW u,
           HasAnswer(ms) => u \in MessageType /\ u.key = Last(ms).key
    PROVE  LET r == updateLastAssistantMessage(ms, u)
           IN /\ Conversation(r, n)
              /\ (HasAnswer(ms) => ~isAssistantMessagePending(u)) => NonePending(r)
<1> DEFINE r == updateLastAssistantMessage(ms, u)
<1>1. /\ r \in Seq(MessageType) /\ Len(r) = Len(ms) /\ DOMAIN r = DOMAIN ms
      /\ HasAnswer(ms) => /\ r # <<>> /\ r[Len(ms)] = u /\ Last(r) = u
                          /\ \A j \in DOMAIN ms : j # Len(ms) => r[j] = ms[j]
      /\ ~HasAnswer(ms) => r = ms
    BY LastUpdated DEF Conversation
<1>2. CASE ~HasAnswer(ms)
    <2>1. ASSUME NEW i \in DOMAIN ms, isAssistantMessagePending(ms[i]) PROVE FALSE
        <3>1. i = Len(ms) /\ IsAssistant(ms[i]) /\ ms # <<>>
            BY <2>1 DEF Conversation, LastOnly
        <3> QED BY <1>2, <3>1 DEF HasAnswer, Last
    <2> QED BY <1>1, <1>2, <2>1 DEF NonePending
<1>3. CASE HasAnswer(ms)
    <2>1. Len(ms) \in DOMAIN ms /\ Last(ms) = ms[Len(ms)] /\ IsAssistant(ms[Len(ms)])
        BY <1>3, LastOf DEF HasAnswer, Conversation
    <2>2. \A i \in DOMAIN r : r[i].key = ms[i].key
        BY <1>1, <1>3, <2>1
    <2> HIDE DEF r
    <2>3. LastOnly(r)
        BY <1>1, <1>3, <2>1, <2>2 DEF Conversation, LastOnly, IsAssistant
    <2>4. KeysKnown(r, n)
        BY <1>1, <2>2 DEF Conversation, KeysKnown
    <2>5. ASSUME ~isAssistantMessagePending(u) PROVE NonePending(r)
        BY <1>1, <1>3, <2>5 DEF Conversation, LastOnly, NonePending
    <2> QED BY <1>1, <1>3, <2>3, <2>4, <2>5 DEF Conversation, r
<1> QED BY <1>2, <1>3

\* A request adds a loading answer to messages of which none is pending.
LEMMA AnswerAsked ==
    ASSUME NEW n \in Nat, n < MaxSends, NEW b \in Seq(MessageType), NonePending(b), KeysKnown(b, n + 1)
    PROVE  LET r == Append(b, createLoadingAssistantMessage(n + 1))
           IN /\ Conversation(r, n + 1) /\ HasAnswer(r)
              /\ Last(r) = createLoadingAssistantMessage(n + 1)
              /\ \A i \in DOMAIN r : i # Len(r) => i \in DOMAIN b /\ r[i] = b[i]
<1> DEFINE u == createLoadingAssistantMessage(n + 1)
           r == Append(b, u)
<1>1. /\ u \in MessageType /\ IsAssistant(u) /\ u.key[2] = n + 1
    BY PlaygroundAssumption, PageTexts
    DEF createLoadingAssistantMessage, MessageType, Keys, IsAssistant
<1> HIDE DEF u
<1>2. /\ r \in Seq(MessageType) /\ Len(r) = Len(b) + 1 /\ r # <<>> /\ r[Len(r)] = u
      /\ Last(r) = u
      /\ \A j \in DOMAIN b : j \in DOMAIN r /\ r[j] = b[j] /\ j # Len(r)
      /\ \A j \in DOMAIN r : j # Len(r) => j \in DOMAIN b
    BY <1>1, Appended
<1> HIDE DEF r
<1>3. LastOnly(r)
    BY <1>1, <1>2 DEF LastOnly, NonePending
<1>4. KeysKnown(r, n + 1)
    <2>1. ASSUME NEW j \in DOMAIN b PROVE b[j].key[2] <= n + 1
        BY <2>1 DEF KeysKnown
    <2> QED BY <1>1, <1>2, <2>1 DEF KeysKnown
<1> QED BY <1>1, <1>2, <1>3, <1>4 DEF Conversation, HasAnswer, r, u

\* What is cut off the front of a conversation leaves one.
LEMMA TailKept ==
    ASSUME NEW n \in Nat, NEW ms, Conversation(ms, n), NEW size \in Nat \ {0}
    PROVE  LET r == KeepLast(ms, size)
           IN /\ Conversation(r, n) /\ Len(r) <= size
              /\ NonePending(ms) => NonePending(r)
              /\ \A i \in DOMAIN r : \E j \in DOMAIN ms : r[i] = ms[j]
              /\ Len(ms) <= size => r = ms
<1> DEFINE k == Len(ms) - size
           r == SubSeq(ms, k + 1, Len(ms))
<1>0. ms \in Seq(MessageType) /\ Len(ms) \in Nat /\ DOMAIN ms = 1 .. Len(ms)
    BY DEF Conversation
<1>1. CASE Len(ms) <= size
    <2>1. KeepLast(ms, size) = ms
        BY <1>1 DEF KeepLast
    <2> QED BY <1>1, <2>1
<1>2. CASE ~(Len(ms) <= size)
    <2>1. KeepLast(ms, size) = r
        BY <1>0, <1>2 DEF KeepLast
    <2>2. k \in Nat /\ k + 1 \in 1 .. Len(ms) /\ Len(ms) = k + size
        BY <1>0, <1>2
    <2> HIDE DEF k
    <2>3. r \in Seq(MessageType) /\ Len(r) = size /\ \A i \in 1 .. size : r[i] = ms[i + k]
        BY <1>0, <2>2
    <2>4. DOMAIN r = 1 .. size /\ \A i \in 1 .. size : i + k \in DOMAIN ms
        BY <1>0, <2>2, <2>3
    <2> HIDE DEF r
    <2>5. LastOnly(r)
        BY <1>0, <2>2, <2>3, <2>4 DEF Conversation, LastOnly
    <2>6. KeysKnown(r, n) /\ (NonePending(ms) => NonePending(r))
        BY <2>3, <2>4 DEF Conversation, KeysKnown, NonePending
    <2> QED BY <1>0, <1>2, <2>1, <2>3, <2>4, <2>5, <2>6 DEF Conversation
<1> QED BY <1>1, <1>2

\* trimMessages makes it fit the store.
LEMMA Trimmed ==
    ASSUME NEW n \in Nat, NEW ms, Conversation(ms, n)
    PROVE  LET r == trimMessages(ms)
           IN /\ Conversation(r, n) /\ Len(r) <= MaxStored
              /\ Len(ms) <= MaxStored => r = ms
BY TailKept, PlaygroundAssumption DEF trimMessages

\* What is read from localStorage: nothing is pending, and an answer has the
\* text it had when it was read, or none.
LEMMA Loaded ==
    ASSUME NEW n \in Nat, Conversation(stored, n), NEW size \in 1 .. MaxStored
    PROVE  /\ Conversation(loadMessages(size), n) /\ NonePending(loadMessages(size))
           /\ Len(loadMessages(size)) <= MaxStored
           /\ \A i \in DOMAIN loadMessages(size) :
                loadMessages(size)[i].status = "complete" => loadMessages(size)[i].text \in {OtherText, <<>>}
<1> DEFINE f == [i \in DOMAIN stored |-> normalizeStoredMessageForLoad(stored[i])]
           t == KeepLast(f, size)
           Read(m) == m.status = "complete" => m.text \in {OtherText, <<>>}
<1>1. ASSUME NEW m \in MessageType
      PROVE  LET u == normalizeStoredMessageForLoad(m)
             IN  /\ u \in MessageType /\ u.key = m.key /\ Read(u)
                 /\ isAssistantMessagePending(u) => isAssistantMessagePending(m)
    <2> DEFINE u == normalizeStoredMessageForLoad(m)
               st == IF isAssistantMessagePending(m) THEN "complete" ELSE m.status
    <2>1. CASE m.text = <<>>
        BY <2>1 DEF normalizeStoredMessageForLoad
    <2>2. CASE m.text # <<>>
        <3>1. u = [m EXCEPT !.text = OtherText, !.status = st]
            BY <2>2 DEF normalizeStoredMessageForLoad
        <3>2. st \in {"loading", "streaming", "complete", "error"} /\ ~(st \in {"loading", "streaming"})
            BY MessageFields DEF isAssistantMessagePending
        <3> HIDE DEF st, u
        <3>3. u \in MessageType /\ u.key = m.key /\ u.status = st /\ u.text = OtherText
            BY <3>1, <3>2, PageTexts DEF MessageType
        <3> QED BY <3>2, <3>3 DEF isAssistantMessagePending, u
    <2> QED BY <2>1, <2>2
<1>2. stored \in Seq(MessageType) /\ Len(stored) \in Nat /\ DOMAIN stored = 1 .. Len(stored)
    BY DEF Conversation
<1>3. /\ f \in Seq(MessageType) /\ Len(f) = Len(stored) /\ DOMAIN f = DOMAIN stored
      /\ \A i \in DOMAIN stored : f[i] = normalizeStoredMessageForLoad(stored[i])
    <2>1. \A i \in DOMAIN stored : stored[i] \in MessageType
        BY <1>2
    <2>2. f \in [1 .. Len(stored) -> MessageType]
        BY <1>1, <1>2, <2>1
    <2> QED BY <1>2, <2>2
<1>4. Conversation(f, n) /\ \A i \in DOMAIN f : Read(f[i])
    <2>1. \A i \in DOMAIN f : /\ f[i].key = stored[i].key /\ Read(f[i])
                              /\ isAssistantMessagePending(f[i]) => isAssistantMessagePending(stored[i])
        BY <1>1, <1>2, <1>3
    <2> HIDE DEF f
    <2> QED BY <1>3, <2>1 DEF Conversation, LastOnly, KeysKnown, IsAssistant
<1> HIDE DEF f
<1>5. Conversation(t, n) /\ Len(t) <= MaxStored /\ \A i \in DOMAIN t : Read(t[i])
    <2>1. size \in Nat \ {0} /\ size <= MaxStored /\ MaxStored \in Nat
        BY PlaygroundAssumption
    <2>2. /\ Conversation(t, n) /\ Len(t) <= size
          /\ \A i \in DOMAIN t : \E j \in DOMAIN f : t[i] = f[j]
        BY <1>4, <2>1, TailKept
    <2> HIDE DEF t
    <2>3. Len(t) <= MaxStored
        <3>1. Len(t) \in Nat
            BY <2>2 DEF Conversation
        <3> QED BY <2>1, <2>2, <3>1
    <2> QED BY <1>4, <2>2, <2>3
<1> DEFINE pendings == {i \in DOMAIN t : isAssistantMessagePending(t[i])}
           last == CHOOSE i \in pendings : \A j \in pendings : j <= i
           u == [t[last] EXCEPT !.status = "error", !.text = ErrorText]
<1>6. loadMessages(size) = sanitizeMessagesOnLoad(t)
    BY DEF loadMessages, f
<1> HIDE DEF t
<1>7. CASE pendings = {}
    <2>1. loadMessages(size) = t
        BY <1>6, <1>7 DEF sanitizeMessagesOnLoad
    <2>2. NonePending(t)
        BY <1>7 DEF NonePending
    <2> QED BY <1>5, <2>1, <2>2
<1>8. CASE pendings # {}
    <2>1. loadMessages(size) = [t EXCEPT ![last] = u]
        BY <1>6, <1>8 DEF sanitizeMessagesOnLoad
    <2>2. pendings \subseteq {Len(t)} /\ t \in Seq(MessageType) /\ Len(t) \in Nat
        BY <1>5 DEF Conversation, LastOnly
    <2>3. Len(t) \in pendings /\ pendings = {Len(t)}
        BY <1>8, <2>2
    <2>4. last = Len(t)
        BY <2>2, <2>3
    <2> HIDE DEF last
    <2>5. last \in DOMAIN t /\ t[last] \in MessageType
        BY <2>2, <2>3, <2>4
    <2>6. u \in MessageType /\ u.status = "error" /\ u.key = t[last].key
        BY <2>5, Rewritten, PageTexts
    <2> HIDE DEF u
    <2>7. /\ loadMessages(size) \in Seq(MessageType) /\ Len(loadMessages(size)) = Len(t)
          /\ DOMAIN loadMessages(size) = DOMAIN t
          /\ loadMessages(size)[last] = u /\ \A j \in DOMAIN t : j # last => loadMessages(size)[j] = t[j]
        BY <2>1, <2>2, <2>5, <2>6, Replaced
    <2>8. NonePending(loadMessages(size))
        BY <2>3, <2>4, <2>6, <2>7 DEF NonePending, isAssistantMessagePending
    <2>9. KeysKnown(loadMessages(size), n)
        BY <1>5, <2>6, <2>7 DEF KeysKnown, Conversation
    <2> QED BY <1>5, <2>6, <2>7, <2>8, <2>9 DEF Conversation, LastOnly, NonePending
<1> QED BY <1>7, <1>8

-----------------------------------------------------------------------------
(* The invariant of the page                                               *)

NetType ==
    [isStreaming : BOOLEAN, isRequesting : BOOLEAN, source : 0 .. MaxSends,
     hung : BOOLEAN, inflight : SUBSET (1 .. MaxSends), aborted : SUBSET (1 .. MaxSends),
     abort : 0 .. MaxSends, current : 0 .. MaxSends]

\* The state has its type.
PlayTypes ==
    /\ config \in [stream : BOOLEAN, snapshots : BOOLEAN]
    /\ page \in [open : BOOLEAN, opens : 0 .. MaxOpens]
    /\ messages \in Seq(MessageType) /\ stored \in Seq(MessageType) /\ Len(stored) <= MaxStored
    /\ detached \subseteq Seq(MessageType)
    /\ editing \in Keys \cup {NoKey}
    /\ net \in NetType
    /\ buffer \in [pending : Seq(Nat \X Nat), timer : BOOLEAN]
    /\ buffer.timer = (buffer.pending # <<>>)
    /\ saving \in BOOLEAN /\ overlapped \in BOOLEAN /\ unkept \in BOOLEAN
    /\ swallowed \subseteq 0 .. MaxSends
    /\ sends \in 0 .. MaxSends
    /\ delivered \in [0 .. MaxSends -> Texts]

\* The flags of the page and the requests that are under way.  A plain request
\* that the flag isRequesting waits for is not aborted.
NetFits(x, c, n) ==
    /\ x.source # 0 => x.isStreaming
    /\ IF c.stream THEN x.inflight = {} ELSE ~x.isStreaming /\ x.source = 0
    /\ ~c.stream /\ x.isRequesting => x.current \notin x.aborted
    /\ x.inflight \subseteq 1 .. n /\ x.aborted \subseteq x.inflight
    /\ x.abort # 0 => x.abort = x.current /\ x.abort \in x.inflight
NetInv ==
    /\ ~Mounted => /\ messages = <<>> /\ net = NoNet /\ buffer = EmptyBuffer
                   /\ delivered = NothingDelivered
    /\ buffer.pending # <<>> => net.isStreaming
    /\ NetFits(net, config, sends)

\* Wherever a conversation is kept, only its last message may be pending; on the
\* page, only while it is generating.
PendingInv ==
    /\ Conversation(messages, sends) /\ Conversation(stored, sends)
    /\ \A ms \in detached : Conversation(ms, sends)
    /\ ~isGenerating => NonePending(messages)
    /\ editing[2] <= sends

PlayInv == PlayTypes /\ NetInv /\ PendingInv

\* Nothing is lost when a request is sent in between.
LEMMA Longer ==
    ASSUME NEW n \in Nat, NEW ms, Conversation(ms, n)
    PROVE  Conversation(ms, n + 1)
<1>1. ASSUME NEW i \in DOMAIN ms PROVE ms[i].key[2] \in Nat /\ ms[i].key[2] <= n
    <2>1. ms[i] \in MessageType
        BY DEF Conversation
    <2> QED BY <2>1, MessageFields DEF Conversation, KeysKnown
<1> QED BY <1>1 DEF Conversation, KeysKnown

\* An answer with the chunks of the buffer.
LEMMA ChunkApplied ==
    ASSUME NEW m \in MessageType, NEW chunk \in Seq(Nat \X Nat)
    PROVE  LET u == applyStreamingChunk(m, chunk)
           IN /\ u \in MessageType /\ u.key = m.key
              /\ u.status = IF m.status = "error" THEN "error" ELSE "streaming"
              /\ m.status # "error" => u.text = m.text \o getAppendableChunk(m.text, chunk)
<1> DEFINE u == applyStreamingChunk(m, chunk)
           a == getAppendableChunk(m.text, chunk)
           text == m.text \o a
<1>1. m.text \in Seq(Nat \X Nat)
    BY MessageFields
<1>2. a \in Seq(Nat \X Nat)
    <2>1. CASE Repeats(m.text, chunk)
        <3>1. a = SubSeq(chunk, Len(m.text) + 1, Len(chunk))
            BY <2>1 DEF getAppendableChunk
        <3>2. Len(m.text) \in Nat /\ Len(chunk) \in Nat
            BY <1>1
        <3> HIDE DEF a
        <3> QED BY <3>1, <3>2
    <2>2. CASE ~Repeats(m.text, chunk)
        BY <2>2 DEF getAppendableChunk
    <2> QED BY <2>1, <2>2
<1>3. CASE m.status = "error"
    BY <1>3 DEF applyStreamingChunk
<1>4. CASE m.status # "error"
    <2>1. u = [m EXCEPT !.text = text, !.status = "streaming"]
        BY <1>4 DEF applyStreamingChunk
    <2>2. text \in Seq(Nat \X Nat)
        BY <1>1, <1>2
    <2> HIDE DEF text, a
    <2>3. u \in MessageType /\ u.key = m.key /\ u.status = "streaming" /\ u.text = text
        BY <2>1, <2>2 DEF MessageType
    <2> QED BY <1>4, <2>3 DEF text, a
<1> QED BY <1>3, <1>4

\* The buffered chunks in a conversation.  If nothing is buffered nothing
\* changes; what is pending stays so.
LEMMA FlushedConversation ==
    ASSUME NEW n \in Nat, NEW ms, Conversation(ms, n), buffer.pending \in Seq(Nat \X Nat)
    PROVE  /\ Conversation(Flushed(ms), n)
           /\ buffer.pending = <<>> => Flushed(ms) = ms
<1> DEFINE u == applyStreamingChunk(Last(ms), buffer.pending)
<1>1. HasAnswer(ms) => u \in MessageType /\ u.key = Last(ms).key
    <2>1. HasAnswer(ms) => Last(ms) \in MessageType
        BY LastOf DEF HasAnswer, Conversation
    <2> QED BY <2>1, ChunkApplied
<1> HIDE DEF u
<1>2. Conversation(updateLastAssistantMessage(ms, u), n)
    BY <1>1, AnswerWritten
<1> QED BY <1>2 DEF Flushed, u

\* The three ways in which a request ends leave nothing pending.
LEMMA Final ==
    ASSUME NEW n \in Nat, NEW ms, Conversation(ms, n)
    PROVE  /\ Conversation(updateAssistantMessageWithError(ms), n)
           /\ NonePending(updateAssistantMessageWithError(ms))
           /\ \A k \in Nat : /\ Conversation(applyChatCompletionResponse(ms, k), n)
                             /\ NonePending(applyChatCompletionResponse(ms, k))
           /\ Conversation(CompleteUnlessFinal(ms), n) /\ NonePending(CompleteUnlessFinal(ms))
<1>1. HasAnswer(ms) => Last(ms) \in MessageType
    BY LastOf DEF HasAnswer, Conversation
<1>2. ASSUME NEW status \in {"complete", "error"}, NEW text \in Seq(Nat \X Nat)
      PROVE  LET r == updateLastAssistantMessage(ms, [Last(ms) EXCEPT !.status = status, !.text = text])
             IN  Conversation(r, n) /\ NonePending(r)
    <2> DEFINE u == [Last(ms) EXCEPT !.status = status, !.text = text]
    <2>1. HasAnswer(ms) => u \in MessageType /\ u.key = Last(ms).key /\ u.status = status
        BY <1>1 DEF MessageType
    <2> HIDE DEF u
    <2>2. HasAnswer(ms) => ~isAssistantMessagePending(u)
        BY <2>1 DEF isAssistantMessagePending
    <2>3. LET r == updateLastAssistantMessage(ms, u) IN Conversation(r, n) /\ NonePending(r)
        BY <2>1, <2>2, AnswerWritten
    <2> QED BY <2>3 DEF u
<1>3. \A k \in Nat : << <<k, 1>> >> \in Seq(Nat \X Nat)
    OBVIOUS
<1>4. Conversation(CompleteUnlessFinal(ms), n) /\ NonePending(CompleteUnlessFinal(ms))
    <2> DEFINE u == IF isAssistantMessageFinal(Last(ms)) THEN Last(ms)
                    ELSE completeAssistantMessage(Last(ms))
    <2>1. HasAnswer(ms) => /\ u \in MessageType /\ u.key = Last(ms).key
                           /\ u.status \in {"complete", "error"}
        BY <1>1 DEF isAssistantMessageFinal, completeAssistantMessage, MessageType
    <2>2. CompleteUnlessFinal(ms) = updateLastAssistantMessage(ms, u)
        BY DEF CompleteUnlessFinal
    <2> HIDE DEF u
    <2>3. HasAnswer(ms) => ~isAssistantMessagePending(u)
        BY <2>1 DEF isAssistantMessagePending
    <2> QED BY <2>1, <2>2, <2>3, AnswerWritten
<1>5. /\ Conversation(updateAssistantMessageWithError(ms), n)
      /\ NonePending(updateAssistantMessageWithError(ms))
    BY <1>2, PageTexts DEF updateAssistantMessageWithError
<1>6. ASSUME NEW k \in Nat
      PROVE  /\ Conversation(applyChatCompletionResponse(ms, k), n)
             /\ NonePending(applyChatCompletionResponse(ms, k))
    BY <1>2, <1>3 DEF applyChatCompletionResponse
<1> QED BY <1>4, <1>5, <1>6

-----------------------------------------------------------------------------
(* The initial states; sending                                             *)

\* The values of a page that is not open.
LEMMA NoNetTypes ==
    /\ NoNet \in NetType /\ EmptyBuffer \in [pending : Seq(Nat \X Nat), timer : BOOLEAN]
    /\ EmptyBuffer.pending = <<>> /\ EmptyBuffer.timer = FALSE
    /\ NothingDelivered \in [0 .. MaxSends -> Texts]
    /\ NoKey[2] = 0 /\ Conversation(<<>>, 0) /\ \A n \in Nat : Conversation(<<>>, n)
    /\ NonePending(<<>>)
<1>1. NoNet \in NetType
    BY PlaygroundAssumption DEF NoNet, NetType
<1>2. /\ EmptyBuffer \in [pending : Seq(Nat \X Nat), timer : BOOLEAN]
      /\ EmptyBuffer.pending = <<>> /\ EmptyBuffer.timer = FALSE
    BY DEF EmptyBuffer
<1>3. NothingDelivered \in [0 .. MaxSends -> Texts] /\ NoKey[2] = 0
    <2>1. <<>> \in Texts
        BY PlaygroundAssumption DEF Texts
    <2> QED BY <2>1 DEF NothingDelivered, NoKey
<1>4. DOMAIN <<>> = {} /\ <<>> \in Seq(MessageType)
    OBVIOUS
<1> QED BY <1>1, <1>2, <1>3, <1>4 DEF Conversation, LastOnly, KeysKnown, NonePending

\* Init.
LEMMA PlayInit == Init => PlayInv
<1> SUFFICES ASSUME Init PROVE PlayInv
    OBVIOUS
<1>0. MaxSends \in Nat /\ MaxOpens \in Nat /\ MaxStored \in Nat \ {0, 1}
    BY PlaygroundAssumption
<1>1. Conversation(stored, 0) /\ Len(stored) <= MaxStored
    BY <1>0, NoNetTypes DEF Init
<1>2. PlayTypes
    <2>1. config \in [stream : BOOLEAN, snapshots : BOOLEAN]
        BY DEF Init
    <2>2. page \in [open : BOOLEAN, opens : 0 .. MaxOpens] /\ sends \in 0 .. MaxSends
        BY <1>0 DEF Init
    <2>3. <<>> \in Seq(MessageType) /\ detached \subseteq Seq(MessageType)
        BY DEF Init
    <2>4. stored \in Seq(MessageType)
        BY <1>1 DEF Conversation
    <2> QED BY <1>1, <2>1, <2>2, <2>3, <2>4, NoNetTypes DEF Init, PlayTypes
<1>3. NetInv
    BY <1>0, NoNetTypes DEF Init, NetInv, NetFits, NoNet, Mounted
<1>4. PendingInv
    BY <1>1, NoNetTypes DEF Init, PendingInv
<1> QED BY <1>2, <1>3, <1>4 DEF PlayInv

\* The request state that a send leaves.
LEMMA SendNet ==
    ASSUME PlayInv, NEW ms, sendChat(ms), Mounted
    PROVE  /\ net' \in NetType
           /\ buffer' = buffer \/ buffer' = EmptyBuffer
           /\ buffer'.pending # <<>> => net'.isStreaming
           /\ sends \in Nat /\ sends' = sends + 1 /\ sends' \in 1 .. MaxSends
           /\ \/ messages' = ms /\ isGenerating'
              \/ messages' = updateAssistantMessageWithError(Flushed(ms)) /\ ~isGenerating'
           /\ saving' = TRUE /\ overlapped' = (overlapped \/ isGenerating)
           /\ UNCHANGED <<config, page, stored, detached, delivered, swallowed, unkept>>
           /\ NetFits(net', config, sends')
<1> DEFINE n == sends + 1
           opened == [net EXCEPT !.isRequesting = TRUE, !.isStreaming = TRUE,
                                 !.source = n, !.hung = FALSE]
<1>1. /\ sends \in Nat /\ n \in 1 .. MaxSends /\ sends' = n /\ net \in NetType
      /\ UNCHANGED <<config, page, stored, detached, delivered, swallowed, unkept>>
      /\ overlapped' = (overlapped \/ isGenerating)
    BY PlaygroundAssumption DEF PlayInv, PlayTypes, sendChat
<1>2. /\ net.inflight \subseteq 1 .. sends /\ net.aborted \subseteq net.inflight
      /\ IF config.stream THEN net.inflight = {} ELSE ~net.isStreaming /\ net.source = 0
      /\ buffer.pending # <<>> => net.isStreaming
      /\ net.abort # 0 => net.abort = net.current /\ net.abort \in net.inflight
    BY DEF PlayInv, NetInv, NetFits
<1>3. CASE config.stream
    <2>0. n \in 0 .. MaxSends
        BY <1>1, PlaygroundAssumption
    <2>1. /\ opened \in NetType /\ opened.isRequesting /\ opened.isStreaming
          /\ opened.inflight = net.inflight /\ opened.aborted = net.aborted
          /\ opened.abort = net.abort /\ opened.current = net.current
        <3> HIDE DEF n
        <3> QED BY <1>1, <2>0 DEF NetType
    <2>2. sendStreamingChat(ms)
        BY <1>3 DEF sendChat
    <2>3. CASE messages' = ms /\ saving' = TRUE /\ net' = opened /\ buffer' = buffer
        <3> HIDE DEF opened, n
        <3>1. isGenerating' /\ net.inflight = {}
            BY <1>2, <1>3, <2>1, <2>3 DEF isGenerating
        <3> QED BY <1>1, <1>2, <1>3, <2>1, <2>3, <3>1 DEF n, NetFits
    <2>4. CASE /\ messages' = updateAssistantMessageWithError(Flushed(ms)) /\ saving' = TRUE
               /\ net' = [opened EXCEPT !.isRequesting = FALSE, !.isStreaming = FALSE, !.source = 0]
               /\ buffer' = EmptyBuffer
        <3> HIDE DEF opened, n
        <3>1. /\ net' \in NetType /\ ~net'.isRequesting /\ ~net'.isStreaming /\ net'.source = 0
              /\ net'.inflight = net.inflight /\ net'.aborted = net.aborted
              /\ net'.abort = net.abort /\ net'.current = net.current
            <4>1. 0 \in 0 .. MaxSends
                BY PlaygroundAssumption
            <4> QED BY <2>1, <2>4, <4>1 DEF NetType
        <3>2. ~isGenerating' /\ net.inflight = {}
            BY <1>2, <1>3, <3>1 DEF isGenerating
        <3> QED BY <1>1, <1>2, <1>3, <2>4, <3>1, <3>2, NoNetTypes DEF n, NetFits
    <2> QED BY <2>2, <2>3, <2>4 DEF sendStreamingChat, updateMessages
<1>4. CASE ~config.stream
    <2> DEFINE flying == net.inflight \cup {n}
    <2>0. n \in 0 .. MaxSends
        BY <1>1, PlaygroundAssumption
    <2>1. /\ net' = [net EXCEPT !.isRequesting = TRUE, !.inflight = flying, !.abort = n, !.current = n]
          /\ messages' = ms /\ saving' = TRUE /\ buffer' = buffer
        BY <1>4 DEF sendChat, sendNonStreamingChat, updateMessages
    <2>2. /\ flying \in SUBSET (1 .. MaxSends) /\ n \notin net.aborted
          /\ n \in flying /\ flying \subseteq 1 .. n /\ net.aborted \subseteq flying
        BY <1>1, <1>2 DEF NetType
    <2> HIDE DEF flying, n
    <2>3. /\ net' \in NetType /\ net'.isRequesting = TRUE /\ net'.inflight = flying
          /\ net'.current = n /\ net'.abort = n /\ net'.aborted = net.aborted
          /\ net'.isStreaming = net.isStreaming /\ net'.source = net.source
        BY <1>1, <2>0, <2>1, <2>2 DEF NetType
    <2>4. isGenerating'
        BY <2>3 DEF isGenerating
    <2> QED BY <1>1, <1>2, <1>4, <2>1, <2>2, <2>3, <2>4 DEF n, NetFits
<1> QED BY <1>3, <1>4

-----------------------------------------------------------------------------
(* What is asked                                                           *)

\* Facts about the state of the page that every step uses.
LEMMA PlayFacts ==
    ASSUME PlayInv
    PROVE  /\ sends \in Nat /\ sends \in 0 .. MaxSends /\ net \in NetType
           /\ buffer.pending \in Seq(Nat \X Nat) /\ buffer.timer = (buffer.pending # <<>>)
           /\ buffer.pending # <<>> => net.isStreaming
           /\ NetFits(net, config, sends) /\ NetFits(net, config, sends)
           /\ Conversation(messages, sends) /\ Conversation(stored, sends)
           /\ ~isGenerating => NonePending(messages)
           /\ editing \in Keys \cup {NoKey} /\ editing[2] <= sends
<1>1. sends \in Nat
    BY PlaygroundAssumption DEF PlayInv, PlayTypes
<1> QED BY <1>1 DEF PlayInv, PlayTypes, NetInv, PendingInv

\* A step of an open page keeps the invariant if its conversation, its request
\* state and its buffer do.
LEMMA PageKeeps ==
    ASSUME PlayInv, Mounted, UNCHANGED <<config, page, detached>>,
           stored' = stored \/ (Conversation(stored', sends') /\ Len(stored') <= MaxStored),
           sends' = sends \/ sends' = sends + 1, sends' \in 0 .. MaxSends,
           saving' \in BOOLEAN, overlapped' \in BOOLEAN, unkept' \in BOOLEAN,
           swallowed' = swallowed \/ swallowed' = swallowed \cup {net.source},
           editing' \in Keys \cup {NoKey}, editing'[2] <= sends,
           delivered' \in [0 .. MaxSends -> Texts],
           buffer' \in [pending : Seq(Nat \X Nat), timer : BOOLEAN],
           buffer'.timer = (buffer'.pending # <<>>),
           buffer'.pending # <<>> => net'.isStreaming,
           net' \in NetType, NetFits(net', config, sends'),
           Conversation(messages', sends'), ~isGenerating' => NonePending(messages')
    PROVE  PlayInv'
<1>1. sends \in Nat /\ sends' \in Nat /\ sends <= sends'
    BY PlayFacts, PlaygroundAssumption
<1>2. ASSUME NEW ms, Conversation(ms, sends) PROVE Conversation(ms, sends')
    BY <1>1, <1>2, Longer
<1>3. Conversation(stored, sends) /\ \A ms \in detached : Conversation(ms, sends)
    BY DEF PlayInv, PendingInv
<1>4. /\ Conversation(stored', sends') /\ Len(stored') <= MaxStored
      /\ \A ms \in detached' : Conversation(ms, sends')
    BY <1>2, <1>3 DEF PlayInv, PlayTypes
<1>5. editing'[2] <= sends'
    <2>1. editing'[2] \in Int
        BY PlaygroundAssumption DEF Keys, NoKey
    <2> QED BY <1>1, <2>1
<1>6. PlayTypes'
    <2>1. swallowed' \subseteq 0 .. MaxSends
        BY DEF PlayInv, PlayTypes, NetType
    <2> QED BY <1>4, <2>1 DEF PlayInv, PlayTypes, Conversation
<1>7. NetInv'
    BY DEF NetInv, NetFits, Mounted
<1>8. PendingInv'
    <2>1. Conversation(messages', sends')
        OBVIOUS
    <2> QED BY <1>4, <1>5, <2>1 DEF PendingInv, Conversation, KeysKnown, LastOnly, NonePending
<1> QED BY <1>6, <1>7, <1>8 DEF PlayInv

\* A request is sent for a conversation that ends with its loading answer.
LEMMA SendKeeps ==
    ASSUME PlayInv, Mounted, NEW ms, sendChat(ms), Conversation(ms, sends + 1),
           editing' \in Keys \cup {NoKey}, editing'[2] <= sends
    PROVE  PlayInv'
<1> DEFINE failed == updateAssistantMessageWithError(Flushed(ms))
<1>1. /\ net' \in NetType
      /\ buffer' = buffer \/ buffer' = EmptyBuffer
      /\ buffer'.pending # <<>> => net'.isStreaming
      /\ sends \in Nat /\ sends' = sends + 1 /\ sends' \in 1 .. MaxSends
      /\ \/ messages' = ms /\ isGenerating'
         \/ messages' = failed /\ ~isGenerating'
      /\ saving' = TRUE /\ overlapped' = (overlapped \/ isGenerating)
      /\ UNCHANGED <<config, page, stored, detached, delivered, swallowed, unkept>>
      /\ NetFits(net', config, sends')
    BY SendNet
<1>2. Conversation(failed, sends + 1) /\ NonePending(failed)
    <2>1. sends + 1 \in Nat /\ Conversation(Flushed(ms), sends + 1)
        BY <1>1, PlayFacts, FlushedConversation
    <2> QED BY <2>1, Final
<1> HIDE DEF failed
<1>3. Conversation(messages', sends') /\ (~isGenerating' => NonePending(messages'))
    BY <1>1, <1>2
<1>4. /\ buffer' \in [pending : Seq(Nat \X Nat), timer : BOOLEAN]
      /\ buffer'.timer = (buffer'.pending # <<>>)
    BY <1>1, NoNetTypes DEF PlayInv, PlayTypes
<1>5. /\ saving' \in BOOLEAN /\ overlapped' \in BOOLEAN /\ unkept' \in BOOLEAN
      /\ delivered' \in [0 .. MaxSends -> Texts] /\ sends' \in 0 .. MaxSends
    <2>1. overlapped' \in BOOLEAN
        BY <1>1
    <2> QED BY <1>1, <2>1, PlaygroundAssumption DEF PlayInv, PlayTypes
<1>6. UNCHANGED <<config, page, detached, swallowed>> /\ stored' = stored /\ sends' = sends + 1
    BY <1>1
<1>7. buffer'.pending # <<>> => net'.isStreaming
    BY <1>1
<1>8. net' \in NetType /\ NetFits(net', config, sends')
    BY <1>1
<1> QED BY <1>3, <1>4, <1>5, <1>6, <1>7, <1>8, PageKeeps

\* The i-th message with another text.
LEMMA EditedMessage ==
    ASSUME NEW n \in Nat, NEW ms, Conversation(ms, n), NEW i \in DOMAIN ms
    PROVE  LET r == Edited(ms, i)
           IN /\ Conversation(r, n) /\ DOMAIN r = DOMAIN ms /\ Len(r) = Len(ms)
              /\ \A j \in DOMAIN ms : /\ r[j].key = ms[j].key /\ r[j].status = ms[j].status
                                      /\ j # i => r[j] = ms[j]
              /\ r[i].text = OtherText /\ (NonePending(ms) => NonePending(r))
<1> DEFINE u == [ms[i] EXCEPT !.text = OtherText]
           r == [ms EXCEPT ![i] = u]
<1>1. r = Edited(ms, i)
    BY DEF Edited
<1>2. ms \in Seq(MessageType) /\ ms[i] \in MessageType
    BY DEF Conversation
<1>3. u \in MessageType /\ u.key = ms[i].key /\ u.status = ms[i].status /\ u.text = OtherText
    BY <1>2, PageTexts DEF MessageType
<1> HIDE DEF u
<1>4. /\ r \in Seq(MessageType) /\ Len(r) = Len(ms) /\ DOMAIN r = DOMAIN ms
      /\ r[i] = u /\ \A j \in DOMAIN ms : j # i => r[j] = ms[j]
    BY <1>2, <1>3, Replaced
<1> HIDE DEF r
<1>5. \A j \in DOMAIN ms : r[j].key = ms[j].key /\ r[j].status = ms[j].status
    BY <1>3, <1>4
<1>6. Conversation(r, n) /\ (NonePending(ms) => NonePending(r))
    BY <1>4, <1>5 DEF Conversation, LastOnly, KeysKnown, NonePending, isAssistantMessagePending, IsAssistant
<1> QED BY <1>1, <1>3, <1>4, <1>5, <1>6

\* The first k messages.
LEMMA CutConversation ==
    ASSUME NEW n \in Nat, NEW ms, Conversation(ms, n), NEW k \in 0 .. Len(ms),
           NonePending(ms) \/ (k \in DOMAIN ms /\ ~IsAssistant(ms[k]))
    PROVE  LET r == SubSeq(ms, 1, k)
           IN /\ r \in Seq(MessageType) /\ NonePending(r) /\ KeysKnown(r, n)
              /\ \A j \in DOMAIN r : j \in DOMAIN ms /\ r[j] = ms[j]
<1> DEFINE r == SubSeq(ms, 1, k)
<1>1. /\ r \in Seq(MessageType) /\ Len(r) = k /\ DOMAIN r = 1 .. k
      /\ \A j \in DOMAIN r : j \in DOMAIN ms /\ r[j] = ms[j]
    BY Cut DEF Conversation
<1>2. Len(ms) \in Nat /\ DOMAIN ms = 1 .. Len(ms)
    BY DEF Conversation
<1> HIDE DEF r
<1>3. NonePending(r)
    BY <1>1, <1>2 DEF NonePending, Conversation, LastOnly
<1>4. KeysKnown(r, n)
    BY <1>1 DEF KeysKnown, Conversation
<1> QED BY <1>1, <1>3, <1>4 DEF r

\* What is in a new conversation was on the page, is edited or is new.
Retained(m, ms, n) ==
    \/ \E j \in DOMAIN ms : m = ms[j]
    \/ m.text = OtherText /\ \E j \in DOMAIN ms : m.key = ms[j].key
    \/ m = createUserMessage(n + 1)

\* The conversation of a send: a base of which nothing is pending, and the
\* loading answer.
Asks(ms, n) == \E b \in Seq(MessageType) :
    /\ NonePending(b) /\ \A i \in DOMAIN b : Retained(b[i], messages, n)
    /\ ms = Append(b, createLoadingAssistantMessage(n + 1))

\* What sendChat is given when a message is sent, an answer regenerated or an
\* edit submitted is a conversation that ends in the new, empty answer.
LEMMA AsksConversation ==
    ASSUME PlayInv, NEW ms, Asks(ms, sends), sends < MaxSends
    PROVE  /\ Conversation(ms, sends + 1) /\ HasAnswer(ms)
           /\ Last(ms) = createLoadingAssistantMessage(sends + 1)
           /\ \A i \in DOMAIN ms : i # Len(ms) =>
                /\ Retained(ms[i], messages, sends) /\ ~isAssistantMessagePending(ms[i])
                /\ ms[i].key # <<"assistant", sends + 1>>
<1>1. PICK b \in Seq(MessageType) :
        /\ NonePending(b) /\ \A i \in DOMAIN b : Retained(b[i], messages, sends)
        /\ ms = Append(b, createLoadingAssistantMessage(sends + 1))
    BY DEF Asks
<1>2. sends \in Nat /\ Conversation(messages, sends)
    BY PlayFacts
<1>3. ASSUME NEW j \in DOMAIN messages
      PROVE  messages[j].key[2] \in Nat /\ messages[j].key[2] <= sends
    <2>1. messages[j] \in MessageType
        BY <1>2 DEF Conversation
    <2> QED BY <1>2, <2>1, MessageFields DEF Conversation, KeysKnown
<1>4. ASSUME NEW i \in DOMAIN b
      PROVE  b[i].key[2] <= sends + 1 /\ b[i].key # <<"assistant", sends + 1>>
    <2>1. CASE \E j \in DOMAIN messages : b[i].key = messages[j].key
        BY <1>2, <1>3, <2>1
    <2>2. CASE b[i] = createUserMessage(sends + 1)
        BY <1>2, <2>2 DEF createUserMessage
    <2> QED BY <1>1, <2>1, <2>2 DEF Retained
<1>5. KeysKnown(b, sends + 1)
    BY <1>4 DEF KeysKnown
<1>6. /\ Conversation(ms, sends + 1) /\ HasAnswer(ms)
      /\ Last(ms) = createLoadingAssistantMessage(sends + 1)
      /\ \A i \in DOMAIN ms : i # Len(ms) => i \in DOMAIN b /\ ms[i] = b[i]
    BY <1>1, <1>2, <1>5, AnswerAsked
<1> QED BY <1>1, <1>4, <1>6 DEF NonePending

\* handleSendMessage asks with the conversation shown and the new prompt.
LEMMA SendAsks ==
    ASSUME PlayInv, Mounted, handleSendMessage
    PROVE  \E ms : sendChat(ms) /\ Asks(ms, sends) /\ sends < MaxSends /\ editing' = editing
<1> DEFINE u == createUserMessage(sends + 1)
           a == createLoadingAssistantMessage(sends + 1)
           b == Append(messages, u)
<1>1. sendChat(messages \o <<u, a>>) /\ sends < MaxSends /\ editing' = editing
    BY DEF handleSendMessage, sendChat
<1>2. messages \in Seq(MessageType) /\ NonePending(messages) /\ sends \in 0 .. MaxSends
    <2>1. messages = <<>> => NonePending(messages)
        BY NoNetTypes
    <2> QED BY <2>1, PlayFacts DEF handleSendMessage, Conversation
<1>3. /\ u \in MessageType /\ a \in MessageType /\ ~isAssistantMessagePending(u)
    BY <1>1, <1>2, PlaygroundAssumption, PageTexts
    DEF createUserMessage, createLoadingAssistantMessage, MessageType, Keys, isAssistantMessagePending
<1>4. u = createUserMessage(sends + 1) /\ a = createLoadingAssistantMessage(sends + 1)
    OBVIOUS
<1> HIDE DEF u, a
<1>5. /\ b \in Seq(MessageType) /\ Len(b) = Len(messages) + 1 /\ b # <<>> /\ b[Len(b)] = u
      /\ \A j \in DOMAIN messages : j \in DOMAIN b /\ b[j] = messages[j] /\ j # Len(b)
      /\ \A j \in DOMAIN b : j # Len(b) => j \in DOMAIN messages
    BY <1>2, <1>3, Appended
<1>6. messages \o <<u, a>> = Append(b, a)
    BY <1>2, <1>3
<1> HIDE DEF b
<1>7. NonePending(b) /\ \A i \in DOMAIN b : Retained(b[i], messages, sends)
    BY <1>2, <1>3, <1>4, <1>5 DEF NonePending, Retained
<1> QED BY <1>1, <1>4, <1>5, <1>6, <1>7 DEF Asks

\* handleRegenerateMessage asks with the conversation up to the message.
LEMMA RegenerateAsks ==
    ASSUME PlayInv, Mounted, handleRegenerateMessage
    PROVE  \E ms : sendChat(ms) /\ Asks(ms, sends) /\ sends < MaxSends /\ editing' = editing
<1>1. PICK i \in DOMAIN messages :
        sendChat(createRegeneratedMessages(i)) /\ editing' = editing /\ ~isGenerating
    BY DEF handleRegenerateMessage
<1> DEFINE k == IF IsAssistant(messages[i]) THEN i - 1 ELSE i
           b == SubSeq(messages, 1, k)
<1>2. /\ sends \in Nat /\ Conversation(messages, sends) /\ NonePending(messages)
      /\ messages \in Seq(MessageType)
    BY <1>1, PlayFacts DEF Conversation
<1>3. k \in 0 .. Len(messages)
    BY <1>2
<1>4. createRegeneratedMessages(i) = Append(b, createLoadingAssistantMessage(sends + 1))
    BY DEF createRegeneratedMessages
<1> HIDE DEF k
<1>5. /\ b \in Seq(MessageType) /\ NonePending(b)
      /\ \A j \in DOMAIN b : j \in DOMAIN messages /\ b[j] = messages[j]
    BY <1>2, <1>3, CutConversation
<1> HIDE DEF b
<1>6. Asks(createRegeneratedMessages(i), sends)
    BY <1>4, <1>5 DEF Asks, Retained
<1> QED BY <1>1, <1>6 DEF sendChat

\* Save & Submit asks with the conversation up to the edited prompt.
LEMMA SubmitAsks ==
    ASSUME PlayInv, Mounted, SubmitEdit
    PROVE  \E ms : sendChat(ms) /\ Asks(ms, sends) /\ sends < MaxSends /\ editing' = NoKey
<1> DEFINE i == IndexOf(editing)
           ed == Edited(messages, i)
           b == SubSeq(ed, 1, i)
<1>1. sendChat(applyMessageEdit(i)) /\ editing' = NoKey /\ HasKey(editing) /\ editing[1] = "user"
    BY DEF SubmitEdit
<1>2. sends \in Nat /\ Conversation(messages, sends) /\ messages \in Seq(MessageType)
    BY PlayFacts DEF Conversation
<1>3. i \in DOMAIN messages /\ messages[i].key = editing
    BY <1>1 DEF HasKey, IndexOf
<1>4. applyMessageEdit(i) = Append(b, createLoadingAssistantMessage(sends + 1))
    BY DEF applyMessageEdit
<1> HIDE DEF i
<1>5. /\ Conversation(ed, sends) /\ DOMAIN ed = DOMAIN messages /\ Len(ed) = Len(messages)
      /\ \A j \in DOMAIN messages : ed[j].key = messages[j].key /\ (j # i => ed[j] = messages[j])
      /\ ed[i].text = OtherText
    BY <1>2, <1>3, EditedMessage
<1> HIDE DEF ed
<1>6. i \in 0 .. Len(ed) /\ i \in DOMAIN ed /\ ~IsAssistant(ed[i])
    <2>1. i \in 0 .. Len(ed)
        BY <1>2, <1>3, <1>5
    <2> QED BY <1>1, <1>3, <1>5, <2>1 DEF IsAssistant
<1>7. /\ b \in Seq(MessageType) /\ NonePending(b)
      /\ \A j \in DOMAIN b : j \in DOMAIN ed /\ b[j] = ed[j]
    BY <1>2, <1>5, <1>6, CutConversation
<1> HIDE DEF b
<1>8. ASSUME NEW j \in DOMAIN b PROVE Retained(b[j], messages, sends)
    BY <1>3, <1>5, <1>7 DEF Retained
<1>9. Asks(applyMessageEdit(i), sends)
    BY <1>4, <1>7, <1>8 DEF Asks
<1> QED BY <1>1, <1>9 DEF sendChat

-----------------------------------------------------------------------------
(* Edits, Stop and the events of a stream                                  *)

\* Most steps leave the store, the counts and the history variables alone.
LEMMA QuietStep ==
    ASSUME PlayInv, Mounted, UNCHANGED <<config, page, stored, detached, sends, overlapped, unkept>>,
           swallowed' = swallowed \/ swallowed' = swallowed \cup {net.source},
           saving' \in BOOLEAN, editing' = editing \/ editing' = NoKey,
           delivered' \in [0 .. MaxSends -> Texts],
           buffer' = EmptyBuffer \/ (buffer' = buffer /\ net'.isStreaming = net.isStreaming),
           net' \in NetType, NetFits(net', config, sends),
           Conversation(messages', sends), ~isGenerating' => NonePending(messages')
    PROVE  PlayInv'
<1>1. /\ sends \in 0 .. MaxSends /\ sends' = sends /\ sends \in Nat
      /\ overlapped' \in BOOLEAN /\ unkept' \in BOOLEAN
    BY PlayFacts DEF PlayInv, PlayTypes
<1>2. editing' \in Keys \cup {NoKey} /\ editing'[2] <= sends
    BY <1>1, PlayFacts, NoNetTypes
<1>3. /\ buffer' \in [pending : Seq(Nat \X Nat), timer : BOOLEAN]
      /\ buffer'.timer = (buffer'.pending # <<>>)
      /\ buffer'.pending # <<>> => net'.isStreaming
    <2>1. CASE buffer' = EmptyBuffer
        BY <2>1, NoNetTypes
    <2>2. CASE buffer' = buffer /\ net'.isStreaming = net.isStreaming
        BY <2>2, PlayFacts DEF PlayInv, PlayTypes
    <2> QED BY <2>1, <2>2
<1>4. NetFits(net', config, sends') /\ Conversation(messages', sends')
    BY <1>1
<1> QED BY <1>1, <1>2, <1>3, <1>4, PageKeeps

\* handleEditMessage, handleEditOpenChange, SaveEdit, handleDeleteMessage and
\* handleClearMessages.
LEMMA EditSteps ==
    ASSUME PlayInv,
           \/ handleEditMessage \/ handleEditOpenChange \/ SaveEdit
           \/ handleDeleteMessage \/ handleClearMessages
    PROVE  PlayInv'
<1>1. /\ sends \in Nat /\ Conversation(messages, sends) /\ messages \in Seq(MessageType)
      /\ net \in NetType /\ NetFits(net, config, sends)
      /\ ~isGenerating => NonePending(messages)
      /\ buffer \in [pending : Seq(Nat \X Nat), timer : BOOLEAN]
      /\ delivered \in [0 .. MaxSends -> Texts] /\ saving \in BOOLEAN
    BY PlayFacts DEF PlayInv, PlayTypes, Conversation
<1>2. CASE handleEditMessage
    <2>1. PICK i \in DOMAIN messages : editing' = messages[i].key
        BY <1>2 DEF handleEditMessage
    <2>2. editing' \in Keys \cup {NoKey} /\ editing'[2] <= sends
        <3>1. messages[i] \in MessageType
            BY <1>1
        <3> QED BY <1>1, <2>1, <3>1, MessageFields DEF Conversation, KeysKnown
    <2>3. /\ Mounted /\ UNCHANGED <<config, page, messages, net, buffer, saving, stored, detached,
                                    sends, delivered, overlapped, swallowed, unkept>>
        BY <1>2 DEF handleEditMessage, history
    <2>4. /\ sends' \in 0 .. MaxSends /\ overlapped' \in BOOLEAN /\ unkept' \in BOOLEAN
          /\ saving' \in BOOLEAN /\ delivered' \in [0 .. MaxSends -> Texts]
          /\ buffer' \in [pending : Seq(Nat \X Nat), timer : BOOLEAN]
          /\ buffer'.timer = (buffer'.pending # <<>>) /\ (buffer'.pending # <<>> => net'.isStreaming)
          /\ net' \in NetType /\ NetFits(net', config, sends') /\ sends' = sends
        BY <2>3, <1>1, PlayFacts DEF PlayInv, PlayTypes
    <2>5. Conversation(messages', sends') /\ (~isGenerating' => NonePending(messages'))
        BY <1>1, <2>3 DEF isGenerating
    <2> QED BY <2>2, <2>3, <2>4, <2>5, PageKeeps
<1>3. CASE handleEditOpenChange
    <2>1. /\ Mounted /\ editing' = NoKey
          /\ UNCHANGED <<config, page, messages, net, buffer, saving, stored, detached,
                         sends, delivered, overlapped, swallowed, unkept>>
        BY <1>3 DEF handleEditOpenChange, history
    <2>2. ~isGenerating' => NonePending(messages')
        BY <1>1, <2>1 DEF isGenerating
    <2> QED BY <1>1, <2>1, <2>2, QuietStep
<1>4. ASSUME NEW ms, messages' = ms, saving' = TRUE, editing' = editing \/ editing' = NoKey, Mounted,
             UNCHANGED <<config, page, net, buffer, stored, detached, sends, delivered, overlapped, swallowed, unkept>>,
             Conversation(ms, sends), ~isGenerating => NonePending(ms)
      PROVE  PlayInv'
    <2>1. Conversation(messages', sends) /\ (~isGenerating' => NonePending(messages'))
        BY <1>4 DEF isGenerating
    <2> QED BY <1>1, <1>4, <2>1, QuietStep
<1>5. CASE SaveEdit
    <2>1. IndexOf(editing) \in DOMAIN messages
        BY <1>5 DEF SaveEdit, HasKey, IndexOf
    <2>2. /\ Conversation(Edited(messages, IndexOf(editing)), sends)
          /\ ~isGenerating => NonePending(Edited(messages, IndexOf(editing)))
        BY <1>1, <2>1, EditedMessage
    <2> QED BY <1>4, <1>5, <2>2 DEF SaveEdit, updateMessages, history
<1>6. CASE handleDeleteMessage
    <2>1. PICK i \in DOMAIN messages : updateMessages(removeMessageByKey(i))
        BY <1>6 DEF handleDeleteMessage
    <2> DEFINE ms == RemoveAt(messages, i)
    <2>2. ms \in Seq(MessageType) /\ \A j \in DOMAIN ms : \E k \in DOMAIN messages : ms[j] = messages[k]
        BY <1>1, Removed
    <2>3. messages' = ms /\ saving' = TRUE /\ ~isGenerating
        BY <1>6, <2>1 DEF handleDeleteMessage, updateMessages, removeMessageByKey
    <2> HIDE DEF ms
    <2>4. Conversation(ms, sends) /\ NonePending(ms)
        BY <1>1, <2>2, <2>3 DEF Conversation, LastOnly, KeysKnown, NonePending
    <2> QED BY <1>4, <1>6, <2>3, <2>4 DEF handleDeleteMessage, history
<1>7. CASE handleClearMessages
    BY <1>1, <1>4, <1>7, NoNetTypes DEF handleClearMessages, updateMessages, history
<1> QED BY <1>2, <1>3, <1>5, <1>6, <1>7

\* A flush swallows text of the request under way, if any.
LEMMA FlushSwallows == FlushSwallowed = swallowed \/ FlushSwallowed = swallowed \cup {net.source}
BY DEF FlushSwallowed, Swallowed

\* stopGeneration completes what is pending.
LEMMA Stopped ==
    ASSUME NEW n \in Nat, NEW ms, Conversation(ms, n)
    PROVE  LET r == updateLastAssistantMessage(ms,
                        IF isAssistantMessagePending(Last(ms)) THEN completeAssistantMessage(Last(ms))
                        ELSE Last(ms))
           IN  Conversation(r, n) /\ NonePending(r)
<1>1. HasAnswer(ms) => Last(ms) \in MessageType
    BY LastOf DEF HasAnswer, Conversation
<1> DEFINE u == IF isAssistantMessagePending(Last(ms)) THEN completeAssistantMessage(Last(ms))
                ELSE Last(ms)
<1>2. HasAnswer(ms) => u \in MessageType /\ u.key = Last(ms).key /\ ~isAssistantMessagePending(u)
    BY <1>1 DEF completeAssistantMessage, MessageType, isAssistantMessagePending
<1> HIDE DEF u
<1>3. LET r == updateLastAssistantMessage(ms, u) IN Conversation(r, n) /\ NonePending(r)
    BY <1>2, AnswerWritten
<1> QED BY <1>3 DEF u

\* stopGeneration.
LEMMA StopStep ==
    ASSUME PlayInv, stopGeneration
    PROVE  PlayInv'
<1> DEFINE gone == net.aborted \cup ({net.abort} \ {0})
<1>1. /\ sends \in Nat /\ Conversation(messages, sends) /\ buffer.pending \in Seq(Nat \X Nat)
      /\ net \in NetType /\ NetFits(net, config, sends)
      /\ delivered \in [0 .. MaxSends -> Texts]
    BY PlayFacts DEF PlayInv, PlayTypes
<1>2. /\ Mounted /\ buffer' = EmptyBuffer /\ saving' = TRUE /\ delivered' = delivered
      /\ UNCHANGED <<config, page, editing, stored, detached, sends, overlapped, unkept>>
      /\ swallowed' = FlushSwallowed
      /\ net' = [net EXCEPT !.isStreaming = FALSE, !.isRequesting = FALSE, !.source = 0,
                            !.hung = FALSE, !.aborted = gone, !.abort = 0]
    BY DEF stopGeneration, updateMessages
<1>3. Conversation(messages', sends) /\ NonePending(messages')
    <2>1. Conversation(Flushed(messages), sends)
        BY <1>1, FlushedConversation
    <2> QED BY <1>1, <2>1, Stopped DEF stopGeneration, updateMessages
<1>4. gone \in SUBSET (1 .. MaxSends) /\ gone \subseteq net.inflight /\ 0 \in 0 .. MaxSends
    BY <1>1, PlaygroundAssumption DEF NetType, NetFits
<1> HIDE DEF gone
<1>5. /\ net' \in NetType /\ ~net'.isStreaming /\ ~net'.isRequesting /\ net'.source = 0
      /\ net'.inflight = net.inflight /\ net'.aborted = gone /\ net'.abort = 0
    BY <1>1, <1>2, <1>4 DEF NetType
<1>6. NetFits(net', config, sends)
    BY <1>1, <1>4, <1>5 DEF NetFits
<1>7. swallowed' = swallowed \/ swallowed' = swallowed \cup {net.source}
    BY <1>2, FlushSwallows
<1> QED BY <1>1, <1>2, <1>3, <1>5, <1>6, <1>7, QuietStep

\* What the listeners of a stream do at its end.
LEMMA StreamEndedNet ==
    ASSUME PlayInv
    PROVE  /\ StreamEnded \in NetType /\ NetFits(StreamEnded, config, sends)
           /\ ~StreamEnded.isStreaming /\ ~StreamEnded.isRequesting /\ StreamEnded.source = 0
           /\ StreamEnded.inflight = net.inflight /\ StreamEnded.aborted = net.aborted
<1> DEFINE x == StreamEnded
<1>1. net \in NetType /\ NetFits(net, config, sends) /\ 0 \in 0 .. MaxSends
    BY PlayFacts, PlaygroundAssumption
<1>2. x = [net EXCEPT !.isStreaming = FALSE, !.isRequesting = FALSE, !.source = 0]
    BY DEF StreamEnded
<1> HIDE DEF x
<1>3. /\ x \in NetType /\ ~x.isStreaming /\ ~x.isRequesting /\ x.source = 0
      /\ x.inflight = net.inflight /\ x.aborted = net.aborted
      /\ x.abort = net.abort /\ x.current = net.current
    BY <1>1, <1>2 DEF NetType
<1>4. NetFits(x, config, sends)
    BY <1>1, <1>3 DEF NetFits
<1> QED BY <1>3, <1>4 DEF x

\* handleStreamComplete and handleStreamError.
LEMMA StreamEndSteps ==
    ASSUME PlayInv, handleStreamComplete \/ handleStreamError
    PROVE  PlayInv'
<1>1. /\ sends \in Nat /\ Conversation(messages, sends) /\ buffer.pending \in Seq(Nat \X Nat)
      /\ delivered \in [0 .. MaxSends -> Texts]
    BY PlayFacts DEF PlayInv, PlayTypes
<1>2. /\ Mounted /\ buffer' = EmptyBuffer /\ saving' = TRUE /\ net' = StreamEnded
      /\ delivered' = delivered
      /\ UNCHANGED <<config, page, editing, stored, detached, sends, overlapped, unkept>>
      /\ swallowed' = swallowed \/ swallowed' = FlushSwallowed
      /\ \/ messages' = CompleteUnlessFinal(Flushed(messages))
         \/ messages' = updateAssistantMessageWithError(Flushed(messages))
    BY DEF handleStreamComplete, handleStreamError, updateMessages, history, Live
<1>3. Conversation(messages', sends) /\ NonePending(messages')
    <2>1. Conversation(Flushed(messages), sends)
        BY <1>1, FlushedConversation
    <2> QED BY <1>1, <1>2, <2>1, Final
<1>4. net' \in NetType /\ NetFits(net', config, sends)
    BY <1>2, StreamEndedNet
<1>5. swallowed' = swallowed \/ swallowed' = swallowed \cup {net.source}
    BY <1>2, FlushSwallows
<1> QED BY <1>1, <1>2, <1>3, <1>4, <1>5, QuietStep

\* A chunk that is merged into the buffer.
LEMMA MergedChunk ==
    ASSUME NEW cur \in Seq(Nat \X Nat), NEW next \in Seq(Nat \X Nat), next # <<>>
    PROVE  /\ mergePendingStreamChunk(cur, next) \in Seq(Nat \X Nat)
           /\ mergePendingStreamChunk(cur, next) # <<>>
<1>1. cur \o next \in Seq(Nat \X Nat) /\ cur \o next # <<>>
    <2>1. Len(cur \o next) = Len(cur) + Len(next) /\ Len(cur) \in Nat /\ Len(next) \in Nat \ {0}
        OBVIOUS
    <2> QED BY <2>1
<1> QED BY <1>1 DEF mergePendingStreamChunk

\* handleStreamUpdate, StreamHangs and flushStreamUpdates.
LEMMA StreamRunSteps ==
    ASSUME PlayInv, handleStreamUpdate \/ StreamHangs \/ flushStreamUpdates
    PROVE  PlayInv'
<1>1. /\ sends \in Nat /\ sends \in 0 .. MaxSends
      /\ Conversation(messages, sends) /\ buffer.pending \in Seq(Nat \X Nat)
      /\ delivered \in [0 .. MaxSends -> Texts] /\ saving \in BOOLEAN
      /\ net \in NetType /\ NetFits(net, config, sends)
      /\ overlapped \in BOOLEAN /\ unkept \in BOOLEAN
      /\ editing \in Keys \cup {NoKey} /\ editing[2] <= sends
    BY PlayFacts DEF PlayInv, PlayTypes
<1>2. /\ ~isGenerating => NonePending(messages)
      /\ buffer.pending # <<>> => net.isStreaming
    BY PlayFacts
<1>3. CASE handleStreamUpdate
    <2> DEFINE n == net.source
    <2>1. PICK letter \in NextLetter(n) :
            /\ buffer' = [pending |-> mergePendingStreamChunk(buffer.pending, Chunk(n, letter)),
                          timer |-> TRUE]
            /\ delivered' = [delivered EXCEPT ![n] = Append(@, letter)]
            /\ swallowed' = Swallowed(buffer.pending, Chunk(n, letter))
        BY <1>3 DEF handleStreamUpdate
    <2>2. /\ Mounted /\ n # 0 /\ Len(delivered[n]) < MaxChunks
          /\ UNCHANGED <<config, page, messages, editing, net, saving, stored, detached, sends,
                         overlapped, unkept>>
        BY <1>3 DEF handleStreamUpdate, Live
    <2>3. n \in 0 .. MaxSends /\ n \in Nat
        BY <1>1, PlaygroundAssumption DEF NetType
    <2> DEFINE d == delivered[n]
               chunk == Chunk(n, letter)
               merged == mergePendingStreamChunk(buffer.pending, chunk)
    <2>4. letter \in Nat \X Nat /\ d \in Seq(Nat \X Nat) /\ Len(d) \in Nat
        <3>1. d \in Seq(Nat \X Nat) /\ Len(d) \in Nat
            BY <1>1, <2>3 DEF Texts
        <3> QED BY <2>3, <3>1 DEF NextLetter
    <2>5. chunk \in Seq(Nat \X Nat) /\ chunk # <<>>
        <3> HIDE DEF d
        <3>1. Append(d, letter) \in Seq(Nat \X Nat) /\ Append(d, letter) # <<>>
            <4>1. Append(d, letter) \in Seq(Nat \X Nat) /\ Len(Append(d, letter)) = Len(d) + 1
                BY <2>4
            <4> QED BY <2>4, <4>1
        <3>2. <<letter>> \in Seq(Nat \X Nat) /\ <<letter>> # <<>>
            BY <2>4
        <3>3. chunk = IF config.snapshots THEN Append(d, letter) ELSE <<letter>>
            BY DEF Chunk, d
        <3> QED BY <3>1, <3>2, <3>3
    <2>10. delivered' \in [0 .. MaxSends -> Texts]
        <3>1. delivered' = [delivered EXCEPT ![n] = Append(d, letter)]
            BY <2>1
        <3>2. Append(d, letter) \in Texts
            <4>1. Append(d, letter) \in Seq(Nat \X Nat) /\ Len(Append(d, letter)) = Len(d) + 1
                BY <2>4
            <4>2. Len(d) + 1 <= MaxChunks
                BY <2>2, <2>4, PlaygroundAssumption
            <4> QED BY <4>1, <4>2 DEF Texts
        <3> HIDE DEF d
        <3> QED BY <1>1, <2>3, <3>1, <3>2
    <2>11. swallowed' = swallowed \/ swallowed' = swallowed \cup {net.source}
        BY <2>1 DEF Swallowed
    <2>6. merged \in Seq(Nat \X Nat) /\ merged # <<>>
        BY <1>1, <2>5, MergedChunk
    <2> HIDE DEF merged, chunk, d
    <2>12. buffer' = [pending |-> merged, timer |-> TRUE]
        BY <2>1 DEF merged, chunk
    <2>7. /\ buffer' \in [pending : Seq(Nat \X Nat), timer : BOOLEAN]
          /\ buffer'.timer = (buffer'.pending # <<>>)
        BY <2>6, <2>12
    <2>8. net'.isStreaming /\ net' \in NetType /\ NetFits(net', config, sends')
        BY <1>1, <2>2 DEF NetFits
    <2>9. Conversation(messages', sends') /\ (~isGenerating' => NonePending(messages'))
        BY <1>1, <2>2, <2>8 DEF isGenerating
    <2> HIDE DEF n
    <2> QED BY <1>1, <2>2, <2>7, <2>8, <2>9, <2>10, <2>11, PageKeeps
<1>4. CASE StreamHangs
    <2>1. /\ Mounted /\ net' = [net EXCEPT !.hung = TRUE]
          /\ UNCHANGED <<config, page, messages, editing, buffer, saving, stored, detached, sends,
                         delivered, overlapped, swallowed, unkept>>
        BY <1>4 DEF StreamHangs, Live, history
    <2>2. /\ net' \in NetType /\ net'.isStreaming = net.isStreaming
          /\ net'.isRequesting = net.isRequesting /\ net'.source = net.source
          /\ net'.inflight = net.inflight /\ net'.aborted = net.aborted
          /\ net'.abort = net.abort /\ net'.current = net.current
        BY <1>1, <2>1 DEF NetType
    <2>3. NetFits(net', config, sends) /\ isGenerating' = isGenerating
        BY <1>1, <2>2 DEF NetFits, isGenerating
    <2>4. Conversation(messages', sends) /\ (~isGenerating' => NonePending(messages'))
        BY <1>1, <1>2, <2>1, <2>3
    <2> QED BY <1>1, <2>1, <2>2, <2>3, <2>4, QuietStep
<1>5. CASE flushStreamUpdates
    <2>1. /\ Mounted /\ buffer' = EmptyBuffer
          /\ messages' = Flushed(messages) /\ saving' \in BOOLEAN
          /\ UNCHANGED <<config, page, editing, net, stored, detached, sends, delivered,
                         overlapped, unkept>>
          /\ swallowed' = swallowed \/ swallowed' = swallowed \cup {net.source}
        BY <1>1, <1>5, FlushSwallows DEF flushStreamUpdates, Flushed, updateMessages
    <2>2. /\ Conversation(Flushed(messages), sends)
          /\ buffer.pending = <<>> => Flushed(messages) = messages
        BY <1>1, FlushedConversation
    <2>3. Conversation(messages', sends) /\ (~isGenerating' => NonePending(messages'))
        BY <1>2, <2>1, <2>2 DEF isGenerating
    <2> QED BY <1>1, <2>1, <2>3, QuietStep
<1> QED BY <1>3, <1>4, <1>5

-----------------------------------------------------------------------------
(* Plain requests, saving, opening and leaving; the invariant              *)

\* The finally block of a plain request.
LEMMA SettledNet ==
    ASSUME PlayInv, NEW n \in net.inflight, NEW requesting \in {net.isRequesting, FALSE}
    PROVE  LET x == Settled(n, requesting)
           IN /\ x \in NetType /\ NetFits(x, config, sends)
              /\ x.isStreaming = net.isStreaming /\ x.source = net.source
              /\ x.inflight = net.inflight \ {n} /\ x.aborted = net.aborted \ {n}
              /\ x.current = net.current
              /\ x.abort = (IF net.current = n THEN 0 ELSE net.abort)
              /\ x.isRequesting = (IF net.current = n THEN FALSE ELSE requesting)
<1> DEFINE x == Settled(n, requesting)
           flying == net.inflight \ {n}
           gone == net.aborted \ {n}
           abort == IF net.current = n THEN 0 ELSE net.abort
           req == IF net.current = n THEN FALSE ELSE requesting
<1>1. net \in NetType /\ NetFits(net, config, sends) /\ 0 \in 0 .. MaxSends
    BY PlayFacts, PlaygroundAssumption
<1>2. x = [net EXCEPT !.inflight = flying, !.aborted = gone, !.abort = abort, !.isRequesting = req]
    BY DEF Settled
<1>3. /\ flying \in SUBSET (1 .. MaxSends) /\ gone \in SUBSET (1 .. MaxSends)
      /\ abort \in 0 .. MaxSends /\ req \in BOOLEAN
    BY <1>1 DEF NetType
<1>4. /\ req => requesting = TRUE /\ net.isRequesting /\ net.current # n
      /\ abort # 0 => abort = net.abort /\ net.current # n
    BY <1>1 DEF NetType
<1>5. flying = net.inflight \ {n} /\ gone = net.aborted \ {n}
    OBVIOUS
<1> HIDE DEF x, flying, gone, abort, req
<1>6. /\ x \in NetType /\ x.isStreaming = net.isStreaming /\ x.source = net.source
      /\ x.inflight = flying /\ x.aborted = gone /\ x.current = net.current
      /\ x.abort = abort /\ x.isRequesting = req
    BY <1>1, <1>2, <1>3 DEF NetType
<1>7. NetFits(x, config, sends)
    BY <1>1, <1>4, <1>5, <1>6 DEF NetFits
<1> QED BY <1>6, <1>7 DEF x, flying, gone, abort, req

\* PlainAnswers and PlainFails.
LEMMA PlainSteps ==
    ASSUME PlayInv, PlainAnswers \/ PlainFails
    PROVE  PlayInv'
<1>1. /\ sends \in Nat /\ sends \in 0 .. MaxSends
      /\ Conversation(messages, sends) /\ buffer.pending \in Seq(Nat \X Nat)
      /\ delivered \in [0 .. MaxSends -> Texts] /\ saving \in BOOLEAN
      /\ net \in NetType /\ NetFits(net, config, sends)
    BY PlayFacts DEF PlayInv, PlayTypes
<1>2. ~isGenerating => NonePending(messages)
    BY PlayFacts
<1>3. ASSUME NEW n \in net.inflight, n \in net.aborted, net' = Settled(n, net.isRequesting),
             messages' = messages
      PROVE  ~isGenerating' => NonePending(messages')
    <2>1. /\ net'.isStreaming = net.isStreaming
          /\ net'.isRequesting = (IF net.current = n THEN FALSE ELSE net.isRequesting)
        BY <1>3, SettledNet
    <2>2. ~net.isStreaming /\ (net.isRequesting => net.current # n)
        BY <1>1, <1>3 DEF NetFits
    <2> QED BY <1>2, <1>3, <2>1, <2>2 DEF isGenerating
<1>4. CASE PlainAnswers
    <2>1. /\ Mounted
          /\ UNCHANGED <<config, page, editing, buffer, stored, detached, sends, overlapped, swallowed, unkept>>
        BY <1>4 DEF PlainAnswers, history
    <2>2. PICK n \in net.inflight :
            /\ net' = Settled(n, net.isRequesting)
            /\ IF n \in net.aborted THEN UNCHANGED <<messages, saving, delivered>>
               ELSE /\ messages' = applyChatCompletionResponse(messages, n) /\ saving' = TRUE
                    /\ delivered' = [delivered EXCEPT ![n] = << <<n, 1>> >>]
        BY <1>4 DEF PlainAnswers, updateMessages
    <2>3. /\ net' \in NetType /\ NetFits(net', config, sends)
          /\ net'.isStreaming = net.isStreaming
        BY <2>2, SettledNet
    <2>4. n \in 0 .. MaxSends /\ n \in Nat /\ << <<n, 1>> >> \in Texts
        <3>1. n \in 0 .. MaxSends /\ n \in Nat /\ 1 <= MaxChunks
            BY <1>1, PlaygroundAssumption DEF NetType
        <3>2. << <<n, 1>> >> \in Seq(Nat \X Nat) /\ Len(<< <<n, 1>> >>) = 1
            BY <3>1
        <3> QED BY <3>1, <3>2 DEF Texts
    <2>5. delivered' \in [0 .. MaxSends -> Texts] /\ saving' \in BOOLEAN
        BY <1>1, <2>2, <2>4
    <2>6. Conversation(messages', sends) /\ (~isGenerating' => NonePending(messages'))
        <3>1. CASE n \in net.aborted
            BY <1>1, <1>3, <2>2, <3>1
        <3>2. CASE n \notin net.aborted
            <4>1. /\ Conversation(applyChatCompletionResponse(messages, n), sends)
                  /\ NonePending(applyChatCompletionResponse(messages, n))
                BY <1>1, <2>4, Final
            <4> QED BY <2>2, <3>2, <4>1
        <3> QED BY <3>1, <3>2
    <2> QED BY <2>1, <2>3, <2>5, <2>6, QuietStep
<1>5. CASE PlainFails
    <2>1. /\ Mounted
          /\ UNCHANGED <<config, page, editing, stored, detached, sends, delivered, overlapped, swallowed, unkept>>
        BY <1>5 DEF PlainFails, history
    <2>2. PICK n \in net.inflight :
            IF n \in net.aborted
            THEN net' = Settled(n, net.isRequesting) /\ UNCHANGED <<messages, saving, buffer>>
            ELSE /\ net' = Settled(n, FALSE) /\ buffer' = EmptyBuffer
                 /\ messages' = updateAssistantMessageWithError(Flushed(messages)) /\ saving' = TRUE
        BY <1>5 DEF PlainFails, updateMessages
    <2>3. /\ net' \in NetType /\ NetFits(net', config, sends)
          /\ net'.isStreaming = net.isStreaming
        <3>1. PICK requesting \in {net.isRequesting, FALSE} : net' = Settled(n, requesting)
            BY <2>2
        <3> QED BY <3>1, SettledNet
    <2>4. /\ saving' \in BOOLEAN /\ delivered' \in [0 .. MaxSends -> Texts]
          /\ buffer' = EmptyBuffer \/ (buffer' = buffer /\ net'.isStreaming = net.isStreaming)
        BY <1>1, <2>1, <2>2, <2>3
    <2>5. Conversation(messages', sends) /\ (~isGenerating' => NonePending(messages'))
        <3>1. CASE n \in net.aborted
            BY <1>1, <1>3, <2>2, <3>1
        <3>2. CASE n \notin net.aborted
            <4>1. Conversation(Flushed(messages), sends)
                BY <1>1, FlushedConversation
            <4> QED BY <1>1, <2>2, <3>2, <4>1, Final
        <3> QED BY <3>1, <3>2
    <2> QED BY <2>1, <2>3, <2>4, <2>5, QuietStep
<1> QED BY <1>4, <1>5

\* SaveTimer.
LEMMA SaveStep ==
    ASSUME PlayInv, SaveTimer
    PROVE  PlayInv'
<1>1. /\ sends \in Nat /\ sends \in 0 .. MaxSends /\ Conversation(messages, sends)
      /\ delivered \in [0 .. MaxSends -> Texts] /\ overlapped \in BOOLEAN
      /\ net \in NetType /\ NetFits(net, config, sends)
      /\ editing \in Keys \cup {NoKey} /\ editing[2] <= sends
      /\ buffer \in [pending : Seq(Nat \X Nat), timer : BOOLEAN]
      /\ buffer.timer = (buffer.pending # <<>>)
    BY PlayFacts DEF PlayInv, PlayTypes
<1>2. /\ ~isGenerating => NonePending(messages)
      /\ buffer.pending # <<>> => net.isStreaming
    BY PlayFacts
<1>3. /\ Mounted /\ stored' \in {stored, trimMessages(messages)} /\ saving' = FALSE /\ unkept' \in BOOLEAN
      /\ UNCHANGED <<config, page, messages, editing, net, buffer, detached, sends, delivered,
                     overlapped, swallowed>>
    BY DEF SaveTimer, saveMessages
<1>4. Conversation(stored', sends') /\ Len(stored') <= MaxStored
    BY <1>1, <1>3, PlayFacts, Trimmed DEF PlayInv, PlayTypes
<1>5. /\ Conversation(messages', sends') /\ (~isGenerating' => NonePending(messages'))
      /\ (buffer'.pending # <<>> => net'.isStreaming)
    BY <1>1, <1>2, <1>3 DEF isGenerating
<1> QED BY <1>1, <1>3, <1>4, <1>5, PageKeeps

\* OpenPage, LeavePage, CloseTab and DetachedReports.
LEMMA PageSteps ==
    ASSUME PlayInv, OpenPage \/ LeavePage \/ CloseTab \/ DetachedReports
    PROVE  PlayInv'
<1>1. /\ sends \in Nat /\ Conversation(messages, sends) /\ Conversation(stored, sends)
      /\ stored \in Seq(MessageType) /\ messages \in Seq(MessageType)
      /\ page \in [open : BOOLEAN, opens : 0 .. MaxOpens] /\ NetFits(net, config, sends)
    BY PlayFacts DEF PlayInv, PlayTypes, Conversation
<1>2. ASSUME NEW ms, Conversation(ms, sends) PROVE ms \in Seq(MessageType)
    BY <1>2 DEF Conversation
<1>6. Len(stored) <= MaxStored
    BY DEF PlayInv, PlayTypes
<1>3. CASE OpenPage
    <2>1. /\ page' = [open |-> TRUE, opens |-> page.opens + 1] /\ page.opens < MaxOpens /\ ~Mounted
          /\ UNCHANGED <<config, editing, net, buffer, saving, detached, sends, delivered,
                         overlapped, swallowed>>
          /\ LoadSucceeds \/ LoadFails
        BY <1>3 DEF OpenPage
    <2>2. /\ Conversation(messages', sends) /\ NonePending(messages')
          /\ Conversation(stored', sends) /\ Len(stored') <= MaxStored /\ unkept' \in BOOLEAN
        <3>1. CASE LoadSucceeds
            <4>1. PICK size \in 1 .. MaxStored, failed \in BOOLEAN :
                    /\ messages' = loadMessages(size) /\ unkept' = failed
                    /\ stored' = IF failed THEN stored ELSE trimMessages(loadMessages(size))
                BY <3>1 DEF LoadSucceeds, saveMessages
            <4>2. /\ Conversation(loadMessages(size), sends) /\ NonePending(loadMessages(size))
                BY <1>1, Loaded
            <4>3. /\ Conversation(trimMessages(loadMessages(size)), sends)
                  /\ Len(trimMessages(loadMessages(size))) <= MaxStored
                BY <1>1, <4>2, Trimmed
            <4> QED BY <1>1, <1>6, <4>1, <4>2, <4>3
        <3>2. CASE LoadFails
            <4>1. Conversation(<<>>, sends) /\ NonePending(<<>>) /\ Len(<<>>) <= MaxStored
                BY <1>1, NoNetTypes, PlaygroundAssumption
            <4> QED BY <1>1, <1>6, <3>2, <4>1 DEF LoadFails
        <3> QED BY <2>1, <3>1, <3>2
    <2>3. page' \in [open : BOOLEAN, opens : 0 .. MaxOpens] /\ page'.open
        BY <1>1, <2>1, PlaygroundAssumption
    <2>4. PlayTypes'
        BY <1>2, <2>1, <2>2, <2>3 DEF PlayInv, PlayTypes
    <2>5. NetInv'
        BY <2>1, <2>3 DEF PlayInv, NetInv, NetFits, Mounted
    <2>6. PendingInv'
        BY <2>1, <2>2 DEF PlayInv, PendingInv, isGenerating, Conversation, KeysKnown, LastOnly, NonePending
    <2> QED BY <2>4, <2>5, <2>6 DEF PlayInv
<1>4. ASSUME Unmounted, Conversation(stored', sends), Len(stored') <= MaxStored,
             detached' \subseteq detached \cup {messages}, UNCHANGED <<config, sends>>
      PROVE  PlayInv'
    <2>1. /\ page' \in [open : BOOLEAN, opens : 0 .. MaxOpens] /\ ~page'.open
          /\ messages' = <<>> /\ editing' = NoKey /\ net' = NoNet /\ buffer' = EmptyBuffer
          /\ saving' = FALSE /\ delivered' = NothingDelivered /\ overlapped' = FALSE
          /\ swallowed' = {} /\ unkept' = FALSE
        BY <1>1, <1>4 DEF Unmounted
    <2>2. \A ms \in detached' : Conversation(ms, sends)
        BY <1>1, <1>4 DEF PlayInv, PendingInv
    <2>3. PlayTypes'
        <3>1. <<>> \in Seq(MessageType) /\ detached' \subseteq Seq(MessageType)
            BY <1>2, <2>2
        <3> QED BY <1>2, <1>4, <2>1, <3>1, NoNetTypes DEF PlayInv, PlayTypes
    <2>4. NetInv'
        BY <1>1, <1>4, <2>1, NoNetTypes DEF NetInv, NetFits, NoNet
    <2>5. PendingInv'
        BY <1>1, <1>4, <2>1, <2>2, NoNetTypes
        DEF PendingInv, Conversation, KeysKnown, LastOnly, NonePending
    <2> QED BY <2>3, <2>4, <2>5 DEF PlayInv
<1>5. Conversation(trimMessages(messages), sends) /\ Len(trimMessages(messages)) <= MaxStored
    BY <1>1, Trimmed
<1>7. CASE LeavePage
    BY <1>1, <1>4, <1>5, <1>6, <1>7 DEF LeavePage, saveMessages
<1>8. CASE CloseTab
    BY <1>1, <1>4, <1>6, <1>8 DEF CloseTab
<1>9. CASE DetachedReports
    <2>1. PICK ms \in detached :
            /\ detached' = detached \ {ms}
            /\ \/ UNCHANGED <<stored, unkept>>
               \/ /\ \E status \in {"streaming", "complete", "error"} :
                        stored' = trimMessages(updateLastAssistantMessage(ms,
                                    [Last(ms) EXCEPT !.status = status, !.text = OtherText]))
                  /\ unkept' = Mounted
        BY <1>9 DEF DetachedReports, saveMessages
    <2>2. UNCHANGED <<config, page, messages, editing, net, buffer, saving, sends, delivered,
                       overlapped, swallowed>>
        BY <1>9 DEF DetachedReports
    <2>3. Conversation(ms, sends)
        BY DEF PlayInv, PendingInv
    <2>4. ASSUME NEW status \in {"streaming", "complete", "error"}
          PROVE  Conversation(updateLastAssistantMessage(ms,
                                    [Last(ms) EXCEPT !.status = status, !.text = OtherText]), sends)
        <3> DEFINE u == [Last(ms) EXCEPT !.status = status, !.text = OtherText]
        <3>1. HasAnswer(ms) => Last(ms) \in MessageType
            BY <2>3, LastOf DEF HasAnswer, Conversation
        <3>2. HasAnswer(ms) => u \in MessageType /\ u.key = Last(ms).key
            BY <3>1, PageTexts DEF MessageType
        <3> HIDE DEF u
        <3>3. Conversation(updateLastAssistantMessage(ms, u), sends)
            BY <1>1, <2>3, <3>2, AnswerWritten
        <3> QED BY <3>3 DEF u
    <2>5. Conversation(stored', sends) /\ Len(stored') <= MaxStored /\ unkept' \in BOOLEAN
        <3>1. unkept' \in BOOLEAN
            BY <1>1, <2>1 DEF PlayInv, PlayTypes, Mounted
        <3> QED BY <1>1, <1>6, <2>1, <2>4, <3>1, Trimmed
    <2>6. \A m \in detached' : Conversation(m, sends)
        BY <2>1 DEF PlayInv, PendingInv
    <2>7. PlayTypes'
        BY <1>2, <2>2, <2>5, <2>6 DEF PlayInv, PlayTypes
    <2>8. NetInv'
        BY <2>2 DEF PlayInv, NetInv, NetFits, Mounted
    <2>9. PendingInv'
        BY <2>2, <2>5, <2>6
        DEF PlayInv, PendingInv, isGenerating, Conversation, KeysKnown, LastOnly, NonePending
    <2> QED BY <2>7, <2>8, <2>9 DEF PlayInv
<1> QED BY <1>3, <1>7, <1>8, <1>9

\* Every step keeps the invariant.
LEMMA PlayNext == PlayInv /\ [Next]_playgroundVars => PlayInv'
<1> SUFFICES ASSUME PlayInv, [Next]_playgroundVars PROVE PlayInv'
    OBVIOUS
<1>1. CASE handleSendMessage \/ handleRegenerateMessage \/ SubmitEdit
    <2>1. Mounted
        BY <1>1 DEF handleSendMessage, handleRegenerateMessage, SubmitEdit
    <2>2. PICK ms : /\ sendChat(ms) /\ Asks(ms, sends) /\ sends < MaxSends
                    /\ editing' = editing \/ editing' = NoKey
        BY <1>1, <2>1, SendAsks, RegenerateAsks, SubmitAsks
    <2>3. Conversation(ms, sends + 1)
        BY <2>2, AsksConversation
    <2>4. editing' \in Keys \cup {NoKey} /\ editing'[2] <= sends
        BY <2>2, PlayFacts, NoNetTypes
    <2> QED BY <2>1, <2>2, <2>3, <2>4, SendKeeps
<1>2. CASE UNCHANGED playgroundVars
    BY <1>2
    DEF playgroundVars, PlayInv, PlayTypes, NetInv, NetFits, PendingInv, isGenerating, Mounted,
        Conversation, KeysKnown, LastOnly, NonePending
<1> QED BY <1>1, <1>2, EditSteps, StopStep, StreamEndSteps, StreamRunSteps, PlainSteps, SaveStep, PageSteps
    DEF Next, UserActs, StreamReports, PlainReports

\* The inductive invariant holds in every state of the playground, whatever the
\* order of the user's actions, the events of the requests and the two timers.
THEOREM PlaySound == PlaygroundSpec => []PlayInv
BY PlayInit, PlayNext, PTL DEF PlaygroundSpec

\* A message that shows a spinner is the last one, and the page is generating,
\* so that Stop is offered: through late timers, stops (stopGeneration), edits
\* submitted while an answer runs, and loads, which repair one pending message
\* (sanitizeMessagesOnLoad).
THEOREM PendingIsStoppable == PlaygroundSpec => []PendingCanBeStopped
<1>1. PlayInv => PendingCanBeStopped
    BY DEF PlayInv, PendingInv, Conversation, LastOnly, NonePending, PendingCanBeStopped
<1> QED BY <1>1, PlaySound, PTL

-----------------------------------------------------------------------------
(* What is shown is kept                                                   *)

\* Every step that changes the conversation sets the save timer, except the
\* load, which saves at once.
LEMMA ShownNext == PlayInv /\ ShownIsKept /\ [Next]_playgroundVars => ShownIsKept'
<1> SUFFICES ASSUME PlayInv, ShownIsKept, [Next]_playgroundVars PROVE ShownIsKept'
    OBVIOUS
<1>1. CASE saving' = TRUE
    BY <1>1 DEF ShownIsKept
<1>2. CASE UNCHANGED <<page, messages, saving, stored, unkept>>
    BY <1>2 DEF ShownIsKept, Mounted, trimMessages, KeepLast
<1>3. ASSUME NEW ms, sendChat(ms) PROVE saving' = TRUE
    BY <1>3 DEF sendChat, sendStreamingChat, sendNonStreamingChat, updateMessages
<1>4. CASE OpenPage
    <2>1. CASE LoadSucceeds
        BY <2>1 DEF LoadSucceeds, saveMessages, ShownIsKept, trimMessages, KeepLast
    <2>2. CASE LoadFails
        <3>1. trimMessages(<<>>) = <<>>
            BY NoNetTypes, Trimmed, PlaygroundAssumption
        <3>2. messages' = <<>> /\ (unkept' \/ stored' = <<>>)
            BY <2>2 DEF LoadFails
        <3> QED BY <3>1, <3>2 DEF ShownIsKept, trimMessages, KeepLast
    <2> QED BY <1>4, <2>1, <2>2 DEF OpenPage
<1>5. CASE LeavePage \/ CloseTab
    <2>1. ~page'.open
        BY <1>5 DEF LeavePage, CloseTab, Unmounted, PlayInv, PlayTypes
    <2> QED BY <2>1 DEF ShownIsKept, Mounted
<1>6. CASE SaveTimer
    BY <1>6 DEF SaveTimer, saveMessages, ShownIsKept, trimMessages, KeepLast
<1>7. CASE DetachedReports
    <2>1. \/ UNCHANGED <<page, messages, saving, stored, unkept>>
          \/ UNCHANGED <<page, messages, saving>> /\ unkept' = Mounted
        BY <1>7 DEF DetachedReports
    <2> QED BY <1>2, <2>1 DEF ShownIsKept, Mounted
<1>8. CASE UserActs
    <2>1. CASE handleSendMessage \/ handleRegenerateMessage \/ SubmitEdit
        BY <1>1, <1>3, <2>1 DEF handleSendMessage, handleRegenerateMessage, SubmitEdit
    <2>2. CASE handleEditMessage \/ handleEditOpenChange
        BY <1>2, <2>2 DEF handleEditMessage, handleEditOpenChange, history
    <2>3. CASE SaveEdit \/ handleDeleteMessage \/ handleClearMessages \/ stopGeneration
        BY <1>1, <2>3 DEF SaveEdit, handleDeleteMessage, handleClearMessages, stopGeneration, updateMessages
    <2> QED BY <1>4, <1>5, <1>8, <2>1, <2>2, <2>3 DEF UserActs
<1>9. CASE StreamReports \/ PlainReports \/ flushStreamUpdates
    <2>1. CASE handleStreamUpdate \/ StreamHangs
        BY <1>2, <2>1 DEF handleStreamUpdate, StreamHangs, history
    <2>2. CASE handleStreamComplete \/ handleStreamError
        BY <1>1, <2>2 DEF handleStreamComplete, handleStreamError, updateMessages
    <2>3. CASE flushStreamUpdates
        BY <1>1, <1>2, <2>3 DEF flushStreamUpdates, updateMessages, history
    <2>4. CASE PlainReports
        BY <1>1, <1>2, <2>4 DEF PlainReports, PlainAnswers, PlainFails, updateMessages, history
    <2> QED BY <1>9, <2>1, <2>2, <2>3, <2>4 DEF StreamReports
<1>10. CASE UNCHANGED playgroundVars
    BY <1>2, <1>10 DEF playgroundVars
<1> QED BY <1>6, <1>7, <1>8, <1>9, <1>10 DEF Next

\* What is shown is what localStorage keeps, unless a save is due
\* (persistMessages), the last save or load failed (saveMessages, loadMessages)
\* or a page that was left has written over it: no step of the page changes the
\* conversation without setting the timer or saving.
THEOREM ShownIsAlwaysKept == PlaygroundSpec => []ShownIsKept
<1>1. Init => ShownIsKept
    BY DEF Init, ShownIsKept, Mounted
<1> QED BY <1>1, PlaySound, ShownNext, PTL DEF PlaygroundSpec

-----------------------------------------------------------------------------
(* Chunks and the buffer                                                   *)

Letter == Nat \X Nat

\* A text of letters of request n only.
OfRequest(n, text) == \A i \in DOMAIN text : text[i][1] = n

\* Two sequences of letters with equal letters are equal.
LEMMA SameLetters ==
    ASSUME NEW s \in Seq(Letter), NEW t \in Seq(Letter), Len(s) = Len(t),
           \A i \in 1 .. Len(s) : s[i] = t[i]
    PROVE  s = t
OBVIOUS

\* The letters of two sequences, one after the other.
LEMMA Joined ==
    ASSUME NEW s \in Seq(Letter), NEW t \in Seq(Letter)
    PROVE  /\ s \o t \in Seq(Letter) /\ Len(s \o t) = Len(s) + Len(t)
           /\ \A i \in 1 .. Len(s) : (s \o t)[i] = s[i]
           /\ \A i \in 1 .. Len(t) : (s \o t)[Len(s) + i] = t[i]
           /\ \A i \in Len(s) + 1 .. Len(s) + Len(t) : (s \o t)[i] = t[i - Len(s)]
           /\ s = <<>> => s \o t = t
OBVIOUS

\* Prefixes.
LEMMA PrefixOf ==
    ASSUME NEW s \in Seq(Letter), NEW t \in Seq(Letter)
    PROVE  IsPrefix(s, t) <=> Len(s) <= Len(t) /\ \A i \in 1 .. Len(s) : s[i] = t[i]
<1>0. Len(s) \in Nat /\ Len(t) \in Nat
    OBVIOUS
<1> DEFINE p == SubSeq(s, 1, Len(s))
           q == SubSeq(t, 1, Len(s))
<1>1. p \in Seq(Letter) /\ Len(p) = Len(s) /\ \A i \in 1 .. Len(s) : p[i] = s[i]
    BY <1>0
<1>2. CASE Len(s) <= Len(t)
    <2>1. q \in Seq(Letter) /\ Len(q) = Len(s) /\ \A i \in 1 .. Len(s) : q[i] = t[i]
        BY <1>0, <1>2
    <2>2. IsPrefix(s, t) <=> p = q
        BY <1>2 DEF IsPrefix
    <2> HIDE DEF p, q
    <2>3. p = q <=> \A i \in 1 .. Len(s) : s[i] = t[i]
        BY <1>1, <2>1, SameLetters
    <2> QED BY <1>2, <2>2, <2>3
<1>3. CASE ~(Len(s) <= Len(t))
    BY <1>3 DEF IsPrefix
<1> QED BY <1>2, <1>3

\* Three texts, one after the other.
LEMMA JoinedThree ==
    ASSUME NEW s \in Seq(Letter), NEW t \in Seq(Letter), NEW u \in Seq(Letter)
    PROVE  s \o (t \o u) = (s \o t) \o u
<1> DEFINE tu == t \o u
           st == s \o t
           a == s \o tu
           b == st \o u
<1>1. /\ tu \in Seq(Letter) /\ Len(tu) = Len(t) + Len(u)
      /\ \A i \in 1 .. Len(t) : tu[i] = t[i]
      /\ \A i \in Len(t) + 1 .. Len(t) + Len(u) : tu[i] = u[i - Len(t)]
    BY Joined
<1>2. /\ st \in Seq(Letter) /\ Len(st) = Len(s) + Len(t)
      /\ \A i \in 1 .. Len(s) : st[i] = s[i]
      /\ \A i \in Len(s) + 1 .. Len(s) + Len(t) : st[i] = t[i - Len(s)]
    BY Joined
<1> HIDE DEF tu, st
<1>3. /\ a \in Seq(Letter) /\ Len(a) = Len(s) + Len(tu)
      /\ \A i \in 1 .. Len(s) : a[i] = s[i]
      /\ \A i \in Len(s) + 1 .. Len(s) + Len(tu) : a[i] = tu[i - Len(s)]
    BY <1>1, Joined
<1>4. /\ b \in Seq(Letter) /\ Len(b) = Len(st) + Len(u)
      /\ \A i \in 1 .. Len(st) : b[i] = st[i]
      /\ \A i \in Len(st) + 1 .. Len(st) + Len(u) : b[i] = u[i - Len(st)]
    BY <1>2, Joined
<1> HIDE DEF a, b
<1>5. Len(s) \in Nat /\ Len(t) \in Nat /\ Len(u) \in Nat
    OBVIOUS
<1>6. Len(a) = Len(b) /\ Len(a) = Len(s) + Len(t) + Len(u)
    BY <1>1, <1>2, <1>3, <1>4, <1>5
<1>7. ASSUME NEW i \in 1 .. Len(a) PROVE a[i] = b[i]
    <2>1. CASE i <= Len(s)
        BY <1>2, <1>3, <1>4, <1>5, <2>1
    <2>2. CASE ~(i <= Len(s)) /\ i <= Len(s) + Len(t)
        <3>1. a[i] = tu[i - Len(s)] /\ i - Len(s) \in 1 .. Len(t)
            BY <1>1, <1>3, <1>5, <1>6, <2>2
        <3>2. b[i] = st[i] /\ i \in Len(s) + 1 .. Len(s) + Len(t)
            BY <1>2, <1>4, <1>5, <1>6, <2>2
        <3> QED BY <1>1, <1>2, <3>1, <3>2
    <2>3. CASE ~(i <= Len(s) + Len(t))
        <3>1. a[i] = tu[i - Len(s)] /\ i - Len(s) \in Len(t) + 1 .. Len(t) + Len(u)
            BY <1>1, <1>3, <1>5, <1>6, <2>3
        <3>2. b[i] = u[i - Len(st)] /\ i - Len(st) = (i - Len(s)) - Len(t)
            <4>1. i \in Len(st) + 1 .. Len(st) + Len(u) /\ i \in Nat
                BY <1>2, <1>5, <1>6, <2>3
            <4>2. i - Len(st) = (i - Len(s)) - Len(t)
                BY <1>2, <1>5, <4>1
            <4> QED BY <1>4, <4>1, <4>2
        <3>3. tu[i - Len(s)] = u[(i - Len(s)) - Len(t)]
            BY <1>1, <3>1
        <3> QED BY <3>1, <3>2, <3>3
    <2> QED BY <2>1, <2>2, <2>3
<1>8. a = b
    BY <1>3, <1>4, <1>6, <1>7, SameLetters
<1> QED BY <1>8 DEF a, b, tu, st

\* Letters of one request, one text after the other.
LEMMA OfRequestJoined ==
    ASSUME NEW n, NEW s \in Seq(Letter), NEW t \in Seq(Letter), OfRequest(n, s), OfRequest(n, t)
    PROVE  OfRequest(n, s \o t)
<1> DEFINE r == s \o t
<1>1. /\ r \in Seq(Letter) /\ Len(r) = Len(s) + Len(t) /\ Len(s) \in Nat /\ Len(t) \in Nat
      /\ \A i \in 1 .. Len(s) : r[i] = s[i]
      /\ \A i \in Len(s) + 1 .. Len(s) + Len(t) : r[i] = t[i - Len(s)]
    BY Joined
<1>2. DOMAIN s = 1 .. Len(s) /\ DOMAIN t = 1 .. Len(t) /\ DOMAIN r = 1 .. Len(r)
    BY <1>1
<1> HIDE DEF r
<1>3. ASSUME NEW i \in DOMAIN r PROVE r[i][1] = n
    <2>1. CASE i <= Len(s)
        <3>1. i \in DOMAIN s /\ r[i] = s[i]
            BY <1>1, <1>2, <2>1
        <3> QED BY <3>1 DEF OfRequest
    <2>2. CASE ~(i <= Len(s))
        <3>1. i - Len(s) \in DOMAIN t /\ r[i] = t[i - Len(s)]
            BY <1>1, <1>2, <2>2
        <3> QED BY <3>1 DEF OfRequest
    <2> QED BY <2>1, <2>2
<1> QED BY <1>3 DEF OfRequest, r

\* How the text shown and the text pending relate to the text d that request n
\* has delivered.  A provider that sends snapshots has its latest one pending, or
\* shown; of one that sends deltas, text is missing only if some was swallowed.
Fits(snapshots, n, text, pending, d, lost) ==
    /\ text \in Seq(Letter) /\ pending \in Seq(Letter) /\ d \in Seq(Letter)
    /\ OfRequest(n, text) /\ OfRequest(n, pending) /\ OfRequest(n, d)
    /\ IF snapshots THEN IF pending = <<>> THEN text = d ELSE pending = d /\ IsPrefix(text, d)
       ELSE Len(text) + Len(pending) <= Len(d) /\ (lost \/ text \o pending = d)

\* The beginning of a text that grows.
LEMMA PrefixGrows ==
    ASSUME NEW s \in Seq(Letter), NEW d \in Seq(Letter), NEW letter \in Letter, IsPrefix(s, d)
    PROVE  IsPrefix(s, Append(d, letter))
<1> DEFINE e == Append(d, letter)
<1>1. /\ e \in Seq(Letter) /\ Len(e) = Len(d) + 1 /\ Len(d) \in Nat /\ Len(s) \in Nat
      /\ \A i \in 1 .. Len(d) : e[i] = d[i]
    OBVIOUS
<1> HIDE DEF e
<1>2. Len(s) <= Len(d) /\ \A i \in 1 .. Len(s) : s[i] = d[i]
    BY PrefixOf
<1>3. Len(s) <= Len(e) /\ \A i \in 1 .. Len(s) : s[i] = e[i]
    BY <1>1, <1>2
<1>4. IsPrefix(s, e)
    BY <1>1, <1>3, PrefixOf
<1> QED BY <1>4 DEF e

\* A chunk more in the buffer.
LEMMA BufferMerges ==
    ASSUME NEW snapshots \in BOOLEAN, NEW n, NEW text, NEW pending, NEW d, NEW lost \in BOOLEAN,
           Fits(snapshots, n, text, pending, d, lost), NEW letter \in Letter, letter[1] = n,
           NEW chunk, chunk = IF snapshots THEN Append(d, letter) ELSE <<letter>>,
           NEW lost2 \in BOOLEAN, lost \/ (~snapshots /\ Repeats(pending, chunk)) => lost2
    PROVE  Fits(snapshots, n, text, mergePendingStreamChunk(pending, chunk), Append(d, letter), lost2)
<1> DEFINE e == Append(d, letter)
           one == <<letter>>
           merged == mergePendingStreamChunk(pending, chunk)
<1>1. /\ text \in Seq(Letter) /\ pending \in Seq(Letter) /\ d \in Seq(Letter)
      /\ OfRequest(n, text) /\ OfRequest(n, pending) /\ OfRequest(n, d)
    BY DEF Fits
<1>2. /\ one \in Seq(Letter) /\ Len(one) = 1 /\ OfRequest(n, one)
    <2>1. one \in Seq(Letter) /\ Len(one) = 1 /\ one[1] = letter /\ DOMAIN one = {1}
        OBVIOUS
    <2> HIDE DEF one
    <2> QED BY <2>1 DEF OfRequest
<1>3. e = d \o one /\ e \in Seq(Letter) /\ Len(e) = Len(d) + 1 /\ e # <<>>
    <2>1. e = d \o one
        BY <1>1
    <2>2. e \in Seq(Letter) /\ Len(e) = Len(d) + 1 /\ Len(d) \in Nat
        BY <1>1
    <2> QED BY <2>1, <2>2
<1> HIDE DEF one
<1>4. OfRequest(n, e)
    BY <1>1, <1>2, <1>3, OfRequestJoined
<1>5. CASE snapshots
    <2>1. chunk = e
        BY <1>5
    <2> HIDE DEF e
    <2>2. CASE pending = <<>>
        <3>1. merged = e
            BY <1>1, <1>3, <2>1, <2>2, Joined DEF mergePendingStreamChunk, Repeats
        <3>2. text = d
            BY <1>5, <2>2 DEF Fits
        <3>3. IsPrefix(d, d)
            BY <1>1, PrefixOf
        <3>4. IsPrefix(text, e)
            BY <1>1, <3>2, <3>3, PrefixGrows DEF e
        <3> QED BY <1>1, <1>3, <1>4, <1>5, <3>1, <3>4 DEF Fits, e
    <2>3. CASE pending # <<>>
        <3>1. pending = d /\ IsPrefix(text, d)
            BY <1>5, <2>3 DEF Fits
        <3>2. IsPrefix(d, d)
            BY <1>1, PrefixOf
        <3>3. IsPrefix(d, e) /\ IsPrefix(text, e)
            BY <1>1, <3>1, <3>2, PrefixGrows DEF e
        <3>4. merged = e
            BY <2>1, <2>3, <3>1, <3>3 DEF mergePendingStreamChunk, Repeats
        <3> QED BY <1>1, <1>3, <1>4, <1>5, <3>3, <3>4 DEF Fits, e
    <2> QED BY <2>2, <2>3
<1>6. CASE ~snapshots
    <2>1. chunk = one /\ Len(text) + Len(pending) <= Len(d) /\ (lost \/ text \o pending = d)
        BY <1>6 DEF Fits, one
    <2>2. Len(text) \in Nat /\ Len(pending) \in Nat /\ Len(d) \in Nat
        BY <1>1
    <2>3. CASE Repeats(pending, chunk)
        <3>1. merged = one /\ lost2
            BY <1>6, <2>1, <2>3 DEF mergePendingStreamChunk
        <3> HIDE DEF e, merged
        <3>2. Len(text) + Len(one) <= Len(e)
            BY <1>2, <1>3, <2>1, <2>2
        <3> QED BY <1>1, <1>2, <1>3, <1>4, <1>6, <3>1, <3>2 DEF Fits, e, merged
    <2>4. CASE ~Repeats(pending, chunk)
        <3>1. merged = pending \o one
            BY <2>1, <2>4 DEF mergePendingStreamChunk
        <3> HIDE DEF e, merged
        <3>2. /\ merged \in Seq(Letter) /\ Len(merged) = Len(pending) + 1 /\ OfRequest(n, merged)
            <4>1. merged \in Seq(Letter) /\ Len(merged) = Len(pending) + Len(one)
                BY <1>1, <1>2, <3>1, Joined
            <4>2. OfRequest(n, merged)
                BY <1>1, <1>2, <3>1, OfRequestJoined
            <4> QED BY <1>2, <4>1, <4>2
        <3>3. Len(text) + Len(merged) <= Len(e)
            BY <1>3, <2>1, <2>2, <3>2
        <3>4. text \o pending = d => text \o merged = e
            <4>1. text \o (pending \o one) = (text \o pending) \o one
                BY <1>1, <1>2, JoinedThree
            <4> QED BY <1>3, <3>1, <4>1
        <3> QED BY <1>1, <1>3, <1>4, <1>6, <2>1, <3>2, <3>3, <3>4 DEF Fits, e, merged
    <2> QED BY <2>3, <2>4
<1> QED BY <1>5, <1>6

\* Flushing the buffer into a text.
LEMMA BufferFlushes ==
    ASSUME NEW snapshots \in BOOLEAN, NEW n, NEW text, NEW pending, NEW d, NEW lost \in BOOLEAN,
           Fits(snapshots, n, text, pending, d, lost), pending # <<>>,
           NEW lost2 \in BOOLEAN, lost \/ (~snapshots /\ Repeats(text, pending)) => lost2
    PROVE  Fits(snapshots, n, text \o getAppendableChunk(text, pending), <<>>, d, lost2)
<1> DEFINE rest == SubSeq(pending, Len(text) + 1, Len(pending))
           r == text \o getAppendableChunk(text, pending)
<1>1. /\ text \in Seq(Letter) /\ pending \in Seq(Letter) /\ d \in Seq(Letter)
      /\ OfRequest(n, text) /\ OfRequest(n, pending) /\ OfRequest(n, d)
      /\ Len(text) \in Nat /\ Len(pending) \in Nat /\ Len(d) \in Nat
    BY DEF Fits
<1>2. <<>> \in Seq(Letter) /\ OfRequest(n, <<>>) /\ Len(<<>>) = 0
    BY DEF OfRequest
<1>3. ASSUME Repeats(text, pending)
      PROVE  /\ r = pending
    <2>1. Len(text) <= Len(pending) /\ \A i \in 1 .. Len(text) : text[i] = pending[i]
        BY <1>1, <1>3, PrefixOf DEF Repeats
    <2>2. /\ rest \in Seq(Letter) /\ Len(rest) = Len(pending) - Len(text)
          /\ \A i \in 1 .. Len(pending) - Len(text) : rest[i] = pending[Len(text) + i]
        BY <1>1, <2>1
    <2>3. r = text \o rest
        BY <1>3 DEF getAppendableChunk
    <2> HIDE DEF rest, r
    <2>4. /\ r \in Seq(Letter) /\ Len(r) = Len(text) + Len(rest)
          /\ \A i \in 1 .. Len(text) : r[i] = text[i]
          /\ \A i \in Len(text) + 1 .. Len(text) + Len(rest) : r[i] = rest[i - Len(text)]
        BY <1>1, <2>2, <2>3, Joined
    <2>5. Len(r) = Len(pending)
        BY <1>1, <2>1, <2>2, <2>4
    <2>6. ASSUME NEW i \in 1 .. Len(r) PROVE r[i] = pending[i]
        <3>1. CASE i <= Len(text)
            BY <1>1, <2>1, <2>4, <3>1
        <3>2. CASE ~(i <= Len(text))
            <4>1. /\ i \in Len(text) + 1 .. Len(text) + Len(rest)
                  /\ i - Len(text) \in 1 .. Len(pending) - Len(text) /\ Len(text) + (i - Len(text)) = i
                BY <1>1, <2>1, <2>2, <2>5, <3>2
            <4>2. r[i] = rest[i - Len(text)]
                BY <2>4, <4>1
            <4>3. rest[i - Len(text)] = pending[Len(text) + (i - Len(text))]
                BY <2>2, <4>1
            <4> QED BY <4>1, <4>2, <4>3
        <3> QED BY <3>1, <3>2
    <2> QED BY <1>1, <2>4, <2>5, <2>6, SameLetters
<1>4. ASSUME ~Repeats(text, pending) PROVE r = text \o pending
    BY <1>4 DEF getAppendableChunk
<1> HIDE DEF r
<1>5. CASE snapshots
    <2>1. pending = d /\ IsPrefix(text, d)
        BY <1>5 DEF Fits
    <2>2. CASE text = <<>>
        <3>1. r = text \o pending
            BY <1>4, <2>2 DEF Repeats
        <3>2. r = d
            BY <1>1, <2>1, <2>2, <3>1, Joined
        <3> QED BY <1>1, <1>2, <1>5, <3>2 DEF Fits, r
    <2>3. CASE text # <<>>
        <3>1. r = d
            BY <1>3, <2>1, <2>3 DEF Repeats
        <3> QED BY <1>1, <1>2, <1>5, <3>1 DEF Fits, r
    <2> QED BY <2>2, <2>3
<1>6. CASE ~snapshots
    <2>1. Len(text) + Len(pending) <= Len(d) /\ (lost \/ text \o pending = d)
        BY <1>6 DEF Fits
    <2>2. CASE Repeats(text, pending)
        <3>1. r = pending /\ lost2 /\ Len(r) + Len(<<>>) <= Len(d)
            BY <1>1, <1>2, <1>3, <1>6, <2>1, <2>2
        <3> QED BY <1>1, <1>2, <1>6, <3>1 DEF Fits, r
    <2>3. CASE ~Repeats(text, pending)
        <3>1. r = text \o pending
            BY <1>4, <2>3
        <3>2. r \in Seq(Letter) /\ Len(r) = Len(text) + Len(pending) /\ OfRequest(n, r)
            BY <1>1, <3>1, Joined, OfRequestJoined
        <3>3. Len(r) + Len(<<>>) <= Len(d) /\ r \o <<>> = r
            BY <1>1, <1>2, <2>1, <3>2
        <3> QED BY <1>1, <1>2, <1>6, <2>1, <3>1, <3>2, <3>3 DEF Fits, r
    <2> QED BY <2>2, <2>3
<1> QED BY <1>5, <1>6

\* The text of an answer of request n that is completed.
AnswerOf(n, text, d, lost) ==
    OfRequest(n, text) /\ Len(text) <= Len(d) /\ (lost \/ text = d)

\* Once nothing is pending, the text shown is one.
LEMMA FlushedFits ==
    ASSUME NEW snapshots \in BOOLEAN, NEW n, NEW text, NEW d, NEW lost \in BOOLEAN,
           Fits(snapshots, n, text, <<>>, d, lost)
    PROVE  AnswerOf(n, text, d, lost)
<1>1. text \in Seq(Letter) /\ d \in Seq(Letter) /\ OfRequest(n, text) /\ Len(text) \in Nat /\ Len(d) \in Nat
    BY DEF Fits
<1>2. CASE snapshots
    <2>1. text = d
        BY <1>2 DEF Fits
    <2> QED BY <1>1, <2>1 DEF AnswerOf
<1>3. CASE ~snapshots
    <2>1. Len(text) + Len(<<>>) <= Len(d) /\ (lost \/ text \o <<>> = d)
        BY <1>3 DEF Fits
    <2>2. text \o <<>> = text /\ Len(<<>>) = 0
        BY <1>1
    <2> QED BY <1>1, <2>1, <2>2 DEF AnswerOf
<1> QED BY <1>2, <1>3

-----------------------------------------------------------------------------
(* The invariant of the answers                                            *)

\* A completed answer has the text of its request, or one that the user or the
\* page wrote.
Own(m, d, sw) ==
    IsAssistant(m) /\ m.status = "complete" /\ m.text # OtherText =>
        AnswerOf(m.key[2], m.text, d[m.key[2]], m.key[2] \in sw)
OwnAnswers(ms, d, sw) == \A i \in DOMAIN ms : Own(ms[i], d, sw)

\* The last message is the answer of request n, and its text and what is buffered
\* fit what n has delivered.  No other message is n's, and n's is not being
\* edited.
Writes(n, ms, pending, d, snapshots, sw, ed) ==
    /\ ms # <<>>
    /\ Last(ms).key = <<"assistant", n>> /\ isAssistantMessagePending(Last(ms))
    /\ Fits(snapshots, n, Last(ms).text, pending, d[n], n \in sw)
    /\ \A i \in DOMAIN ms : i # Len(ms) => ms[i].key # <<"assistant", n>>
    /\ ed # <<"assistant", n>>

\* The only request under way is the latest; it is a stream that is open, or a
\* plain request that is not aborted.
Runs(n, x, c, d) ==
    IF c.stream THEN x.source = n
    ELSE /\ x.current = n /\ x.abort = n /\ x.inflight \ x.aborted = {n}
         /\ x.isRequesting /\ d[n] = <<>>

Rests(x, pending) == x.source = 0 /\ x.inflight \subseteq x.aborted /\ pending = <<>>

Busy(x) == x.isStreaming \/ x.isRequesting

RequestInv ==
    IF Busy(net)
    THEN /\ sends > 0 /\ Runs(sends, net, config, delivered)
         /\ Writes(sends, messages, buffer.pending, delivered, config.snapshots, swallowed, editing)
    ELSE Rests(net, buffer.pending)

AnswerInv ==
    ~overlapped => /\ RequestInv /\ OwnAnswers(messages, delivered, swallowed)
                   /\ \A n \in 0 .. MaxSends : n > sends => delivered[n] = <<>>

\* Facts about the types of what an answer is made of.
LEMMA AnswerFacts ==
    ASSUME PlayInv
    PROVE  /\ sends \in Nat /\ sends \in 0 .. MaxSends /\ messages \in Seq(MessageType)
           /\ config.snapshots \in BOOLEAN /\ config.stream \in BOOLEAN
           /\ delivered \in [0 .. MaxSends -> Texts]
           /\ \A n \in 0 .. MaxSends : delivered[n] \in Seq(Letter) /\ n \in Nat
           /\ isGenerating = Busy(net)
<1>1. MaxSends \in Nat /\ MaxChunks \in Nat
    BY PlaygroundAssumption
<1>2. delivered \in [0 .. MaxSends -> Texts]
    BY DEF PlayInv, PlayTypes
<1>3. \A n \in 0 .. MaxSends : delivered[n] \in Seq(Letter) /\ n \in Nat
    BY <1>1, <1>2 DEF Texts, Letter
<1> QED BY <1>2, <1>3, PlayFacts DEF PlayInv, PlayTypes, isGenerating, Busy

\* Writing the last message keeps the others' texts.
LEMMA OwnWritten ==
    ASSUME NEW ms \in Seq(MessageType), NEW d, NEW sw, OwnAnswers(ms, d, sw), NEW u,
           HasAnswer(ms) => u \in MessageType /\ Own(u, d, sw)
    PROVE  OwnAnswers(updateLastAssistantMessage(ms, u), d, sw)
<1> DEFINE r == updateLastAssistantMessage(ms, u)
<1>1. /\ DOMAIN r = DOMAIN ms
      /\ HasAnswer(ms) => /\ r[Len(ms)] = u /\ \A j \in DOMAIN ms : j # Len(ms) => r[j] = ms[j]
      /\ ~HasAnswer(ms) => r = ms
    BY LastUpdated
<1> HIDE DEF r
<1>2. OwnAnswers(r, d, sw)
    BY <1>1 DEF OwnAnswers
<1> QED BY <1>2 DEF r

\* What is written at an error is no answer.
LEMMA OwnError ==
    ASSUME NEW ms \in Seq(MessageType), NEW d, NEW sw, OwnAnswers(ms, d, sw)
    PROVE  OwnAnswers(updateAssistantMessageWithError(ms), d, sw)
<1> DEFINE u == [Last(ms) EXCEPT !.status = "error", !.text = ErrorText]
<1>1. HasAnswer(ms) => Last(ms) \in MessageType
    BY LastOf DEF HasAnswer
<1>2. HasAnswer(ms) => u \in MessageType /\ u.status = "error"
    BY <1>1, PageTexts DEF MessageType
<1>3. updateAssistantMessageWithError(ms) = updateLastAssistantMessage(ms, u)
    BY DEF updateAssistantMessageWithError
<1> HIDE DEF u
<1>4. HasAnswer(ms) => Own(u, d, sw)
    BY <1>2 DEF Own
<1> QED BY <1>2, <1>3, <1>4, OwnWritten

\* Swallowing more takes nothing away.
LEMMA OwnSwallowed ==
    ASSUME NEW ms, NEW d, NEW sw, NEW sw2, sw \subseteq sw2, OwnAnswers(ms, d, sw)
    PROVE  OwnAnswers(ms, d, sw2)
BY DEF OwnAnswers, Own, AnswerOf

\* What a flush swallows, it swallows from the request that runs.
LEMMA FlushLost ==
    ASSUME PlayInv, NEW n \in 1 .. MaxSends, Runs(n, net, config, delivered), messages # <<>>
    PROVE  /\ swallowed \subseteq FlushSwallowed
           /\ ~config.snapshots /\ Repeats(Last(messages).text, buffer.pending) => n \in FlushSwallowed
<1>1. swallowed \subseteq FlushSwallowed
    BY DEF FlushSwallowed, Swallowed
<1>2. ASSUME ~config.snapshots, Repeats(Last(messages).text, buffer.pending)
      PROVE  n \in FlushSwallowed
    <2>1. Last(messages).text \in Seq(Letter) /\ buffer.pending \in Seq(Letter)
        BY AnswerFacts, PlayFacts, LastOf, MessageFields DEF Letter
    <2>2. buffer.pending # <<>>
        <3>1. Last(messages).text # <<>> /\ Len(Last(messages).text) <= Len(buffer.pending)
            BY <1>2 DEF Repeats, IsPrefix
        <3> QED BY <2>1, <3>1
    <2>3. config.stream
        BY <2>2, PlayFacts DEF NetFits
    <2>4. net.source = n
        BY <2>3 DEF Runs
    <2> QED BY <1>2, <2>4 DEF FlushSwallowed, Swallowed
<1> QED BY <1>1, <1>2

\* The buffer in the conversation that request n writes.
LEMMA FlushedAnswer ==
    ASSUME PlayInv, NEW n \in 1 .. MaxSends, Runs(n, net, config, delivered),
           Writes(n, messages, buffer.pending, delivered, config.snapshots, swallowed, editing)
    PROVE  LET ms == Flushed(messages)
           IN /\ ms \in Seq(MessageType) /\ HasAnswer(ms) /\ Len(ms) = Len(messages)
              /\ DOMAIN ms = DOMAIN messages
              /\ Last(ms).key = <<"assistant", n>> /\ isAssistantMessagePending(Last(ms))
              /\ Fits(config.snapshots, n, Last(ms).text, <<>>, delivered[n], n \in FlushSwallowed)
              /\ \A j \in DOMAIN ms : j # Len(ms) => ms[j] = messages[j]
<1> DEFINE m == Last(messages)
           d == delivered[n]
           ms == Flushed(messages)
           lost == n \in swallowed
           lost2 == n \in FlushSwallowed
<1>1. /\ messages \in Seq(MessageType) /\ config.snapshots \in BOOLEAN
      /\ buffer.pending \in Seq(Nat \X Nat) /\ lost \in BOOLEAN /\ lost2 \in BOOLEAN
    BY AnswerFacts, PlayFacts
<1>2. /\ messages # <<>> /\ m.key = <<"assistant", n>> /\ isAssistantMessagePending(m)
      /\ m \in MessageType /\ HasAnswer(messages)
    BY <1>1, LastOf DEF Writes, HasAnswer, IsAssistant
<1>3. Fits(config.snapshots, n, m.text, buffer.pending, d, lost)
    BY DEF Writes
<1>4. lost \/ (~config.snapshots /\ Repeats(m.text, buffer.pending)) => lost2
    BY <1>2, FlushLost
<1> HIDE DEF m, d, lost, lost2
<1>5. CASE buffer.pending = <<>>
    <2>1. ms = messages
        BY <1>5 DEF Flushed
    <2>2. Fits(config.snapshots, n, m.text, <<>>, d, lost2)
        BY <1>3, <1>4, <1>5 DEF Fits
    <2> QED BY <1>1, <1>2, <2>1, <2>2 DEF m, d, lost2
<1>6. CASE buffer.pending # <<>>
    <2> DEFINE u == applyStreamingChunk(m, buffer.pending)
    <2>1. ms = updateLastAssistantMessage(messages, u)
        BY <1>6 DEF Flushed, m
    <2>2. m.status # "error"
        BY <1>2 DEF isAssistantMessagePending
    <2>3. /\ u \in MessageType /\ u.key = m.key /\ u.status = "streaming"
          /\ u.text = m.text \o getAppendableChunk(m.text, buffer.pending)
        BY <1>1, <1>2, <2>2, ChunkApplied
    <2> HIDE DEF u, ms
    <2>4. Fits(config.snapshots, n, u.text, <<>>, d, lost2)
        BY <1>1, <1>3, <1>4, <1>6, <2>3, BufferFlushes
    <2>5. /\ ms \in Seq(MessageType) /\ Len(ms) = Len(messages) /\ DOMAIN ms = DOMAIN messages
          /\ ms # <<>> /\ Last(ms) = u
          /\ \A j \in DOMAIN messages : j # Len(messages) => ms[j] = messages[j]
        BY <1>1, <1>2, <2>1, <2>3, LastUpdated
    <2>6. isAssistantMessagePending(u) /\ HasAnswer(ms)
        BY <1>2, <2>3, <2>5 DEF isAssistantMessagePending, HasAnswer, IsAssistant
    <2> QED BY <1>2, <2>3, <2>4, <2>5, <2>6 DEF ms, d, lost2
<1> QED BY <1>5, <1>6

\* With the buffer in it, a conversation still has the answers of their own.
LEMMA FlushedOwn ==
    ASSUME PlayInv, RequestInv, OwnAnswers(messages, delivered, swallowed)
    PROVE  OwnAnswers(Flushed(messages), delivered, swallowed) /\ Flushed(messages) \in Seq(MessageType)
<1> DEFINE ms == Flushed(messages)
<1>1. sends \in 0 .. MaxSends /\ sends \in Nat /\ messages \in Seq(MessageType)
    BY AnswerFacts
<1>2. CASE Busy(net)
    <2>1. sends \in 1 .. MaxSends
        BY <1>1, <1>2 DEF RequestInv
    <2>2. /\ ms \in Seq(MessageType) /\ HasAnswer(ms) /\ Len(ms) = Len(messages)
          /\ DOMAIN ms = DOMAIN messages /\ isAssistantMessagePending(Last(ms))
          /\ \A j \in DOMAIN ms : j # Len(ms) => ms[j] = messages[j]
        BY <1>2, <2>1, FlushedAnswer DEF RequestInv
    <2> HIDE DEF ms
    <2>3. ms[Len(ms)].status # "complete"
        BY <2>2 DEF isAssistantMessagePending, Last
    <2>4. OwnAnswers(ms, delivered, swallowed)
        BY <2>2, <2>3 DEF OwnAnswers, Own
    <2> QED BY <2>2, <2>4 DEF ms
<1>3. CASE ~Busy(net)
    BY <1>1, <1>3 DEF RequestInv, Rests, Flushed
<1> QED BY <1>2, <1>3

-----------------------------------------------------------------------------
(* Sending and editing                                                     *)

\* A send: its request is the only one, and its answer is empty.
LEMMA AnswerSend ==
    ASSUME PlayInv, PlayInv', AnswerInv, Mounted, NEW ms, sendChat(ms), Asks(ms, sends),
           editing' = editing \/ editing' = NoKey
    PROVE  AnswerInv'
<1> SUFFICES ASSUME ~overlapped' PROVE AnswerInv'
    BY DEF AnswerInv
<1> DEFINE n == sends + 1
<1>1. /\ sends \in Nat /\ n \in 1 .. MaxSends /\ n \in 0 .. MaxSends /\ n \in Nat /\ sends' = n
      /\ sends < MaxSends /\ net \in NetType
    BY PlayFacts, PlaygroundAssumption DEF sendChat
<1>2. ~overlapped /\ ~Busy(net) /\ UNCHANGED <<config, delivered, swallowed>>
    BY AnswerFacts DEF sendChat, Busy, isGenerating
<1>3. /\ Rests(net, buffer.pending) /\ OwnAnswers(messages, delivered, swallowed)
      /\ \A k \in 0 .. MaxSends : k > sends => delivered[k] = <<>>
    BY <1>2 DEF AnswerInv, RequestInv
<1>4. /\ Conversation(ms, n) /\ HasAnswer(ms) /\ Last(ms) = createLoadingAssistantMessage(n)
      /\ \A i \in DOMAIN ms : i # Len(ms) =>
            /\ Retained(ms[i], messages, sends)
            /\ ms[i].key # <<"assistant", n>>
    BY <1>1, AsksConversation
<1>5. ms \in Seq(MessageType)
    BY <1>4 DEF Conversation
<1>6. OwnAnswers(ms, delivered, swallowed)
    <2>1. ASSUME NEW i \in DOMAIN ms PROVE Own(ms[i], delivered, swallowed)
        <3>1. CASE i = Len(ms)
            BY <1>4, <3>1 DEF Own, Last, createLoadingAssistantMessage
        <3>2. CASE \E j \in DOMAIN messages : ms[i] = messages[j]
            BY <1>3, <3>2 DEF OwnAnswers
        <3>3. CASE ms[i].text = OtherText
            BY <3>3 DEF Own
        <3>4. CASE ms[i] = createUserMessage(sends + 1)
            BY <3>4 DEF Own, createUserMessage
        <3> QED BY <1>4, <3>1, <3>2, <3>3, <3>4 DEF Retained
    <2> QED BY <2>1 DEF OwnAnswers
<1>7. \A k \in 0 .. MaxSends : k > sends' => delivered'[k] = <<>>
    BY <1>1, <1>2, <1>3
<1>8. delivered[n] = <<>>
    BY <1>1, <1>3
<1>9. editing' # <<"assistant", n>>
    <2>1. editing[2] <= sends /\ editing \in Keys \cup {NoKey}
        BY PlayFacts
    <2> QED BY <1>1, <2>1 DEF NoKey
<1>10. ASSUME messages' = ms, buffer'.pending = <<>>
       PROVE  Writes(n, messages', buffer'.pending, delivered', config'.snapshots, swallowed', editing')
    <2> DEFINE u == createLoadingAssistantMessage(n)
    <2>1. u.key = <<"assistant", n>> /\ isAssistantMessagePending(u) /\ u.text = <<>>
        BY DEF createLoadingAssistantMessage, isAssistantMessagePending
    <2>2. Fits(config.snapshots, n, <<>>, <<>>, <<>>, n \in swallowed)
        BY DEF Fits, OfRequest
    <2> HIDE DEF u, n
    <2>3. Last(ms) = u /\ ms # <<>>
        BY <1>4 DEF u, HasAnswer
    <2> QED BY <1>2, <1>4, <1>8, <1>9, <1>10, <2>1, <2>2, <2>3 DEF Writes
<1>11. CASE config.stream
    <2> DEFINE opened == [net EXCEPT !.isRequesting = TRUE, !.isStreaming = TRUE,
                                     !.source = n, !.hung = FALSE]
    <2>1. /\ opened \in NetType /\ opened.isRequesting /\ opened.isStreaming
          /\ opened.inflight = net.inflight /\ opened.aborted = net.aborted /\ opened.source = n
        <3> HIDE DEF n
        <3> QED BY <1>1 DEF NetType
    <2>2. \/ messages' = ms /\ net' = opened /\ buffer' = buffer
          \/ /\ messages' = updateAssistantMessageWithError(Flushed(ms))
             /\ net' = [opened EXCEPT !.isRequesting = FALSE, !.isStreaming = FALSE, !.source = 0]
             /\ buffer' = EmptyBuffer
        BY <1>11 DEF sendChat, sendStreamingChat, updateMessages
    <2> HIDE DEF opened
    <2>3. CASE messages' = ms /\ net' = opened /\ buffer' = buffer
        <3>1. buffer'.pending = <<>>
            BY <1>3, <2>3 DEF Rests
        <3>2. Busy(net') /\ Runs(n, net', config', delivered')
            BY <1>2, <1>11, <2>1, <2>3 DEF Busy, Runs
        <3>3. RequestInv'
            BY <1>1, <1>10, <2>3, <3>1, <3>2 DEF RequestInv
        <3>4. OwnAnswers(messages', delivered', swallowed')
            BY <1>2, <1>6, <2>3
        <3> QED BY <1>7, <3>3, <3>4 DEF AnswerInv
    <2>4. CASE /\ messages' = updateAssistantMessageWithError(Flushed(ms))
               /\ net' = [opened EXCEPT !.isRequesting = FALSE, !.isStreaming = FALSE, !.source = 0]
               /\ buffer' = EmptyBuffer
        <3>1. Flushed(ms) = ms
            BY <1>3 DEF Flushed, Rests
        <3>2. OwnAnswers(messages', delivered', swallowed')
            BY <1>2, <1>5, <1>6, <2>4, <3>1, OwnError
        <3>3. /\ ~net'.isRequesting /\ ~net'.isStreaming /\ net'.source = 0
              /\ net'.inflight = net.inflight /\ net'.aborted = net.aborted
            BY <2>1, <2>4 DEF NetType
        <3>4. ~Busy(net') /\ Rests(net', buffer'.pending)
            BY <1>3, <2>4, <3>3, NoNetTypes DEF Busy, Rests
        <3>5. RequestInv'
            BY <3>4 DEF RequestInv
        <3> QED BY <1>7, <3>2, <3>5 DEF AnswerInv
    <2> QED BY <2>2, <2>3, <2>4
<1>12. CASE ~config.stream
    <2> DEFINE flying == net.inflight \cup {n}
    <2>1. /\ net' = [net EXCEPT !.isRequesting = TRUE, !.inflight = flying, !.abort = n, !.current = n]
          /\ messages' = ms /\ buffer' = buffer
        BY <1>12 DEF sendChat, sendNonStreamingChat, updateMessages
    <2>2. flying \ net.aborted = {n}
        <3>1. net.inflight \subseteq 1 .. sends /\ net.aborted \subseteq net.inflight
            BY PlayFacts DEF NetFits
        <3>2. n \notin net.aborted
            BY <1>1, <3>1
        <3> QED BY <1>3, <3>2 DEF Rests
    <2> HIDE DEF n, flying
    <2>3. /\ net'.isRequesting = TRUE /\ net'.inflight = flying /\ net'.aborted = net.aborted
          /\ net'.abort = n /\ net'.current = n
        BY <1>1, <2>1 DEF NetType
    <2>4. Busy(net') /\ Runs(n, net', config', delivered')
        BY <1>2, <1>8, <1>12, <2>2, <2>3 DEF Busy, Runs
    <2>5. buffer'.pending = <<>>
        BY <1>3, <2>1 DEF Rests
    <2>6. RequestInv'
        BY <1>1, <1>10, <2>1, <2>4, <2>5 DEF RequestInv
    <2>7. OwnAnswers(messages', delivered', swallowed')
        BY <1>2, <1>6, <2>1
    <2> QED BY <1>7, <2>6, <2>7 DEF AnswerInv
<1> QED BY <1>11, <1>12

\* A step that leaves the request, the buffer and the last answer alone.
LEMMA AnswerIdle ==
    ASSUME PlayInv, AnswerInv, UNCHANGED <<config, net, buffer, sends, delivered, overlapped, swallowed>>,
           \/ ~Busy(net)
           \/ /\ messages' = messages
              /\ editing' = editing \/ editing' = NoKey
           \/ /\ Len(messages') = Len(messages) /\ DOMAIN messages' = DOMAIN messages
              /\ messages # <<>> => messages' # <<>>
              /\ Writes(sends, messages, buffer.pending, delivered, config.snapshots, swallowed, editing) =>
                    messages'[Len(messages)] = messages[Len(messages)]
              /\ \A i \in DOMAIN messages : messages'[i].key = messages[i].key
              /\ editing' = NoKey,
           OwnAnswers(messages, delivered, swallowed) => OwnAnswers(messages', delivered, swallowed)
    PROVE  AnswerInv'
<1> SUFFICES ASSUME ~overlapped' PROVE AnswerInv'
    BY DEF AnswerInv
<1>1. /\ RequestInv /\ OwnAnswers(messages', delivered', swallowed')
      /\ \A n \in 0 .. MaxSends : n > sends' => delivered'[n] = <<>>
    BY DEF AnswerInv
<1>2. CASE ~Busy(net)
    <2>1. RequestInv'
        BY <1>1, <1>2 DEF RequestInv, Busy, Rests
    <2> QED BY <1>1, <2>1 DEF AnswerInv
<1>3. CASE Busy(net) /\ messages' = messages /\ (editing' = editing \/ editing' = NoKey)
    <2>1. Writes(sends, messages', buffer.pending, delivered, config.snapshots, swallowed, editing')
        BY <1>1, <1>3 DEF RequestInv, Writes, NoKey
    <2>2. RequestInv'
        BY <1>1, <1>3, <2>1 DEF RequestInv, Busy, Runs
    <2> QED BY <1>1, <2>2 DEF AnswerInv
<1>4. CASE /\ Busy(net) /\ Len(messages') = Len(messages) /\ DOMAIN messages' = DOMAIN messages
           /\ messages # <<>> => messages' # <<>>
           /\ Writes(sends, messages, buffer.pending, delivered, config.snapshots, swallowed, editing) =>
                 messages'[Len(messages)] = messages[Len(messages)]
           /\ \A i \in DOMAIN messages : messages'[i].key = messages[i].key
           /\ editing' = NoKey
    <2>1. Writes(sends, messages', buffer.pending, delivered, config.snapshots, swallowed, editing')
        BY <1>1, <1>4 DEF RequestInv, Writes, NoKey, Last
    <2>2. RequestInv'
        BY <1>1, <1>4, <2>1 DEF RequestInv, Busy, Runs
    <2> QED BY <1>1, <2>2 DEF AnswerInv
<1> QED BY <1>2, <1>3, <1>4

\* The edits.
LEMMA AnswerEdits ==
    ASSUME PlayInv, AnswerInv,
           \/ handleEditMessage \/ handleEditOpenChange \/ SaveEdit
           \/ handleDeleteMessage \/ handleClearMessages
    PROVE  AnswerInv'
<1>1. /\ sends \in Nat /\ messages \in Seq(MessageType) /\ Conversation(messages, sends)
      /\ isGenerating = Busy(net)
    BY AnswerFacts, PlayFacts
<1>2. CASE handleEditMessage
    <2>1. ~Busy(net) /\ messages' = messages
        BY <1>1, <1>2 DEF handleEditMessage
    <2>2. UNCHANGED <<config, net, buffer, sends, delivered, overlapped, swallowed>>
        BY <1>2 DEF handleEditMessage, history
    <2> QED BY <2>1, <2>2, AnswerIdle
<1>3. CASE handleEditOpenChange
    <2>1. editing' = NoKey /\ messages' = messages
        BY <1>3 DEF handleEditOpenChange
    <2>2. UNCHANGED <<config, net, buffer, sends, delivered, overlapped, swallowed>>
        BY <1>3 DEF handleEditOpenChange, history
    <2> QED BY <2>1, <2>2, AnswerIdle
<1>4. CASE SaveEdit
    <2> DEFINE i == IndexOf(editing)
               ms == Edited(messages, i)
    <2>1. /\ messages' = ms /\ editing' = NoKey
          /\ UNCHANGED <<config, net, buffer, sends, delivered, overlapped, swallowed>>
        BY <1>4 DEF SaveEdit, updateMessages, history
    <2>2. i \in DOMAIN messages /\ messages[i].key = editing
        BY <1>4 DEF SaveEdit, HasKey, IndexOf
    <2> HIDE DEF i
    <2>3. /\ DOMAIN ms = DOMAIN messages /\ Len(ms) = Len(messages)
          /\ \A j \in DOMAIN messages : ms[j].key = messages[j].key /\ (j # i => ms[j] = messages[j])
          /\ ms[i].text = OtherText
        BY <1>1, <2>2, EditedMessage
    <2> HIDE DEF ms
    <2>4. OwnAnswers(messages, delivered, swallowed) => OwnAnswers(ms, delivered, swallowed)
        BY <2>3 DEF OwnAnswers, Own
    <2>5. messages # <<>> /\ ms # <<>> /\ Len(messages) \in DOMAIN messages
        BY <1>1, <2>2, <2>3
    <2>6. Writes(sends, messages, buffer.pending, delivered, config.snapshots, swallowed, editing) =>
             ms[Len(messages)] = messages[Len(messages)]
        BY <2>2, <2>3, <2>5 DEF Writes, Last
    <2>7. \A j \in DOMAIN messages : messages'[j].key = messages[j].key
        BY <2>1, <2>3
    <2> QED BY <2>1, <2>3, <2>4, <2>5, <2>6, <2>7, AnswerIdle
<1>5. CASE handleDeleteMessage
    <2>1. PICK i \in DOMAIN messages : messages' = RemoveAt(messages, i)
        BY <1>5 DEF handleDeleteMessage, updateMessages, removeMessageByKey
    <2>2. \A j \in DOMAIN messages' : \E k \in DOMAIN messages : messages'[j] = messages[k]
        BY <1>1, <2>1, Removed
    <2>3. ~Busy(net) /\ UNCHANGED <<config, net, buffer, sends, delivered, overlapped, swallowed>>
        BY <1>1, <1>5 DEF handleDeleteMessage, history
    <2>4. OwnAnswers(messages, delivered, swallowed) => OwnAnswers(messages', delivered, swallowed)
        BY <2>2 DEF OwnAnswers
    <2> QED BY <2>3, <2>4, AnswerIdle
<1>6. CASE handleClearMessages
    <2>1. /\ ~Busy(net) /\ UNCHANGED <<config, net, buffer, sends, delivered, overlapped, swallowed>>
          /\ messages' = <<>>
        BY <1>1, <1>6 DEF handleClearMessages, updateMessages, history
    <2>2. OwnAnswers(messages', delivered, swallowed)
        BY <2>1 DEF OwnAnswers
    <2> QED BY <2>1, <2>2, AnswerIdle
<1> QED BY <1>2, <1>3, <1>4, <1>5, <1>6

-----------------------------------------------------------------------------
(* Stop, the events of a stream and the flush timer                        *)

\* A step after which no request is under way.
LEMMA AnswerRests ==
    ASSUME AnswerInv, UNCHANGED <<sends, overlapped>>,
           ~overlapped => /\ ~Busy(net') /\ Rests(net', buffer'.pending)
                          /\ OwnAnswers(messages', delivered', swallowed')
                          /\ \A n \in 0 .. MaxSends : n > sends => delivered'[n] = <<>>
    PROVE  AnswerInv'
BY DEF AnswerInv, RequestInv

\* An answer completed with the letters of its request is its own.
LEMMA OwnCompleted ==
    ASSUME NEW ms \in Seq(MessageType), NEW d, NEW sw, OwnAnswers(ms, d, sw), NEW n,
           Last(ms).key = <<"assistant", n>>, AnswerOf(n, Last(ms).text, d[n], n \in sw),
           isAssistantMessagePending(Last(ms))
    PROVE  /\ OwnAnswers(updateLastAssistantMessage(ms, completeAssistantMessage(Last(ms))), d, sw)
           /\ OwnAnswers(CompleteUnlessFinal(ms), d, sw)
<1> DEFINE u == completeAssistantMessage(Last(ms))
<1>1. HasAnswer(ms) => Last(ms) \in MessageType
    BY LastOf DEF HasAnswer
<1>2. HasAnswer(ms) => u \in MessageType /\ u.key = Last(ms).key /\ u.text = Last(ms).text
    BY <1>1 DEF completeAssistantMessage, MessageType
<1>3. ~isAssistantMessageFinal(Last(ms))
    BY DEF isAssistantMessageFinal, isAssistantMessagePending
<1>4. CompleteUnlessFinal(ms) = updateLastAssistantMessage(ms, u)
    BY <1>3 DEF CompleteUnlessFinal
<1> HIDE DEF u
<1>5. HasAnswer(ms) => Own(u, d, sw)
    BY <1>2 DEF Own
<1>6. OwnAnswers(updateLastAssistantMessage(ms, u), d, sw)
    BY <1>2, <1>5, OwnWritten
<1> QED BY <1>4, <1>6 DEF u

\* What is known of the conversation with the buffer in it while a request runs.
LEMMA FlushedRunning ==
    ASSUME PlayInv, AnswerInv, ~overlapped, Busy(net)
    PROVE  /\ sends \in 1 .. MaxSends /\ Runs(sends, net, config, delivered)
           /\ Writes(sends, messages, buffer.pending, delivered, config.snapshots, swallowed, editing)
           /\ Flushed(messages) \in Seq(MessageType)
           /\ OwnAnswers(Flushed(messages), delivered, swallowed)
           /\ OwnAnswers(Flushed(messages), delivered, FlushSwallowed)
           /\ Last(Flushed(messages)).key = <<"assistant", sends>>
           /\ AnswerOf(sends, Last(Flushed(messages)).text, delivered[sends], sends \in FlushSwallowed)
           /\ isAssistantMessagePending(Last(Flushed(messages)))
<1>1. RequestInv /\ OwnAnswers(messages, delivered, swallowed)
    BY DEF AnswerInv
<1>2. sends \in 1 .. MaxSends
    BY <1>1, AnswerFacts DEF RequestInv
<1>3. /\ Runs(sends, net, config, delivered)
      /\ Writes(sends, messages, buffer.pending, delivered, config.snapshots, swallowed, editing)
    BY <1>1 DEF RequestInv
<1>4. /\ Flushed(messages) \in Seq(MessageType) /\ OwnAnswers(Flushed(messages), delivered, swallowed)
      /\ swallowed \subseteq FlushSwallowed
    BY <1>1, <1>2, <1>3, FlushedOwn, FlushLost DEF Writes
<1>5. OwnAnswers(Flushed(messages), delivered, FlushSwallowed)
    BY <1>4, OwnSwallowed
<1>6. /\ Last(Flushed(messages)).key = <<"assistant", sends>>
      /\ Fits(config.snapshots, sends, Last(Flushed(messages)).text, <<>>, delivered[sends],
              sends \in FlushSwallowed)
      /\ isAssistantMessagePending(Last(Flushed(messages)))
    BY <1>2, <1>3, FlushedAnswer
<1>7. AnswerOf(sends, Last(Flushed(messages)).text, delivered[sends], sends \in FlushSwallowed)
    <2> DEFINE text == Last(Flushed(messages)).text
               lost == sends \in FlushSwallowed
    <2>1. config.snapshots \in BOOLEAN /\ lost \in BOOLEAN
        BY AnswerFacts
    <2>2. Fits(config.snapshots, sends, text, <<>>, delivered[sends], lost)
        BY <1>6
    <2> HIDE DEF text, lost
    <2>3. AnswerOf(sends, text, delivered[sends], lost)
        BY <2>1, <2>2, FlushedFits
    <2> QED BY <2>3 DEF text, lost
<1> QED BY <1>2, <1>3, <1>4, <1>5, <1>6, <1>7

\* stopGeneration.
LEMMA AnswerStop ==
    ASSUME PlayInv, AnswerInv, stopGeneration
    PROVE  AnswerInv'
<1> DEFINE gone == net.aborted \cup ({net.abort} \ {0})
           ms == Flushed(messages)
           u == IF isAssistantMessagePending(Last(ms)) THEN completeAssistantMessage(Last(ms)) ELSE Last(ms)
<1>1. /\ buffer' = EmptyBuffer /\ messages' = updateLastAssistantMessage(ms, u)
      /\ UNCHANGED <<sends, delivered, overlapped>> /\ swallowed' = FlushSwallowed
      /\ net' = [net EXCEPT !.isStreaming = FALSE, !.isRequesting = FALSE, !.source = 0,
                            !.hung = FALSE, !.aborted = gone, !.abort = 0]
    BY DEF stopGeneration, updateMessages
<1>2. Busy(net) /\ net \in NetType /\ NetFits(net, config, sends)
    BY AnswerFacts, PlayFacts DEF stopGeneration
<1>3. ASSUME ~overlapped
      PROVE  /\ ~Busy(net') /\ Rests(net', buffer'.pending) /\ OwnAnswers(messages', delivered', swallowed')
             /\ \A n \in 0 .. MaxSends : n > sends => delivered'[n] = <<>>
    <2>1. /\ sends \in 1 .. MaxSends /\ Runs(sends, net, config, delivered)
          /\ ms \in Seq(MessageType)
          /\ OwnAnswers(ms, delivered, swallowed) /\ OwnAnswers(ms, delivered, FlushSwallowed)
          /\ Last(ms).key = <<"assistant", sends>>
          /\ AnswerOf(sends, Last(ms).text, delivered[sends], sends \in FlushSwallowed)
          /\ isAssistantMessagePending(Last(ms))
        BY <1>2, <1>3, FlushedRunning
    <2>2. u = completeAssistantMessage(Last(ms))
        BY <2>1
    <2> HIDE DEF ms, u
    <2>3. OwnAnswers(messages', delivered', swallowed')
        BY <1>1, <2>1, <2>2, OwnCompleted
    <2>4. net.inflight \subseteq gone
        BY <1>2, <2>1 DEF Runs, NetFits
    <2> HIDE DEF gone
    <2>5. /\ ~net'.isStreaming /\ ~net'.isRequesting /\ net'.source = 0
          /\ net'.inflight = net.inflight /\ net'.aborted = gone
        BY <1>1, <1>2 DEF NetType
    <2>6. ~Busy(net') /\ Rests(net', buffer'.pending)
        BY <1>1, <2>4, <2>5, NoNetTypes DEF Busy, Rests
    <2> QED BY <1>1, <1>3, <2>3, <2>6 DEF AnswerInv
<1> QED BY <1>1, <1>3, AnswerRests

\* handleStreamComplete and handleStreamError.
LEMMA AnswerStreamEnd ==
    ASSUME PlayInv, AnswerInv, handleStreamComplete \/ handleStreamError
    PROVE  AnswerInv'
<1> DEFINE ms == Flushed(messages)
<1>1. /\ buffer' = EmptyBuffer /\ net' = StreamEnded /\ net.source # 0
      /\ UNCHANGED <<sends, delivered, overlapped>>
      /\ \/ messages' = CompleteUnlessFinal(ms) /\ swallowed' = FlushSwallowed
         \/ messages' = updateAssistantMessageWithError(ms) /\ swallowed' = swallowed
    BY DEF handleStreamComplete, handleStreamError, updateMessages, history, Live
<1>2. NetFits(net, config, sends) /\ Busy(net)
    BY <1>1, PlayFacts DEF NetFits, Busy
<1>3. ASSUME ~overlapped
      PROVE  /\ ~Busy(net') /\ Rests(net', buffer'.pending) /\ OwnAnswers(messages', delivered', swallowed')
             /\ \A n \in 0 .. MaxSends : n > sends => delivered'[n] = <<>>
    <2>1. /\ Runs(sends, net, config, delivered)
          /\ ms \in Seq(MessageType)
          /\ OwnAnswers(ms, delivered, swallowed) /\ OwnAnswers(ms, delivered, FlushSwallowed)
          /\ Last(ms).key = <<"assistant", sends>>
          /\ AnswerOf(sends, Last(ms).text, delivered[sends], sends \in FlushSwallowed)
          /\ isAssistantMessagePending(Last(ms))
        BY <1>2, <1>3, FlushedRunning
    <2> HIDE DEF ms
    <2>2. OwnAnswers(CompleteUnlessFinal(ms), delivered, FlushSwallowed)
        BY <2>1, OwnCompleted
    <2>3. OwnAnswers(updateAssistantMessageWithError(ms), delivered, swallowed)
        BY <2>1, OwnError
    <2>4. /\ ~StreamEnded.isStreaming /\ ~StreamEnded.isRequesting /\ StreamEnded.source = 0
          /\ StreamEnded.inflight = net.inflight
        BY StreamEndedNet
    <2>5. net.inflight = {}
        BY <1>1, <1>2 DEF NetFits
    <2>6. ~Busy(net') /\ Rests(net', buffer'.pending)
        BY <1>1, <2>4, <2>5, NoNetTypes DEF Busy, Rests
    <2> QED BY <1>1, <1>3, <2>2, <2>3, <2>6 DEF AnswerInv
<1> QED BY <1>1, <1>3, AnswerRests

\* handleStreamUpdate.
LEMMA AnswerChunk ==
    ASSUME PlayInv, AnswerInv, handleStreamUpdate
    PROVE  AnswerInv'
<1> SUFFICES ASSUME ~overlapped' PROVE AnswerInv'
    BY DEF AnswerInv
<1> DEFINE n == net.source
           d == delivered[n]
<1>1. /\ n # 0 /\ UNCHANGED <<config, messages, editing, net, sends, overlapped>>
    BY DEF handleStreamUpdate, Live
<1>2. NetFits(net, config, sends) /\ Busy(net)
    BY <1>1, PlayFacts DEF NetFits, Busy
<1>3. /\ sends \in 1 .. MaxSends /\ Runs(sends, net, config, delivered)
      /\ Writes(sends, messages, buffer.pending, delivered, config.snapshots, swallowed, editing)
    BY <1>1, <1>2, FlushedRunning
<1>4. n = sends /\ config.stream
    BY <1>1, <1>2, <1>3 DEF Runs, NetFits
<1>5. /\ sends \in 0 .. MaxSends /\ sends \in Nat /\ d \in Seq(Letter) /\ config.snapshots \in BOOLEAN
      /\ delivered \in [0 .. MaxSends -> Texts] /\ messages \in Seq(MessageType)
    BY <1>4, AnswerFacts
<1>6. PICK letter \in NextLetter(n) :
        /\ buffer' = [pending |-> mergePendingStreamChunk(buffer.pending, Chunk(n, letter)), timer |-> TRUE]
        /\ delivered' = [delivered EXCEPT ![n] = Append(d, letter)]
        /\ swallowed' = Swallowed(buffer.pending, Chunk(n, letter))
    BY DEF handleStreamUpdate
<1>7. letter \in Letter /\ letter[1] = n
    <2>1. Len(d) \in Nat /\ n \in Nat
        BY <1>4, <1>5
    <2> QED BY <2>1 DEF NextLetter, Letter
<1> DEFINE chunk == Chunk(n, letter)
           e == Append(d, letter)
<1>8. delivered'[n] = e /\ \A k \in 0 .. MaxSends : k # n => delivered'[k] = delivered[k]
    <2> HIDE DEF e
    <2> QED BY <1>4, <1>5, <1>6 DEF e
<1>9. /\ chunk = IF config.snapshots THEN Append(d, letter) ELSE <<letter>>
      /\ swallowed \subseteq swallowed'
      /\ (n \in swallowed) \/ (~config.snapshots /\ Repeats(buffer.pending, chunk)) => n \in swallowed'
    BY <1>6 DEF Chunk, Swallowed
<1> HIDE DEF d, chunk
<1>10. Fits(config.snapshots, n, Last(messages).text, buffer'.pending, delivered'[n], n \in swallowed')
    <2> DEFINE lost == n \in swallowed
               lost2 == n \in swallowed'
               pending == mergePendingStreamChunk(buffer.pending, chunk)
    <2>1. Fits(config.snapshots, n, Last(messages).text, buffer.pending, d, lost)
        BY <1>3, <1>4 DEF Writes, d
    <2>2. lost \in BOOLEAN /\ lost2 \in BOOLEAN
        OBVIOUS
    <2>3. lost \/ (~config.snapshots /\ Repeats(buffer.pending, chunk)) => lost2
        BY <1>9
    <2> HIDE DEF lost, lost2
    <2>4. Fits(config.snapshots, n, Last(messages).text, pending, Append(d, letter), lost2)
        BY <1>5, <1>7, <1>9, <2>1, <2>2, <2>3, BufferMerges
    <2>5. buffer'.pending = pending
        BY <1>6 DEF chunk
    <2> QED BY <1>8, <2>4, <2>5 DEF lost2
<1>11. Writes(sends, messages', buffer'.pending, delivered', config'.snapshots, swallowed', editing')
    BY <1>1, <1>3, <1>4, <1>10 DEF Writes
<1>12. RequestInv'
    BY <1>1, <1>2, <1>3, <1>4, <1>11 DEF RequestInv, Runs, Busy
<1>13. ASSUME NEW i \in DOMAIN messages PROVE Own(messages[i], delivered', swallowed')
    <2>1. Own(messages[i], delivered, swallowed) /\ messages[i] \in MessageType
        BY <1>1, <1>5 DEF AnswerInv, OwnAnswers
    <2>2. CASE messages[i].key = <<"assistant", n>>
        <3>1. i = Len(messages)
            BY <1>3, <1>4, <2>2 DEF Writes
        <3> QED BY <1>3, <3>1 DEF Writes, Last, Own, isAssistantMessagePending
    <2>3. CASE messages[i].key # <<"assistant", n>>
        <3>1. IsAssistant(messages[i]) => messages[i].key[2] # n /\ messages[i].key[2] \in 0 .. MaxSends
            BY <2>1, <2>3, MessageFields DEF IsAssistant
        <3> QED BY <1>8, <1>9, <2>1, <3>1 DEF Own, AnswerOf
    <2> QED BY <2>2, <2>3
<1>14. \A k \in 0 .. MaxSends : k > sends' => delivered'[k] = <<>>
    <2>1. \A k \in 0 .. MaxSends : k > sends => k # n /\ delivered[k] = <<>>
        BY <1>1, <1>4, <1>5 DEF AnswerInv
    <2> QED BY <1>1, <1>8, <2>1
<1> QED BY <1>1, <1>12, <1>13, <1>14 DEF AnswerInv, OwnAnswers

\* StreamHangs and flushStreamUpdates.
LEMMA AnswerFlush ==
    ASSUME PlayInv, AnswerInv, StreamHangs \/ flushStreamUpdates
    PROVE  AnswerInv'
<1> SUFFICES ASSUME ~overlapped' PROVE AnswerInv'
    BY DEF AnswerInv
<1>1. /\ net \in NetType /\ ~overlapped /\ RequestInv /\ OwnAnswers(messages, delivered, swallowed)
      /\ \A n \in 0 .. MaxSends : n > sends => delivered[n] = <<>>
      /\ UNCHANGED <<config, editing, sends, delivered, overlapped>>
    BY PlayFacts DEF AnswerInv, StreamHangs, flushStreamUpdates, history
<1>2. CASE StreamHangs
    <2>1. net' = [net EXCEPT !.hung = TRUE] /\ UNCHANGED <<messages, buffer, swallowed>>
        BY <1>2 DEF StreamHangs, history
    <2>2. /\ net'.isStreaming = net.isStreaming
          /\ net'.isRequesting = net.isRequesting /\ net'.source = net.source
          /\ net'.inflight = net.inflight /\ net'.aborted = net.aborted
          /\ net'.abort = net.abort /\ net'.current = net.current
        BY <1>1, <2>1 DEF NetType
    <2>3. RequestInv'
        BY <1>1, <2>1, <2>2 DEF RequestInv, Busy, Rests, Runs
    <2> QED BY <1>1, <2>1, <2>3 DEF AnswerInv
<1>3. CASE flushStreamUpdates
    <2> DEFINE ms == Flushed(messages)
    <2>1. /\ buffer' = EmptyBuffer /\ net' = net /\ messages' = ms /\ buffer.timer
          /\ swallowed' = FlushSwallowed
        BY <1>3 DEF flushStreamUpdates, updateMessages, Flushed
    <2>2. Busy(net)
        BY <2>1, PlayFacts DEF Busy
    <2>3. /\ sends \in 1 .. MaxSends /\ Runs(sends, net, config, delivered)
          /\ Writes(sends, messages, buffer.pending, delivered, config.snapshots, swallowed, editing)
          /\ OwnAnswers(ms, delivered, FlushSwallowed)
        BY <1>1, <2>2, FlushedRunning
    <2>4. /\ HasAnswer(ms) /\ Len(ms) = Len(messages) /\ DOMAIN ms = DOMAIN messages
          /\ Last(ms).key = <<"assistant", sends>> /\ isAssistantMessagePending(Last(ms))
          /\ Fits(config.snapshots, sends, Last(ms).text, <<>>, delivered[sends], sends \in FlushSwallowed)
          /\ \A j \in DOMAIN ms : j # Len(ms) => ms[j] = messages[j]
        BY <2>3, FlushedAnswer
    <2> HIDE DEF ms
    <2>6. Writes(sends, messages', buffer'.pending, delivered', config'.snapshots, swallowed', editing')
        BY <1>1, <2>1, <2>3, <2>4, NoNetTypes DEF Writes, HasAnswer
    <2>7. RequestInv'
        BY <1>1, <2>1, <2>2, <2>3, <2>6 DEF RequestInv, Runs, Busy
    <2> QED BY <1>1, <2>1, <2>3, <2>7 DEF AnswerInv
<1> QED BY <1>2, <1>3

-----------------------------------------------------------------------------
(* Plain requests, opening and leaving; answers are their own              *)

\* An aborted plain request reports: the one that runs, if any, is not touched.
LEMMA AnswerAborted ==
    ASSUME PlayInv, AnswerInv, NEW n \in net.inflight, n \in net.aborted,
           net' = Settled(n, net.isRequesting),
           UNCHANGED <<config, messages, editing, buffer, sends, delivered, overlapped, swallowed>>
    PROVE  AnswerInv'
<1> SUFFICES ASSUME ~overlapped' PROVE AnswerInv'
    BY DEF AnswerInv
<1>1. RequestInv /\ OwnAnswers(messages', delivered', swallowed')
      /\ \A k \in 0 .. MaxSends : k > sends' => delivered'[k] = <<>>
    BY DEF AnswerInv
<1>2. /\ net'.isStreaming = net.isStreaming /\ net'.source = net.source
      /\ net'.inflight = net.inflight \ {n} /\ net'.aborted = net.aborted \ {n}
      /\ net'.current = net.current
      /\ net'.abort = (IF net.current = n THEN 0 ELSE net.abort)
      /\ net'.isRequesting = (IF net.current = n THEN FALSE ELSE net.isRequesting)
    BY SettledNet
<1>3. NetFits(net, config, sends) /\ config.stream \in BOOLEAN /\ net \in NetType
    BY PlayFacts, AnswerFacts
<1>4. ~config.stream /\ ~net.isStreaming
    BY <1>3 DEF NetFits
<1>5. CASE Busy(net)
    <2>1. net.isRequesting /\ Runs(sends, net, config, delivered)
        BY <1>1, <1>4, <1>5 DEF RequestInv, Busy
    <2>2. n # net.current /\ net.current = sends /\ net.inflight \ net.aborted = {sends}
        BY <1>4, <2>1 DEF Runs
    <2>3. net'.inflight \ net'.aborted = {sends}
        BY <1>2, <2>2
    <2>4. Busy(net') /\ Runs(sends', net', config', delivered')
        BY <1>2, <1>4, <2>1, <2>2, <2>3 DEF Busy, Runs
    <2>5. RequestInv'
        BY <1>1, <1>5, <2>4 DEF RequestInv
    <2> QED BY <1>1, <2>5 DEF AnswerInv
<1>6. CASE ~Busy(net)
    <2>1. Rests(net, buffer.pending)
        BY <1>1, <1>6 DEF RequestInv
    <2>2. net'.inflight \subseteq net'.aborted
        BY <1>2, <2>1 DEF Rests
    <2>3. ~Busy(net') /\ Rests(net', buffer'.pending)
        BY <1>2, <1>6, <2>1, <2>2 DEF Busy, Rests
    <2>4. RequestInv'
        BY <2>3 DEF RequestInv
    <2> QED BY <1>1, <2>4 DEF AnswerInv
<1> QED BY <1>5, <1>6

\* A plain request that is not aborted reports: it is the latest, and after it
\* none is under way.
LEMMA PlainReported ==
    ASSUME PlayInv, AnswerInv, ~overlapped, NEW n \in net.inflight, n \notin net.aborted,
           NEW requesting \in {net.isRequesting, FALSE}, net' = Settled(n, requesting)
    PROVE  /\ n = sends /\ Busy(net) /\ ~config.stream
           /\ ~Busy(net') /\ net'.source = 0 /\ net'.inflight \subseteq net'.aborted
           /\ buffer.pending = <<>> /\ n \in 1 .. MaxSends
<1>1. RequestInv
    BY DEF AnswerInv
<1>2. /\ net'.isStreaming = net.isStreaming /\ net'.source = net.source
      /\ net'.inflight = net.inflight \ {n} /\ net'.aborted = net.aborted \ {n}
      /\ net.current = n => net'.isRequesting = FALSE
    <2> DEFINE flying == net.inflight \ {n}
               gone == net.aborted \ {n}
               abort == IF net.current = n THEN 0 ELSE net.abort
               req == IF net.current = n THEN FALSE ELSE requesting
    <2>1. net' = [net EXCEPT !.inflight = flying, !.aborted = gone, !.abort = abort,
                             !.isRequesting = req]
        BY DEF Settled
    <2>2. net \in NetType
        BY PlayFacts
    <2>3. flying = net.inflight \ {n} /\ gone = net.aborted \ {n} /\ (net.current = n => req = FALSE)
        OBVIOUS
    <2> HIDE DEF flying, gone, abort, req
    <2>4. /\ net'.isStreaming = net.isStreaming /\ net'.source = net.source
          /\ net'.inflight = flying /\ net'.aborted = gone /\ net'.isRequesting = req
        BY <2>1, <2>2 DEF NetType
    <2> QED BY <2>3, <2>4
<1>3. /\ NetFits(net, config, sends) /\ config.stream \in BOOLEAN /\ net \in NetType
      /\ buffer.pending # <<>> => net.isStreaming
    BY PlayFacts, AnswerFacts
<1>4. ~config.stream /\ ~net.isStreaming /\ net.source = 0
    BY <1>3 DEF NetFits
<1>5. Busy(net)
    BY <1>1 DEF RequestInv, Rests
<1>6. Runs(sends, net, config, delivered)
    BY <1>1, <1>5 DEF RequestInv
<1>7. net.current = sends /\ net.inflight \ net.aborted = {sends}
    BY <1>4, <1>6 DEF Runs
<1>8. n = sends
    BY <1>7
<1>9. net'.inflight \subseteq net'.aborted
    BY <1>2, <1>7, <1>8
<1>10. ~Busy(net')
    BY <1>2, <1>4, <1>7, <1>8 DEF Busy
<1> QED BY <1>2, <1>3, <1>4, <1>5, <1>8, <1>9, <1>10 DEF NetType

\* PlainAnswers.
LEMMA AnswerPlain ==
    ASSUME PlayInv, AnswerInv, PlainAnswers
    PROVE  AnswerInv'
<1>1. UNCHANGED <<config, editing, buffer, sends, overlapped, swallowed>>
    BY DEF PlainAnswers, history
<1>2. PICK n \in net.inflight :
        /\ net' = Settled(n, net.isRequesting)
        /\ IF n \in net.aborted THEN UNCHANGED <<messages, saving, delivered>>
           ELSE /\ messages' = applyChatCompletionResponse(messages, n)
                /\ delivered' = [delivered EXCEPT ![n] = << <<n, 1>> >>]
    BY DEF PlainAnswers, updateMessages
<1>3. CASE n \in net.aborted
    BY <1>1, <1>2, <1>3, AnswerAborted
<1>4. CASE n \notin net.aborted
    <2>1. ASSUME ~overlapped
          PROVE  /\ ~Busy(net') /\ Rests(net', buffer'.pending) /\ OwnAnswers(messages', delivered', swallowed')
                 /\ \A k \in 0 .. MaxSends : k > sends => delivered'[k] = <<>>
        <3>1. /\ n = sends /\ Busy(net) /\ ~Busy(net') /\ net'.source = 0
              /\ net'.inflight \subseteq net'.aborted /\ buffer.pending = <<>> /\ n \in 1 .. MaxSends
            BY <1>2, <1>4, <2>1, PlainReported
        <3>2. Rests(net', buffer'.pending)
            BY <1>1, <3>1 DEF Rests
        <3>3. /\ OwnAnswers(messages, delivered, swallowed) /\ messages \in Seq(MessageType)
              /\ \A k \in 0 .. MaxSends : k > sends => delivered[k] = <<>>
              /\ Writes(n, messages, buffer.pending, delivered, config.snapshots, swallowed, editing)
              /\ delivered \in [0 .. MaxSends -> Texts] /\ n \in 0 .. MaxSends /\ sends \in Nat
            BY <2>1, <3>1, AnswerFacts DEF AnswerInv, RequestInv
        <3>4. delivered'[n] = << <<n, 1>> >> /\ \A k \in 0 .. MaxSends : k # n => delivered'[k] = delivered[k]
            BY <1>2, <1>4, <3>3
        <3>5. \A k \in 0 .. MaxSends : k > sends => delivered'[k] = <<>>
            <4>1. \A k \in 0 .. MaxSends : k > sends => k # n
                BY <3>1, <3>3
            <4> QED BY <3>3, <3>4, <4>1
        <3> DEFINE one == << <<n, 1>> >>
                   u == [Last(messages) EXCEPT !.status = "complete", !.text = one]
        <3>6. messages' = updateLastAssistantMessage(messages, u)
            BY <1>2, <1>4 DEF applyChatCompletionResponse
        <3>7. HasAnswer(messages) /\ Last(messages) \in MessageType /\ Last(messages).key = <<"assistant", n>>
            BY <3>3, LastOf DEF Writes, HasAnswer, IsAssistant
        <3>8. one \in Seq(Nat \X Nat) /\ OfRequest(n, one) /\ Len(one) = 1
            <4>1. n \in Nat
                BY <3>1, PlaygroundAssumption
            <4>2. one \in Seq(Nat \X Nat) /\ Len(one) = 1 /\ one[1] = <<n, 1>> /\ DOMAIN one = {1}
                BY <4>1
            <4> HIDE DEF one
            <4> QED BY <4>2 DEF OfRequest
        <3>9. u \in MessageType /\ u.key = <<"assistant", n>> /\ u.text = one
            <4> HIDE DEF one
            <4> QED BY <3>7, <3>8, Rewritten
        <3>12. AnswerOf(n, one, delivered'[n], n \in swallowed')
            <4>1. delivered'[n] = one
                BY <3>4
            <4> HIDE DEF one
            <4>2. Len(one) <= Len(delivered'[n])
                <5>1. Len(delivered'[n]) = 1 /\ Len(one) = 1
                    BY <3>8, <4>1, Zenon
                <5> QED BY <5>1
            <4>3. OfRequest(n, one)
                BY <3>8
            <4> QED BY <4>1, <4>2, <4>3, Zenon DEF AnswerOf
        <3> HIDE DEF u, one
        <3>10. /\ DOMAIN messages' = DOMAIN messages /\ messages'[Len(messages)] = u
               /\ \A j \in DOMAIN messages : j # Len(messages) => messages'[j] = messages[j]
            BY <3>3, <3>6, <3>7, <3>9, LastUpdated
        <3>11. ASSUME NEW i \in DOMAIN messages PROVE Own(messages'[i], delivered', swallowed')
            <4>1. CASE i = Len(messages)
                BY <3>9, <3>10, <3>12, <4>1 DEF Own
            <4>2. CASE i # Len(messages)
                <5>1. messages'[i] = messages[i] /\ messages[i].key # <<"assistant", n>>
                    BY <3>3, <3>10, <4>2 DEF Writes
                <5>2. Own(messages[i], delivered, swallowed) /\ messages[i] \in MessageType
                    BY <3>3 DEF OwnAnswers
                <5>3. IsAssistant(messages[i]) =>
                        messages[i].key[2] # n /\ messages[i].key[2] \in 0 .. MaxSends
                    BY <5>1, <5>2, MessageFields DEF IsAssistant
                <5> QED BY <1>1, <3>4, <5>1, <5>2, <5>3 DEF Own
            <4> QED BY <4>1, <4>2
        <3> QED BY <3>1, <3>2, <3>5, <3>10, <3>11 DEF OwnAnswers
    <2> QED BY <1>1, <2>1, AnswerRests
<1> QED BY <1>3, <1>4

\* PlainFails.
LEMMA AnswerFails ==
    ASSUME PlayInv, AnswerInv, PlainFails
    PROVE  AnswerInv'
<1>1. UNCHANGED <<config, editing, sends, delivered, overlapped, swallowed>>
    BY DEF PlainFails, history
<1>2. PICK n \in net.inflight :
        IF n \in net.aborted
        THEN net' = Settled(n, net.isRequesting) /\ UNCHANGED <<messages, saving, buffer>>
        ELSE /\ net' = Settled(n, FALSE) /\ buffer' = EmptyBuffer
             /\ messages' = updateAssistantMessageWithError(Flushed(messages))
    BY DEF PlainFails, updateMessages
<1>3. CASE n \in net.aborted
    BY <1>1, <1>2, <1>3, AnswerAborted
<1>4. CASE n \notin net.aborted
    <2>1. ASSUME ~overlapped
          PROVE  /\ ~Busy(net') /\ Rests(net', buffer'.pending) /\ OwnAnswers(messages', delivered', swallowed')
                 /\ \A k \in 0 .. MaxSends : k > sends => delivered'[k] = <<>>
        <3>1. ~Busy(net') /\ net'.source = 0 /\ net'.inflight \subseteq net'.aborted
            BY <1>2, <1>4, <2>1, PlainReported
        <3>2. Rests(net', buffer'.pending)
            BY <1>2, <1>4, <3>1, NoNetTypes DEF Rests
        <3>3. OwnAnswers(Flushed(messages), delivered, swallowed) /\ Flushed(messages) \in Seq(MessageType)
            BY <2>1, FlushedOwn DEF AnswerInv
        <3>4. OwnAnswers(messages', delivered', swallowed')
            BY <1>1, <1>2, <1>4, <3>3, OwnError
        <3> QED BY <1>1, <2>1, <3>1, <3>2, <3>4 DEF AnswerInv
    <2> QED BY <1>1, <2>1, AnswerRests
<1> QED BY <1>3, <1>4

\* A page that is opened shows what was kept: no request of its own has
\* delivered anything.
LEMMA AnswerOpens ==
    ASSUME PlayInv, OpenPage
    PROVE  AnswerInv'
<1>1. /\ ~Mounted /\ UNCHANGED <<net, buffer, delivered, sends>>
      /\ messages' = <<>> \/ \E size \in 1 .. MaxStored : messages' = loadMessages(size)
    BY DEF OpenPage, LoadSucceeds, LoadFails
<1>2. /\ net = NoNet /\ buffer = EmptyBuffer /\ delivered = NothingDelivered
      /\ sends \in Nat /\ Conversation(stored, sends)
    BY <1>1, PlayFacts DEF PlayInv, NetInv
<1>3. RequestInv'
    BY <1>1, <1>2, NoNetTypes DEF RequestInv, Busy, Rests, NoNet
<1>4. \A k \in 0 .. MaxSends : delivered'[k] = <<>>
    BY <1>1, <1>2 DEF NothingDelivered
<1>5. ASSUME NEW i \in DOMAIN messages' PROVE Own(messages'[i], delivered', swallowed')
    <2>1. /\ messages'[i].status = "complete" => messages'[i].text \in {OtherText, <<>>}
          /\ messages'[i] \in MessageType
        BY <1>1, <1>2, Loaded DEF Conversation
    <2>2. messages'[i].key[2] \in 0 .. MaxSends
        BY <2>1, MessageFields
    <2>3. \A n : AnswerOf(n, <<>>, <<>>, n \in swallowed')
        BY DEF AnswerOf, OfRequest
    <2> QED BY <1>4, <2>1, <2>2, <2>3 DEF Own
<1> QED BY <1>1, <1>3, <1>4, <1>5 DEF AnswerInv, OwnAnswers

\* A page that is left or closed has no conversation.
LEMMA AnswerLeaves ==
    ASSUME LeavePage \/ CloseTab
    PROVE  AnswerInv'
<1>1. /\ messages' = <<>> /\ net' = NoNet /\ buffer' = EmptyBuffer /\ delivered' = NothingDelivered
    BY DEF LeavePage, CloseTab, Unmounted
<1>2. RequestInv'
    BY <1>1, NoNetTypes DEF RequestInv, Busy, Rests, NoNet
<1> QED BY <1>1, <1>2 DEF AnswerInv, OwnAnswers, NothingDelivered

\* Init.
LEMMA AnswerInit == Init => AnswerInv
<1> SUFFICES ASSUME Init PROVE AnswerInv
    OBVIOUS
<1>1. RequestInv
    BY NoNetTypes DEF Init, RequestInv, Busy, Rests, NoNet
<1> QED BY <1>1 DEF Init, AnswerInv, OwnAnswers, NothingDelivered

\* Every step keeps the invariant.
LEMMA AnswerNext == PlayInv /\ PlayInv' /\ AnswerInv /\ [Next]_playgroundVars => AnswerInv'
<1> SUFFICES ASSUME PlayInv, PlayInv', AnswerInv, [Next]_playgroundVars PROVE AnswerInv'
    OBVIOUS
<1>1. CASE handleSendMessage \/ handleRegenerateMessage \/ SubmitEdit
    <2>1. Mounted
        BY <1>1 DEF handleSendMessage, handleRegenerateMessage, SubmitEdit
    <2>2. PICK ms : /\ sendChat(ms) /\ Asks(ms, sends)
                    /\ editing' = editing \/ editing' = NoKey
        BY <1>1, <2>1, SendAsks, RegenerateAsks, SubmitAsks
    <2> QED BY <2>1, <2>2, AnswerSend
<1>2. CASE SaveTimer \/ DetachedReports
    <2>1. UNCHANGED <<config, messages, editing, net, buffer, sends, delivered, overlapped, swallowed>>
        BY <1>2 DEF SaveTimer, DetachedReports
    <2> QED BY <2>1, AnswerIdle
<1>3. CASE UNCHANGED playgroundVars
    <2>1. UNCHANGED <<config, messages, editing, net, buffer, sends, delivered, overlapped, swallowed>>
        BY <1>3 DEF playgroundVars
    <2> QED BY <2>1, AnswerIdle
<1> QED BY <1>1, <1>2, <1>3, AnswerEdits, AnswerStop, AnswerStreamEnd, AnswerChunk, AnswerFlush,
           AnswerPlain, AnswerFails, AnswerOpens, AnswerLeaves
    DEF Next, UserActs, StreamReports, PlainReports

\* Every completed answer that the user or the page did not write has letters of
\* its own request only and no more than that request delivered, and it is exactly
\* what was delivered unless startsWith took a delta for a repetition, as long as
\* no edit is submitted while an answer is generated (flushStreamUpdates,
\* handleStreamComplete, stopGeneration and the plain answers, which all write to
\* the last message).
THEOREM AnswersAreTheirOwn == PlaygroundSpec => []AnswerIsItsOwn
<1>1. AnswerInv => AnswerIsItsOwn
    BY DEF AnswerInv, OwnAnswers, Own, AnswerOf, OfRequest, AnswerIsItsOwn
<1> QED BY <1>1, PlaySound, AnswerInit, AnswerNext, PTL DEF PlaygroundSpec

\* The state has its type (PlaygroundTypeOK).
THEOREM PlaygroundTyped == PlaygroundSpec => []PlaygroundTypeOK
<1>1. PlayInv => PlaygroundTypeOK
    <2> SUFFICES ASSUME PlayInv PROVE PlaygroundTypeOK
        OBVIOUS
    <2>1. PlayTypes /\ NetFits(net, config, sends) /\ net \in NetType
        BY PlayFacts DEF PlayInv
    <2>2. /\ net.source \in 0 .. MaxSends /\ net.inflight \subseteq 1 .. MaxSends
          /\ net.aborted \subseteq net.inflight
        BY <2>1 DEF NetType, NetFits
    <2>3. \A n \in 0 .. MaxSends :
              delivered[n] \in Seq(Nat \X Nat) /\ Len(delivered[n]) <= MaxChunks
        BY <2>1 DEF PlayTypes, Texts
    <2>4. {saving, overlapped, unkept} \subseteq BOOLEAN
        BY <2>1, Zenon DEF PlayTypes
    <2>5. /\ \A i \in DOMAIN messages : messages[i] \in MessageType
          /\ \A i \in DOMAIN stored : stored[i] \in MessageType
        BY <2>1 DEF PlayTypes
    <2>6. (buffer.pending # <<>>) = buffer.timer
        BY <2>1, Zenon DEF PlayTypes
    <2>7. /\ config \in [stream : BOOLEAN, snapshots : BOOLEAN]
          /\ page \in [open : BOOLEAN, opens : 0 .. MaxOpens]
          /\ Len(stored) <= MaxStored /\ editing \in Keys \cup {NoKey}
          /\ swallowed \subseteq 0 .. MaxSends /\ sends \in 0 .. MaxSends
        BY <2>1, Zenon DEF PlayTypes
    <2> QED BY <2>2, <2>3, <2>4, <2>5, <2>6, <2>7, Zenon DEF PlaygroundTypeOK
<1> QED BY <1>1, PlaySound, PTL
=============================================================================
