-------------------------- MODULE PaymentCheckout --------------------------
(* From the wallet page to a payment order.  The page (features/wallet in   *)
(* web/default/src: Wallet, usePayment, useWaffoPayment) asks the server    *)
(* for a quote of an amount and a method, shows it in a dialog, and starts  *)
(* the payment with the quote and a request id of its own; the server       *)
(* (createPaymentOrderFromQuote, StartPayment) turns a quote into at most   *)
(* one order, which the tab then opens (PaymentOrderPage).                  *)
(*                                                                          *)
(* Answers may be lost and starts may reach the server late, after the      *)
(* browser has given them up and tried again.  A quote's answer is taken    *)
(* with the quote's creation; a cancelled quote request is forgotten, since *)
(* the quote it may still create is never shown.                            *)
EXTENDS PaymentOrderPage

CONSTANTS
    Methods,    \* routes paid from a quote in the dialog
    Options,    \* routes of useWaffoPayment: quote and start in one click
    Default,    \* the method getDefaultPaymentMethod picks
    MinOf,      \* minimum of each method and option, 0 for none of its own
    Amounts,    \* top-up amounts the user may enter
    MaxQuotes,  \* bound: quotes created
    MaxStarts   \* bound: starts sent

ASSUME CheckoutAssumption ==
    /\ Default \in Methods
    /\ Methods \cap Options = {} /\ "none" \notin Methods
    /\ MinOf \in [Methods \cup Options -> Nat]
    /\ Amounts \subseteq Nat \ {0}
    /\ MaxQuotes \in Nat /\ MaxStarts \in Nat

VARIABLES
    quotes,     \* quotes created so far: [amount, route, expired, order]
    starts,     \* starts under way; see StartType
    sent,       \* starts sent so far
    wallet      \* state of the wallet page

vars == <<pageVars, quotes, starts, sent, wallet>>

Routes == Methods \cup Options
Quotes == 1..Len(quotes)
None   == [none |-> TRUE]

\* A start is identified by its number.  Its request id is the number of the
\* first start made for the quote.  awaited: the tab still waits for it.
StartType == [id : 1..MaxStarts, quote : 1..MaxQuotes, request : 1..MaxStarts,
              done : BOOLEAN, order : 0..MaxQuotes, awaited : BOOLEAN]

\* getMinTopupAmount: the least minimum a route has.
MinTopup ==
    LET own == {MinOf[r] : r \in Routes} \ {0}
    IN  IF own = {} THEN 1 ELSE CHOOSE m \in own : \A n \in own : m <= n

QuoteCall  == [amount : Amounts \cup {MinTopup}, route : Methods]
RequestRef == [quote : 1..MaxQuotes, request : 1..MaxStarts]
Operation  == [option : Options, amount : Amounts \cup {MinTopup}, quote : 1..MaxQuotes,
               request : 1..MaxStarts]

WalletType == [amount : Amounts \cup {MinTopup},\* topupAmount
               method : Methods,                \* selectedPaymentMethod
               quote : 0..MaxQuotes,
               timer : QuoteCall \cup {None},   \* debounceTimerRef
               call : QuoteCall \cup {None},    \* abortControllerRef
               dialog : BOOLEAN,                \* confirmDialogOpen
               loading : Routes \cup {"none"},  \* paymentLoading
               request : RequestRef \cup {None},\* paymentRequestRef
               start : 0..MaxStarts,            \* start processPayment waits for
               optionStart : 0..MaxStarts,      \* start useWaffoPayment waits for
               operation : Operation \cup {None}] \* operationRef of useWaffoPayment

\* (mutant) The request in flight is not aborted and its sequence not checked.
CancelKeepsCall(w) == [w EXCEPT !.timer = None, !.request = None]

\* cancelPendingQuote: the sequence number moves on, the request in flight is
\* aborted, the timer stopped and the request id dropped.  A method selection
\* that waited for the request ends.
CancelPendingQuote(w) ==
    [w EXCEPT !.timer = None, !.call = None, !.request = None,
              !.loading = IF w.call # None /\ @ \in Methods THEN "none" ELSE @]

SchedulePaymentQuote(w, a, m) ==
    [CancelPendingQuote(w) EXCEPT !.quote = 0, !.timer = [amount |-> a, route |-> m]]

CalculatePaymentQuote(w, a, m) ==
    [CancelPendingQuote(w) EXCEPT !.quote = 0, !.call = [amount |-> a, route |-> m]]

\* The page as it is when its top-up settings have loaded: the least amount
\* and the default method, quoted.
LoadedWallet(w) ==
    SchedulePaymentQuote([w EXCEPT !.amount = MinTopup, !.method = Default], MinTopup, Default)

FreshWallet ==
    LoadedWallet([amount |-> 0, method |-> Default, quote |-> 0, timer |-> None,
                  call |-> None, dialog |-> FALSE, loading |-> "none", request |-> None,
                  start |-> 0, optionStart |-> 0, operation |-> None])

CheckoutInit ==
    /\ orders = <<>> /\ view = OffPage
    /\ quotes = <<>> /\ starts = {} /\ sent = 0
    /\ wallet = FreshWallet

OnWallet == view.trade = 0
Usable   == OnWallet /\ ~wallet.dialog     \* the dialog is modal
Calculating == wallet.timer # None \/ wallet.call # None

-----------------------------------------------------------------------------
(* The wallet page.                                                        *)

\* A preset, or a number typed into the field.  What is not a number in range
\* counts as 0, which the page replaces by its initial amount and method.
handleTopupAmountChange(a) ==
    /\ Usable
    /\ wallet' = IF a = 0 THEN LoadedWallet(wallet)
                 ELSE SchedulePaymentQuote([wallet EXCEPT !.amount = a], a, wallet.method)
    /\ UNCHANGED <<pageVars, quotes, starts, sent>>

\* The debounce is over.
QuoteTimerFires ==
    /\ OnWallet /\ wallet.timer # None
    /\ wallet' = [wallet EXCEPT !.timer = None, !.call = wallet.timer]
    /\ UNCHANGED <<pageVars, quotes, starts, sent>>

\* The button is disabled below the method's own minimum only; a method that
\* has none is selected without a quote below the general one.
handlePaymentMethodSelect(m) ==
    LET w == [wallet EXCEPT !.method = m]
    IN  /\ Usable
        /\ wallet.loading = "none"
        /\ MinOf[m] <= wallet.amount
        /\ wallet' = IF MinOf[m] = 0 /\ wallet.amount < MinTopup THEN w
                     ELSE [CalculatePaymentQuote(w, w.amount, m) EXCEPT !.loading = m]
        /\ UNCHANGED <<pageVars, quotes, starts, sent>>

NewQuote(a, r) == [amount |-> a, route |-> r, expired |-> FALSE, order |-> 0]

\* applyQuote's answer: the quote is shown, and the selection that asked for
\* it opens the dialog.
ApplyQuote ==
    /\ OnWallet /\ wallet.call # None
    /\ Len(quotes) < MaxQuotes
    /\ quotes' = Append(quotes, NewQuote(wallet.call.amount, wallet.call.route))
    /\ wallet' = [wallet EXCEPT !.quote = Len(quotes) + 1, !.call = None,
                                !.dialog = @ \/ wallet.loading \in Methods,
                                !.loading = IF @ \in Methods THEN "none" ELSE @]
    /\ UNCHANGED <<pageVars, starts, sent>>

QuoteFails ==
    /\ OnWallet /\ wallet.call # None
    /\ wallet' = [wallet EXCEPT !.call = None,
                                !.loading = IF @ \in Methods THEN "none" ELSE @]
    /\ UNCHANGED <<pageVars, quotes, starts, sent>>

CloseDialog ==
    /\ OnWallet /\ wallet.dialog
    /\ wallet' = [wallet EXCEPT !.dialog = FALSE]
    /\ UNCHANGED <<pageVars, quotes, starts, sent>>

\* startPayment: the start leaves with the request id kept for its quote.
Send(q, r) ==
    /\ sent < MaxStarts
    /\ sent' = sent + 1
    /\ starts' = starts \cup {[id |-> sent + 1, quote |-> q, request |-> r,
                               done |-> FALSE, order |-> 0, awaited |-> TRUE]}

\* (mutant) Every try makes a request id.
RequestForAfresh(w, q) == sent + 1

\* The request id of a quote is made once: a retry reuses it.
RequestFor(w, q) ==
    IF w.request # None /\ w.request.quote = q THEN w.request.request ELSE sent + 1

\* handlePaymentConfirm and processPayment.  A quote that has expired by the
\* browser's clock is refused there and nothing changes.
handlePaymentConfirm ==
    LET r == RequestFor(wallet, wallet.quote)
    IN  /\ OnWallet /\ wallet.dialog
        /\ wallet.quote # 0 /\ ~Calculating /\ wallet.start = 0
        /\ Send(wallet.quote, r)
        /\ wallet' = [wallet EXCEPT !.start = sent + 1,
                                    !.request = [quote |-> wallet.quote, request |-> r]]
        /\ UNCHANGED <<pageVars, quotes>>

\* useWaffoPayment: the operation of the same option and amount is resumed;
\* another needs a quote first, whose failure ends the click.
SameOperation(o) ==
    /\ wallet.operation # None
    /\ wallet.operation.option = o /\ wallet.operation.amount = wallet.amount

OptionReady(o) ==
    /\ Usable
    /\ wallet.loading = "none"
    /\ MinOf[o] <= wallet.amount

handlePaymentRouteOptionSelect(o) ==
    /\ OptionReady(o)
    /\ SameOperation(o)
    /\ Send(wallet.operation.quote, wallet.operation.request)
    /\ wallet' = [wallet EXCEPT !.loading = o, !.optionStart = sent + 1]
    /\ UNCHANGED <<pageVars, quotes>>

NewOperation(o) ==
    /\ OptionReady(o)
    /\ ~SameOperation(o)
    /\ Len(quotes) < MaxQuotes
    /\ quotes' = Append(quotes, NewQuote(wallet.amount, o))
    /\ Send(Len(quotes) + 1, sent + 1)
    /\ wallet' = [wallet EXCEPT !.loading = o, !.optionStart = sent + 1,
                                !.operation = [option |-> o, amount |-> wallet.amount,
                                               quote |-> Len(quotes) + 1, request |-> sent + 1]]
    /\ UNCHANGED pageVars

-----------------------------------------------------------------------------
(* The server and the way back.                                            *)

OrderOf(request) == {o \in Orders : orders[o].request = request}

Answered(s, o) == starts' = (starts \ {s}) \cup
    IF s.awaited THEN {[s EXCEPT !.done = TRUE, !.order = o]} ELSE {}

\* The request id is looked up first: a retry gets the order it made, as long
\* as that is open.  An order that has nothing to pay yet may be found due on
\* the way, and is expired.
RetriedStart(s) ==
    \E o \in OrderOf(s.request) :
        /\ UNCHANGED quotes
        /\ \/ /\ Answered(s, IF orders[o].status \in Open THEN o ELSE 0)
              /\ UNCHANGED orders
           \/ /\ orders[o].status = "preparing"
              /\ Answered(s, 0)
              /\ SetStatus(o, "expired")

\* Otherwise a quote that is live and unused becomes an order.
FirstStart(s) ==
    /\ OrderOf(s.request) = {}
    /\ ~quotes[s.quote].expired
    /\ quotes[s.quote].order = 0
    /\ orders' = Append(orders, [quote |-> s.quote, request |-> s.request,
                                 status |-> "preparing"])
    /\ quotes' = [quotes EXCEPT ![s.quote].order = Len(orders) + 1]
    /\ Answered(s, Len(orders) + 1)

\* An expired or consumed quote, or a limit, version or account that forbids
\* the order.
RefusedStart(s) ==
    /\ OrderOf(s.request) = {}
    /\ Answered(s, 0)
    /\ UNCHANGED <<orders, quotes>>

StartPayment(s) ==
    /\ ~s.done
    /\ RetriedStart(s) \/ FirstStart(s) \/ RefusedStart(s)
    /\ UNCHANGED <<view, sent, wallet>>

\* The page's handler is done with a start: the buttons come back.
StartEnds(w, s) ==
    [w EXCEPT !.start = IF @ = s.id THEN 0 ELSE @,
              !.optionStart = IF @ = s.id THEN 0 ELSE @,
              !.loading = IF w.optionStart = s.id THEN "none" ELSE @]

\* A started order opens its page, wherever the tab is by then: the wallet is
\* unmounted, and a page of another order watches the new one.
OrderOpens(s) ==
    /\ s.done /\ s.order # 0
    /\ view' = StartPolling(s.order, FALSE)
    /\ wallet' = FreshWallet
    /\ starts' = starts \ {s}
    /\ UNCHANGED <<orders, quotes, sent>>

StartRefused(s) ==
    /\ s.done /\ s.order = 0
    /\ wallet' = StartEnds(wallet, s)
    /\ starts' = starts \ {s}
    /\ UNCHANGED <<pageVars, quotes, sent>>

\* The connection fails before the answer is there; the start itself may be
\* lost or still on its way.
StartLost(s) ==
    /\ s.awaited
    /\ wallet' = StartEnds(wallet, s)
    /\ \/ starts' = starts \ {s}
       \/ ~s.done /\ starts' = (starts \ {s}) \cup {[s EXCEPT !.awaited = FALSE]}
    /\ UNCHANGED <<pageVars, quotes, sent>>

QuoteExpires(q) ==
    /\ ~quotes[q].expired /\ quotes[q].order = 0
    /\ quotes' = [quotes EXCEPT ![q].expired = TRUE]
    /\ UNCHANGED <<pageVars, starts, sent, wallet>>

\* The user leaves the order's page for the wallet, or the wallet and comes
\* back: the page is mounted anew, what was started goes on.
ReturnToWallet ==
    /\ view' = OffPage
    /\ wallet' = FreshWallet
    /\ UNCHANGED <<orders, quotes, starts, sent>>

-----------------------------------------------------------------------------
WalletStep ==
    \/ \E a \in Amounts \cup {0} : handleTopupAmountChange(a)
    \/ QuoteTimerFires
    \/ \E m \in Methods : handlePaymentMethodSelect(m)
    \/ ApplyQuote
    \/ QuoteFails
    \/ CloseDialog
    \/ handlePaymentConfirm
    \/ \E o \in Options : handlePaymentRouteOptionSelect(o) \/ NewOperation(o)

StartStep == \E s \in starts :
    StartPayment(s) \/ OrderOpens(s) \/ StartRefused(s) \/ StartLost(s)

CheckoutNext ==
    \/ WalletStep
    \/ StartStep
    \/ \E q \in Quotes : QuoteExpires(q)
    \/ ReturnToWallet
    \/ (OrderStep \/ PageStep) /\ UNCHANGED <<quotes, starts, sent, wallet>>

CheckoutSpec == CheckoutInit /\ [][CheckoutNext]_vars

\* The browser's timers fire and a request ends, in an answer or an error.
FairCheckoutSpec ==
    /\ CheckoutSpec
    /\ WF_vars(PollAgain /\ UNCHANGED <<quotes, starts, sent, wallet>>)
    /\ WF_vars(AbortedPollReturns /\ UNCHANGED <<quotes, starts, sent, wallet>>)
    /\ WF_vars((OrderArrives \/ RequestFails) /\ UNCHANGED <<quotes, starts, sent, wallet>>)

-----------------------------------------------------------------------------
(* Properties                                                              *)

\* The orders and quotes of the server and the state of both pages.
CheckoutTypeOK ==
    /\ orders \in Seq([quote : 1..MaxQuotes, request : 1..MaxStarts,
                       status : Statuses])
    /\ view \in ViewType /\ view.trade \in 0..Len(orders)
    /\ quotes \in Seq([amount : Amounts \cup {MinTopup}, route : Routes,
                       expired : BOOLEAN, order : 0..MaxQuotes])
    /\ starts \subseteq StartType
    /\ sent \in 0..MaxStarts
    /\ wallet \in WalletType

\* However often a start is lost, repeated or overtaken by its own retry, one
\* confirmation makes one order: no two orders share a quote or a request id,
\* and every start still under way for a used quote will find that order by
\* its request id instead of being told that the quote is used up.
OneOrderPerConfirmation ==
    /\ \A o, p \in Orders : o # p =>
          orders[o].quote # orders[p].quote /\ orders[o].request # orders[p].request
    /\ \A s \in starts : LET o == quotes[s.quote].order
                         IN  o # 0 => orders[o].request = s.request

\* What the dialog shows is what is started: the quote confirmed is for the
\* amount and the method on the page, whatever was typed, selected or
\* answered late before.
ConfirmedAsShown ==
    [][handlePaymentConfirm => /\ quotes[wallet.quote].amount = wallet.amount
                               /\ quotes[wallet.quote].route = wallet.method]_vars

=============================================================================
