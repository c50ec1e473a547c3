-------------------------- MODULE PaymentOrderPage --------------------------
(* A payment order on the server and the page that watches it: the hook     *)
(* usePaymentOrder (web/default/src/features/wallet/hooks) and its use by   *)
(* PaymentCheckoutPage.                                                     *)
(*                                                                          *)
(* An order carries the status code the API shows of it; failed, reviewed   *)
(* and reversed orders are all "unavailable".  The server may find an open  *)
(* order due at any moment, and so may the browser, by its own clock.  One  *)
(* tab is modelled; view.trade is 0 when it is not on an order's page.      *)
EXTENDS Naturals, Sequences

CONSTANT MaxFailures    \* polls without an order in a row before polling stops

ASSUME FailuresAssumption == MaxFailures \in Nat \ {0}

VARIABLES
    orders,     \* orders created so far: [quote, request, status]
    view        \* state of usePaymentOrder

pageVars == <<orders, view>>

Open     == {"preparing", "awaiting"}
Statuses == Open \cup {"expired", "unavailable", "succeeded"}
Orders   == 1..Len(orders)

ViewType == [trade : Nat,
             order : Statuses \cup {"none"},
             poll : {"off", "timer", "calling", "nulled"},
             request : {"none", "poll", "manual"},
             failures : 0..(MaxFailures - 1),
             stopped : {"none", "expired", "network", "timeout"},
             error : BOOLEAN,
             due : BOOLEAN]         \* the browser's clock has passed the expiry

OffPage == [trade |-> 0, order |-> "none", poll |-> "off", request |-> "none",
            failures |-> 0, stopped |-> "none", error |-> FALSE, due |-> FALSE]

-----------------------------------------------------------------------------
(* The order on the server.                                                *)

SetStatus(o, s) == orders' = [orders EXCEPT ![o].status = s]

\* The create task stored the provider's answer: there is something to pay.
SavePaymentOrderStart(o) ==
    /\ orders[o].status = "preparing"
    /\ SetStatus(o, "awaiting")
    /\ UNCHANGED view

\* A verified paid event, a dispute that is won, or an administrator's decision.
\* An expired or failed order is recovered by it.
FulfillPaymentOrder(o) ==
    /\ orders[o].status # "succeeded"
    /\ SetStatus(o, "succeeded")
    /\ UNCHANGED view

\* The provider refuses, reports a failure, or the order needs review.
FailPaymentOrder(o) ==
    /\ orders[o].status \in Open \cup {"expired"}
    /\ SetStatus(o, "unavailable")
    /\ UNCHANGED view

\* A refund or a dispute of a fulfilled order.
ReversePaymentOrder(o) ==
    /\ orders[o].status = "succeeded"
    /\ SetStatus(o, "unavailable")
    /\ UNCHANGED view

\* The sweep finds the order due.
ExpireDuePaymentOrder(o) ==
    /\ orders[o].status \in Open
    /\ SetStatus(o, "expired")
    /\ UNCHANGED view

OrderStep ==
    \E o \in Orders :
        \/ SavePaymentOrderStart(o)
        \/ FulfillPaymentOrder(o)
        \/ FailPaymentOrder(o)
        \/ ReversePaymentOrder(o)
        \/ ExpireDuePaymentOrder(o)

-----------------------------------------------------------------------------
(* The hook.                                                               *)

\* (mutant) A submitted payment counts as ended.
isTerminalWhenSubmitted(s) == s # "preparing"

isPaymentOrderTerminal(s) == s \notin Open
\* refresh: a request in flight is aborted first, and the poll that waits for
\* the aborted one gets null.
Refresh(v, by) ==
    [v EXCEPT !.request = by,
              !.poll = IF by = "poll" THEN "calling"
                       ELSE IF v.request = "poll" THEN "nulled" ELSE @]

\* loading is set by a refresh that has no order to show meanwhile.
Loading(v) == v.order = "none" /\ v.request # "none"

\* The effect run for a trade number, first or again: all is forgotten and a
\* poll starts.
StartPolling(o, due) == Refresh([OffPage EXCEPT !.trade = o, !.due = due], "poll")

BrowserClockPasses ==
    /\ view.trade # 0 /\ ~view.due
    /\ view' = [view EXCEPT !.due = TRUE]
    /\ UNCHANGED orders

\* What poll does once refresh has returned an order (got) or null; late says
\* that the browser's clock has passed the deadline.
AfterPoll(v, got, late) ==
    LET missed == v.failures + 1
        ends(reason) == [v EXCEPT !.poll = "off", !.stopped = reason,
                                  !.failures = IF got THEN 0 ELSE @]
    IN  CASE got /\ isPaymentOrderTerminal(v.order) -> [v EXCEPT !.poll = "off"]
          [] ~got /\ missed >= MaxFailures          -> ends("network")
          [] OTHER ->
               IF late THEN ends(IF v.order = "none" THEN "timeout" ELSE "expired")
               ELSE [v EXCEPT !.poll = "timer", !.failures = IF got THEN 0 ELSE missed]

\* Without an order the deadline is a quarter of an hour after the effect ran.
LateChoices(v) == IF v.order = "none" THEN BOOLEAN ELSE {v.due}

PollAgain ==
    /\ view.poll = "timer"
    /\ view' = Refresh(view, "poll")
    /\ UNCHANGED orders

Landed(v) == [v EXCEPT !.request = "none"]

OrderArrives ==
    LET v == [Landed(view) EXCEPT !.order = orders[view.trade].status, !.error = FALSE]
    IN  /\ view.request # "none"
        /\ IF view.request = "poll"
           THEN \E late \in LateChoices(v) : view' = AfterPoll(v, TRUE, late)
           ELSE view' = v
        /\ UNCHANGED orders

RequestFails ==
    LET v == [Landed(view) EXCEPT !.error = TRUE]
    IN  /\ view.request # "none"
        /\ IF view.request = "poll"
           THEN \E late \in LateChoices(v) : view' = AfterPoll(v, FALSE, late)
           ELSE view' = v
        /\ UNCHANGED orders

\* The poll whose request a manual refresh aborted goes on with null.
AbortedPollReturns ==
    /\ view.poll = "nulled"
    /\ \E late \in LateChoices(view) : view' = AfterPoll(view, FALSE, late)
    /\ UNCHANGED orders

\* The tab becomes visible and no request is in flight.
handleVisibilityChange ==
    /\ view.trade # 0
    /\ view.request = "none"
    /\ view' = Refresh(view, "manual")
    /\ UNCHANGED orders

getEffectivePaymentStatus(v) ==
    IF v.due /\ v.order \in Open THEN "expired" ELSE v.order

\* The page offers a refresh: on a failed order, beside the paused notice,
\* and from the panels of an order that waits for its payment.
OffersRefresh(v) ==
    LET displayed == getEffectivePaymentStatus(v)
    IN  \/ displayed \in {"unavailable", "awaiting"}
        \/ v.order # "none" /\ displayed # "expired" /\ (v.error \/ v.stopped # "none")

handleRefresh ==
    /\ OffersRefresh(view)
    /\ ~Loading(view)
    /\ view' = IF view.stopped # "none" THEN StartPolling(view.trade, view.due)
               ELSE Refresh(view, "manual")
    /\ UNCHANGED orders

\* The page of an order that could not be loaded has a retry button of its own.
RetryLoad ==
    /\ view.trade # 0 /\ view.error /\ view.order = "none" /\ ~Loading(view)
    /\ view' = Refresh(view, "manual")
    /\ UNCHANGED orders

PollStep == PollAgain \/ OrderArrives \/ RequestFails \/ AbortedPollReturns

PageStep == PollStep \/ BrowserClockPasses \/ handleVisibilityChange \/ handleRefresh \/ RetryLoad

-----------------------------------------------------------------------------
(* Properties                                                              *)

\* Once an order on the page is paid while the page still shows it as open, it
\* comes to show the success, unless the page has stopped polling (it says so, or
\* shows the order as expired when the expiry was the reason), is left, or the
\* payment is reversed first.
Paid == view.trade # 0 /\ orders[view.trade].status = "succeeded"

SettledIsShown ==
    (Paid /\ view.order \in Open \cup {"none"})
        ~> (~Paid \/ view.order = "succeeded" \/ view.stopped # "none")
=============================================================================
