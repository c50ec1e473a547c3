---------------------------- MODULE RequestCharge ----------------------------
(***************************************************************************)
(* What billing promises for a request, without tables, funding sources,    *)
(* tokens, retries or reviews: the request holds an amount that may be       *)
(* corrected while it runs, and ends once, charged or given back.            *)
(***************************************************************************)
EXTENDS Naturals

CONSTANT Requests

VARIABLES
    outcome,    \* "absent", "open", "charged" or "returned", per request
    paid        \* what the request costs its user so far

Init ==
    /\ outcome = [r \in Requests |-> "absent"]
    /\ paid = [r \in Requests |-> 0]

\* r goes from one of `from` to `to`, at an amount of `amounts`, on its own.
Move(r, from, to, amounts) ==
    /\ outcome[r] \in from
    /\ outcome' = [outcome EXCEPT ![r] = to]
    /\ paid'[r] \in amounts
    /\ paid' = [paid EXCEPT ![r] = paid'[r]]

Hold(r) == Move(r, {"absent", "open"}, "open", Nat)
Charge(r) == Move(r, {"open"}, "charged", Nat)
GiveBack(r) == Move(r, {"open"}, "returned", {0})

Next == \E r \in Requests : Hold(r) \/ Charge(r) \/ GiveBack(r)

Spec == Init /\ [][Next]_<<outcome, paid>>

=============================================================================
