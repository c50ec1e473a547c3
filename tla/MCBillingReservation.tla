------------------------ MODULE MCBillingReservation ------------------------
(* TLC instances of BillingReservation and its abstraction.                 *)
EXTENDS BillingCharge, TLC

CONSTANTS u1, t1, r1, r2, none

OneUserOf == (r1 :> u1) @@ (r2 :> u1)
LoneUserOf == r1 :> u1
LoneTokenOf == r1 :> t1
NoTokenOf == (r1 :> none) @@ (r2 :> none)
OneSubOwner == (1 :> u1) @@ (2 :> u1)
NoSubOwner == [s \in {} |-> u1]
NoSubCap == [s \in {} |-> 0]
TightSubCap == (1 :> 2) @@ (2 :> 0)

\* Sound where both requests have the same user and token.
RequestSymmetry == Permutations({r1, r2})

=============================================================================
