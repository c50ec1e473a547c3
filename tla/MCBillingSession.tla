-------------------------- MODULE MCBillingSession --------------------------
(* TLC instances of BillingSession.                                         *)
EXTENDS BillingSession, TLC

CONSTANTS u1, r1, none

LoneUserOf == r1 :> u1
SkipTokenOf == r1 :> none
LoneSubOwner == 1 :> u1
LoneSubCap == 1 :> 2
NoSubOwner == [s \in {} |-> u1]
NoSubCap == [s \in {} |-> 0]

=============================================================================
