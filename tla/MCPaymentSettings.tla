------------------------ MODULE MCPaymentSettings ------------------------
(* Instances of PaymentSettings for TLC. *)
EXTENDS PaymentSettings, TLC

CONSTANTS n1, n2, g, b

NodeSymmetry == Permutations(Nodes)
=============================================================================
