---------------------------- MODULE MCUserFreeze ----------------------------
(* TLC instances of UserFreeze.                                             *)
EXTENDS UserFreeze

CONSTANTS a, b, c

=============================================================================
