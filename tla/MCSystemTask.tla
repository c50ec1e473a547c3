---------------------------- MODULE MCSystemTask ----------------------------
(* TLC instances of SystemTask.                                             *)
EXTENDS SystemTask

CONSTANTS n1, n2

=============================================================================
