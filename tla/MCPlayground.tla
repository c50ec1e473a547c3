--------------------------- MODULE MCPlayground ---------------------------
(* Instance of Playground: two requests of two chunks each on top of an    *)
(* empty or a stored conversation, the page opened twice, and a store      *)
(* shorter than the longest conversation.                                  *)
EXTENDS Playground
=============================================================================
