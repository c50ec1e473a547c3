----------------------------- MODULE MCAsyncTask -----------------------------
(* TLC instances of AsyncTask.  Where a user's fetch also writes the row, one *)
(* polling pass at a time is enough for two writers to race.                *)
EXTENDS AsyncTask

CONSTANTS n1, n2

OverlappingPollers == [p \in Platforms |-> IF p = "gemini" THEN {n1} ELSE {n1, n2}]

=============================================================================
