----------------------------- MODULE MCRecords -----------------------------
(* Instances of Records for TLC. *)
EXTENDS Records, TLC

CONSTANTS a, b

TwoJobs == {a, b}

\* The one reports often enough for a row that looks back too far, and for
\* a second row if the first forgot to reset; the other only starts and ends
\* in between, which makes the main thread record twice in one turn.
ThreeAndNone == a :> 3 @@ b :> 0
=============================================================================
