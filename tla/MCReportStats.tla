--------------------------- MODULE MCReportStats ----------------------------
(* Instances of ReportStats for TLC. *)
EXTENDS ReportStats

OneJob    == {1}
TwoJobs   == {1, 2}
ThreeJobs == {1, 2, 3}
NoJob     == {}

\* One job that reports while it trains, or two shared ones, of which one
\* gives up at once and the other tries again.
Alone       == {{1}}
PairOrAlone == {{1, 2}, {3}}
Tries       == [j \in Job |-> IF j = 2 THEN 1 ELSE 2]
Once        == [j \in Job |-> 1]
LastTwice   == [j \in Job |-> IF j = 3 THEN 2 ELSE 0]

\* The second job at 1.25 times the rate of the first.
Unlike == [j \in Job |-> {3 + j}]

=============================================================================
