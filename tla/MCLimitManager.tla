--------------------------- MODULE MCLimitManager ---------------------------
(* Instances of LimitManager for TLC. *)
EXTENDS LimitManager

\* Below the lower bound, above it, and beyond what 1.5 times fits.
ThreeInitials == {1, 4, 34}
OneStep       == {1}
\* 3 * 8 lies between the ceilings.
TwoCurrents   == {0, 8}
NoCurrent     == {0}
\* At and around the thresholds of 3, 9 and 12 percent.
AllDeltas     == {0, 3, 5, 9, 12}

=============================================================================
