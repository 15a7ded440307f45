---------------------------- MODULE MCMemTracker ----------------------------
(* Instances of MemTracker for TLC. *)
EXTENDS MemTracker

CONSTANTS t1, t2, m1, a1

TwoThreads == {t1, t2}
OneManager == {m1}
NoManager  == {}
OneAddress == {a1}

=============================================================================
