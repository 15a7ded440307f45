--------------------------- MODULE MCRateLimiter ----------------------------
(* The instance of RateLimiter for TLC. *)
EXTENDS RateLimiter

CONSTANTS t1, t2

TwoThreads == {t1, t2}
OneLimit   == {1}

=============================================================================
