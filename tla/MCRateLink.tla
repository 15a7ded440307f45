----------------------------- MODULE MCRateLink -----------------------------
(* Instances of RateLink for TLC. *)
EXTENDS RateLink, TLC

CONSTANTS s1, s2, m1, m2, h1, h2, l1, l2

TwoSenders  == {s1, s2}
TwoManagers == {m1, m2}
Processes   == {h1, h2, l1, l2}

Apart == s1 :> h1 @@ s2 :> h2 @@ m1 :> l1 @@ m2 :> l2

\* Each thread in a process of its own, or both of a kind in one.
All == {Apart,
        s1 :> h1 @@ s2 :> h1 @@ m1 :> l1 @@ m2 :> l2,
        s1 :> h1 @@ s2 :> h2 @@ m1 :> l1 @@ m2 :> l1}

\* One low-priority process is out of descriptors sooner than the other.
Limits == h1 :> 3 @@ h2 :> 3 @@ l1 :> 1 @@ l2 :> 2

\* Two shared jobs: two low-priority processes, and no other.
NoSender     == {}
OnlyManagers == {m1 :> l1 @@ m2 :> l2}
=============================================================================
