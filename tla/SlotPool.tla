------------------------------ MODULE SlotPool ------------------------------
(***************************************************************************)
(* What the worker promises about GPUs, with no queue, clock or program    *)
(* counter: a job leases all the GPUs it asks for in one step, keeps them  *)
(* at least as long as its container runs, and gives all of them back in   *)
(* one step; a GPU is never leased beyond the capacity of the priority     *)
(* class.  Scheduler.tla implements it.                                    *)
(***************************************************************************)
EXTENDS Naturals, FiniteSets

CONSTANTS
    Job,          \* the rows of the trace
    GPU,          \* the indexes of the machine list
    Priority,     \* [Job -> class]
    NumGpus,      \* [Job -> Nat], the gpu_requests column
    Shareable     \* classes that admit two jobs per GPU

VARIABLES
    phase,        \* [Job -> {"waiting","running","failed","exited","gone"}]
    lease         \* [Job -> SUBSET GPU]

poolVars == <<phase, lease>>

\* How many jobs of class p may hold one GPU.
PoolCapacity(p) == IF p \in Shareable THEN 2 ELSE 1

Holders(g, p) == {j \in Job : Priority[j] = p /\ g \in lease[j]}

Init ==
    /\ phase = [j \in Job |-> "waiting"]
    /\ lease = [j \in Job |-> {}]

\* The job gets exactly the GPUs it asked for, none of them full.  Its
\* container starts, or fails to start with the lease already taken.
Acquire(j) ==
    /\ phase[j] = "waiting"
    /\ \E S \in SUBSET GPU :
          /\ Cardinality(S) = NumGpus[j]
          /\ \A g \in S :
                Cardinality(Holders(g, Priority[j])) < PoolCapacity(Priority[j])
          /\ lease' = [lease EXCEPT ![j] = S]
    /\ \E outcome \in {"running", "failed"} :
          phase' = [phase EXCEPT ![j] = outcome]

\* The container ends by itself: its lease stays.
Exit(j) ==
    /\ phase[j] = "running"
    /\ phase' = [phase EXCEPT ![j] = "exited"]
    /\ UNCHANGED lease

\* Only a job whose container has ended gives its GPUs back.
GiveBack(j) ==
    /\ phase[j] = "exited"
    /\ phase' = [phase EXCEPT ![j] = "gone"]
    /\ lease' = [lease EXCEPT ![j] = {}]

Next == \E j \in Job : Acquire(j) \/ Exit(j) \/ GiveBack(j)

Spec == Init /\ [][Next]_poolVars
=============================================================================
