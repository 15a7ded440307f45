---------------------------- MODULE RateLimiter -----------------------------
(***************************************************************************)
(* The launch path of a low-priority process on one device, in             *)
(* src/hijack/src/low_priority_hijack_call.c: rate_limiter, which every    *)
(* hijacked kernel launch goes through, initialization, the rate_watcher   *)
(* thread that empties the counter every 50 ms, and of limit_manager the   *)
(* order in which it writes the limit and the flag.                        *)
(*                                                                         *)
(* The shared words are plain C variables, read one at a time without a    *)
(* lock, each in the order written; a build may reuse the limit it tested  *)
(* for > 0 or load it again after the counter, and both are here.  Two     *)
(* threads may both find the device inactive: each then starts a watcher   *)
(* and a manager, named here after the thread that started them.           *)
(***************************************************************************)
EXTENDS Integers, FiniteSets

CONSTANTS
    Thread,     \* threads of the process that launch kernels
    MaxSize,    \* the largest kernel_size
    Limit,      \* limits the manager sets, all positive
    CountBound, \* bound: no launch begins while the counter is above it
    Sessions    \* bound: connections of high-priority processes

ASSUME LimiterAssumption ==
    /\ IsFiniteSet(Thread)
    /\ MaxSize \in Nat \ {0}
    /\ Limit \subseteq Nat \ {0} /\ Limit # {}
    /\ CountBound \in Nat /\ Sessions \in Nat

VARIABLES
    active,    \* g_active_gpu
    counter,   \* g_rate_counter
    limit,     \* g_rate_limit
    flag,      \* g_rate_control_flag
    pc,        \* where a launching thread is
    size,      \* its kernel_size
    held,      \* the limit it tested, or the counter it loaded
    watcher,   \* where the watcher a thread started is
    sessions,  \* connections still to come
    manager,   \* where the limit_manager a thread started is
    cap        \* the largest limit in force since the counter was emptied

shared == <<active, counter, limit, flag>>
thread == <<pc, size, held>>
vars == <<active, counter, limit, flag, pc, size, held, watcher,
          sessions, manager, cap>>

\* No limit: launch_test takes any that is not positive, or a flag not 1, so.
Unlimited == 0
InForce == IF flag = 1 /\ limit > 0 THEN limit ELSE Unlimited
Wider(a, b) == IF a = Unlimited \/ b = Unlimited THEN Unlimited
               ELSE IF a < b THEN b ELSE a

Init ==
    /\ active = FALSE /\ counter = 0 /\ limit = 0 /\ flag = 0
    /\ pc = [t \in Thread |-> "idle"]
    /\ size = [t \in Thread |-> 0] /\ held = [t \in Thread |-> 0]
    /\ watcher = [t \in Thread |-> "none"]
    /\ manager = [t \in Thread |-> "none"]
    /\ sessions = Sessions /\ cap = Unlimited

Goto(t, here) == pc' = [pc EXCEPT ![t] = here]

\* What a thread holds goes with the test it was read for, and its kernel's
\* size with the launch.
Forget(t) == held' = [held EXCEPT ![t] = 0]

-----------------------------------------------------------------------------
(* rate_limiter.                                                           *)

\* The size is the product of the grid's dimensions in 32 bits: 0 if it wraps.
\* The bound is met only where no limit is in force.
Launch(t) ==
    /\ pc[t] = "idle" /\ counter <= CountBound
    /\ \E k \in 0 .. MaxSize : size' = [size EXCEPT ![t] = k]
    /\ Goto(t, IF active THEN "flag" ELSE "init")
    /\ UNCHANGED <<shared, held, watcher, sessions, manager, cap>>

\* initialization: the device is claimed after it was found inactive.
Claim(t) ==
    /\ pc[t] = "init"
    /\ active' = TRUE
    /\ Goto(t, "activate")
    /\ UNCHANGED <<counter, limit, flag, size, held, watcher, sessions, manager, cap>>

Activate(t) ==
    /\ pc[t] = "activate"
    /\ watcher' = [watcher EXCEPT ![t] = "start"]
    /\ manager' = [manager EXCEPT ![t] = "accept"]
    /\ Goto(t, "flag")
    /\ UNCHANGED <<shared, size, held, sessions, cap>>

\* launch_test, read by read.
ReadFlag(t) ==
    /\ pc[t] = "flag"
    /\ Goto(t, IF flag = 1 THEN "limit" ELSE "add")
    /\ UNCHANGED <<shared, size, held, watcher, sessions, manager, cap>>

ReadLimit(t) ==
    /\ pc[t] = "limit"
    /\ held' = [held EXCEPT ![t] = limit]
    /\ Goto(t, IF limit > 0 THEN "test" ELSE "add")
    /\ UNCHANGED <<shared, size, watcher, sessions, manager, cap>>

\* Mutant of TestHeld: the loop is an if, a kernel waits one cycle at most.
TestOnce(t) ==
    /\ pc[t] = "test"
    /\ Goto(t, "add")
    /\ Forget(t)
    /\ UNCHANGED <<shared, size, watcher, sessions, manager, cap>>

TestHeld(t) ==
    /\ pc[t] = "test"
    /\ Goto(t, IF counter > held[t] THEN "flag" ELSE "add")
    /\ Forget(t)
    /\ UNCHANGED <<shared, size, watcher, sessions, manager, cap>>

LoadCounter(t) ==
    /\ pc[t] = "test"
    /\ held' = [held EXCEPT ![t] = counter]
    /\ Goto(t, "compare")
    /\ UNCHANGED <<shared, size, watcher, sessions, manager, cap>>

Compare(t) ==
    /\ pc[t] = "compare"
    /\ Goto(t, IF held[t] > limit THEN "flag" ELSE "add")
    /\ Forget(t)
    /\ UNCHANGED <<shared, size, watcher, sessions, manager, cap>>

\* Mutant of Add: a launched kernel is taken off the counter.
AddTakes(t) ==
    /\ pc[t] = "add"
    /\ counter' = counter - size[t]
    /\ Goto(t, "idle")
    /\ size' = [size EXCEPT ![t] = 0]
    /\ UNCHANGED <<active, limit, flag, held, watcher, sessions, manager, cap>>

\* __sync_add_and_fetch.
Add(t) ==
    /\ pc[t] = "add"
    /\ counter' = counter + size[t]
    /\ Goto(t, "idle")
    /\ size' = [size EXCEPT ![t] = 0]
    /\ UNCHANGED <<active, limit, flag, held, watcher, sessions, manager, cap>>

LaunchStep(t) ==
    \/ Claim(t) \/ Activate(t)
    \/ ReadFlag(t) \/ ReadLimit(t) \/ TestHeld(t) \/ LoadCounter(t) \/ Compare(t)
    \/ Add(t)

ThreadStep(t) == Launch(t) \/ LaunchStep(t)

-----------------------------------------------------------------------------
(* rate_watcher.                                                           *)

\* Mutant of Empty: the sample is taken, the counter keeps its value.
EmptyNot(t) ==
    /\ watcher[t] = "sampled"
    /\ cap' = InForce
    /\ watcher' = [watcher EXCEPT ![t] = "asleep"]
    /\ UNCHANGED <<shared, thread, sessions, manager>>

\* The counter is set to 0, first at the start and then after each sample;
\* kernels added since the sample was read are in no sample.
Empty(t) ==
    /\ watcher[t] \in {"start", "sampled"}
    /\ counter' = 0 /\ cap' = InForce
    /\ watcher' = [watcher EXCEPT ![t] = "asleep"]
    /\ UNCHANGED <<active, limit, flag, thread, sessions, manager>>

Sample(t) ==
    /\ watcher[t] = "asleep"
    /\ watcher' = [watcher EXCEPT ![t] = "sampled"]
    /\ UNCHANGED <<shared, thread, sessions, manager, cap>>

-----------------------------------------------------------------------------
(* limit_manager, as far as launch_test can see it.                        *)

MoveManager(t, from, to) ==
    /\ manager[t] = from
    /\ manager' = [manager EXCEPT ![t] = to]
    /\ sessions' = IF from = "accept" THEN sessions - 1 ELSE sessions

SetLimit(l) ==
    /\ limit' = l
    /\ cap' = Wider(cap, IF flag = 1 /\ l > 0 THEN l ELSE Unlimited)
    /\ UNCHANGED <<active, counter, flag, thread, watcher>>

SetFlag(f) ==
    /\ flag' = f
    /\ cap' = Wider(cap, IF f = 1 /\ limit > 0 THEN limit ELSE Unlimited)
    /\ UNCHANGED <<active, counter, limit, thread, watcher>>

\* A high-priority process connected and sent its max_rate.
Connected(t)    == sessions > 0 /\ MoveManager(t, "accept", "connected") /\ SetLimit(-1)
ControlOn(t)    == MoveManager(t, "connected", "profile") /\ SetFlag(1)
FirstLimit(t)   == MoveManager(t, "profile", "control") /\ \E l \in Limit : SetLimit(l)
UpdateLimit(t)  == MoveManager(t, "control", "control") /\ \E l \in Limit : SetLimit(l)
Disconnected(t) == /\ \/ MoveManager(t, "profile", "closed")
                      \/ MoveManager(t, "control", "closed")
                   /\ SetLimit(0)
ControlOff(t)   == MoveManager(t, "closed", "accept") /\ SetFlag(0)

ManagerStep(t) ==
    \/ Connected(t) \/ ControlOn(t) \/ FirstLimit(t) \/ UpdateLimit(t)
    \/ Disconnected(t) \/ ControlOff(t)

WatcherStep(t) == Empty(t) \/ Sample(t)

Next == \E t \in Thread : ThreadStep(t) \/ WatcherStep(t) \/ ManagerStep(t)

Spec == Init /\ [][Next]_vars

\* A thread that launches a kernel and a watcher keep running; nobody has to
\* launch another one, and the manager waits for samples that may never come.
Fairness == \A t \in Thread : WF_vars(LaunchStep(t)) /\ WF_vars(WatcherStep(t))

FairSpec == Spec /\ Fairness

-----------------------------------------------------------------------------
(* Properties.                                                             *)

TypeOK ==
    /\ active \in BOOLEAN /\ counter \in Nat
    /\ limit \in Limit \cup {-1, 0} /\ flag \in {0, 1}
    /\ pc \in [Thread -> {"idle", "init", "activate", "flag", "limit", "test",
                          "compare", "add"}]
    /\ size \in [Thread -> 0 .. MaxSize]
    /\ held \in [Thread -> Nat \cup {-1}]
    /\ sessions \in Nat
    /\ watcher \in [Thread -> {"none", "start", "asleep", "sampled"}]
    /\ manager \in [Thread -> {"none", "accept", "connected", "profile",
                               "control", "closed"}]
    /\ cap \in Limit \cup {Unlimited}

\* Checking the counter and adding to it are not one step, but a window of
\* the watcher never carries more than one kernel of each thread over the
\* largest limit in force in it.
WindowBounded ==
    cap # Unlimited => counter <= cap + Cardinality(Thread) * MaxSize

\* The process is throttled, never stopped: while a kernel is held back some
\* thread launches one, again and again, with a high-priority process
\* connected as well as after it left; and a thread whose rivals launch no
\* more is not held back for ever.  With rivals that go on, one thread may
\* be: each window can be filled by another before it tests the counter.  So
\* may all, by peers that reconnect for ever, each time between the load of
\* the counter and that of the limit, then -1: connections are finite here.
LaunchesResume ==
    \A t \in Thread :
        /\ pc[t] = "flag" ~> \E u \in Thread : pc[u] = "add"
        /\ <>[](\A u \in Thread \ {t} : pc[u] = "idle")
               => (pc[t] = "flag" ~> pc[t] = "idle")

\* No thread tests the counter on a device that nobody empties it of: where
\* one got past initialization, a watcher runs or is about to be started.
Watched ==
    active \/ (\E t \in Thread : pc[t] \notin {"idle", "init"})
        => \E w \in Thread : watcher[w] # "none" \/ pc[w] = "activate"

\* What LimitProtocol says of the manager a thread started, which is all that
\* is assumed of it here: the rest of the state follows from its writes.
Controller(t) == INSTANCE LimitProtocol WITH stage <- manager[t]

ByProtocol(t) ==
    /\ Controller(t)!Next
    /\ manager[t] = "accept" => sessions > 0
    /\ manager' = [manager EXCEPT ![t] = manager'[t]]
    /\ sessions' = IF manager[t] = "accept" THEN sessions - 1 ELSE sessions
    /\ cap' = Wider(cap, InForce')
    /\ UNCHANGED <<active, counter, thread, watcher>>

ManagersKeepProtocol == [][\A t \in Thread : ManagerStep(t) <=> ByProtocol(t)]_vars

-----------------------------------------------------------------------------
(* What holds besides, for the proofs of RateLimiterProofs.                *)

CapCovers == cap # Unlimited => InForce # Unlimited /\ InForce <= cap

\* The threads that will add their kernel without seeing the counter above x.
Bound(x) ==
    {t \in Thread : \/ pc[t] = "add"
                    \/ pc[t] = "compare" /\ held[t] <= x
                    \/ pc[t] = "test" /\ held[t] > x}

Reserve ==
    cap # Unlimited => \A x \in Nat : x >= cap =>
        counter + Cardinality(Bound(x)) * MaxSize
            <= x + Cardinality(Thread) * MaxSize

IInv == TypeOK /\ CapCovers /\ Reserve

=============================================================================
