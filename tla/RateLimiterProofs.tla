------------------------- MODULE RateLimiterProofs --------------------------
(***************************************************************************)
(* The overshoot of the rate limiter, for any number of threads, kernel    *)
(* sizes and limits: a window carries at most one kernel of each thread    *)
(* over the largest limit in force in it.                                  *)
(*                                                                         *)
(* WindowBounded is not inductive: a thread that has passed the test will  *)
(* still add its kernel.  Reserve keeps room for those, above every x the  *)
(* limit may yet grow to: Bound(x) holds the threads that were let through *)
(* or will be by a limit of x, and the room they need fits below           *)
(* x + Cardinality(Thread) * MaxSize.                                      *)
(*                                                                         *)
(* What is assumed of the managers is no more and no less than             *)
(* LimitProtocol, which limit_manager is proved to keep.                   *)
(***************************************************************************)
EXTENDS RateLimiter, FiniteSetTheorems, TLAPS

N == Cardinality(Thread)
Place == {"idle", "init", "activate", "flag", "limit", "test", "compare", "add"}

LEMMA Sizes == N \in Nat /\ MaxSize \in Nat /\ N * MaxSize \in Nat
BY LimiterAssumption, FS_CardinalityType DEF N

\* What the arithmetic needs of products.
LEMMA Products ==
    ASSUME NEW a \in Nat, NEW b \in Nat, NEW m \in Nat
    PROVE  /\ a <= b => a * m <= b * m
           /\ (a + 1) * m = a * m + m
           /\ a * m \in Nat
OBVIOUS

\* The threads let through are among the threads.
LEMMA BoundFinite ==
    ASSUME NEW x
    PROVE  /\ IsFiniteSet(Bound(x)) /\ Cardinality(Bound(x)) \in Nat
           /\ Cardinality(Bound(x)) <= N
<1>1. Bound(x) \in SUBSET Thread
  BY DEF Bound
<1> QED BY <1>1, LimiterAssumption, FS_Subset, FS_CardinalityType DEF N

LEMMA BoundFiniteNext ==
    ASSUME NEW x
    PROVE  /\ IsFiniteSet(Bound(x)') /\ Cardinality(Bound(x)') \in Nat
           /\ Cardinality(Bound(x)') <= N
<1>1. Bound(x)' \in SUBSET Thread
  BY DEF Bound
<1> QED BY <1>1, LimiterAssumption, FS_Subset, FS_CardinalityType DEF N

\* A step keeps Reserve if, for every x, it leaves the counter no higher than
\* x, or lets no further thread through.
LEMMA KeepReserve ==
    ASSUME IInv, counter' \in Nat,
           cap' # Unlimited => \A x \in Nat : x >= cap' =>
              \/ counter' <= x
              \/ /\ cap # Unlimited /\ x >= cap
                 /\ counter' = counter /\ Bound(x)' \subseteq Bound(x)
    PROVE  Reserve'
<1> SUFFICES ASSUME cap' # Unlimited, NEW x \in Nat, x >= cap'
             PROVE  counter' + Cardinality(Bound(x)') * MaxSize <= x + N * MaxSize
  BY DEF Reserve, N
<1>1. CASE counter' <= x
  <2>1. Cardinality(Bound(x)') * MaxSize <= N * MaxSize
    BY BoundFiniteNext, Products, Sizes
  <2>2. Cardinality(Bound(x)') * MaxSize \in Nat
    BY BoundFiniteNext, Products, Sizes
  <2> QED BY <1>1, <2>1, <2>2, Sizes
<1>2. CASE /\ cap # Unlimited /\ x >= cap
           /\ counter' = counter /\ Bound(x)' \subseteq Bound(x)
  <2>1. counter + Cardinality(Bound(x)) * MaxSize <= x + N * MaxSize
    BY <1>2 DEF IInv, Reserve, N
  <2>2. Cardinality(Bound(x)') <= Cardinality(Bound(x))
    <3>1. Bound(x)' \in SUBSET Bound(x)
      BY <1>2
    <3> QED BY <3>1, BoundFinite, FS_Subset
  <2>3. /\ Cardinality(Bound(x)') * MaxSize <= Cardinality(Bound(x)) * MaxSize
        /\ Cardinality(Bound(x)') * MaxSize \in Nat
        /\ Cardinality(Bound(x)) * MaxSize \in Nat
    BY <2>2, BoundFinite, BoundFiniteNext, Products, Sizes
  <2> QED BY <1>2, <2>1, <2>3, Sizes
<1> QED BY <1>1, <1>2

-----------------------------------------------------------------------------

LEMMA InitInv == ASSUME Init PROVE IInv
<1>1. TypeOK
  <2>1. size \in [Thread -> 0 .. MaxSize]
    BY Sizes DEF Init
  <2>2. sessions \in Nat
    BY LimiterAssumption DEF Init
  <2>3. held \in [Thread -> Nat \cup {-1}]
    BY DEF Init
  <2> QED BY <2>1, <2>2, <2>3 DEF Init, TypeOK
<1>2. CapCovers /\ Reserve
  BY DEF Init, CapCovers, Reserve, Unlimited
<1> QED BY <1>1, <1>2 DEF IInv

\* Facts of every step of a thread: the limit, the flag and the ghost stay.
LEMMA ThreadInv == ASSUME IInv, NEW t \in Thread, ThreadStep(t) PROVE IInv'
<1>0. TypeOK /\ CapCovers /\ Reserve
  BY DEF IInv
<1>t. /\ counter \in Nat /\ limit \in Int /\ pc \in [Thread -> Place]
      /\ size \in [Thread -> 0 .. MaxSize] /\ held \in [Thread -> Nat \cup {-1}]
      /\ (cap # Unlimited => cap \in Nat)
  <2>1. /\ counter \in Nat /\ size \in [Thread -> 0 .. MaxSize]
        /\ held \in [Thread -> Nat \cup {-1}]
    BY <1>0 DEF TypeOK
  <2>2. limit \in Int /\ (cap # Unlimited => cap \in Nat)
    BY <1>0, LimiterAssumption DEF TypeOK
  <2>3. pc \in [Thread -> Place]
    BY <1>0 DEF TypeOK, Place
  <2> QED BY <2>1, <2>2, <2>3
<1>1. CASE Launch(t)
  <2>1. TypeOK'
    BY <1>0, <1>1 DEF Launch, Goto, TypeOK, shared
  <2>2. CapCovers'
    BY <1>0, <1>1 DEF Launch, CapCovers, InForce, shared
  <2>3. \A x : Bound(x)' \subseteq Bound(x)
    BY <1>1, <1>t DEF Launch, Goto, Bound
  <2>4. Reserve'
    BY <1>0, <1>1, <1>t, <2>3, KeepReserve DEF Launch, shared
  <2> QED BY <2>1, <2>2, <2>4 DEF IInv
<1>2. CASE Claim(t)
  <2>1. TypeOK'
    BY <1>0, <1>2 DEF Claim, Goto, TypeOK
  <2>2. CapCovers'
    BY <1>0, <1>2 DEF Claim, CapCovers, InForce
  <2>3. \A x : Bound(x)' \subseteq Bound(x)
    BY <1>2, <1>t DEF Claim, Goto, Bound
  <2>4. Reserve'
    BY <1>0, <1>2, <1>t, <2>3, KeepReserve DEF Claim
  <2> QED BY <2>1, <2>2, <2>4 DEF IInv
<1>3. CASE Activate(t)
  <2>1. TypeOK'
    BY <1>0, <1>3 DEF Activate, Goto, TypeOK, shared
  <2>2. CapCovers'
    BY <1>0, <1>3 DEF Activate, CapCovers, InForce, shared
  <2>3. \A x : Bound(x)' \subseteq Bound(x)
    BY <1>3, <1>t DEF Activate, Goto, Bound
  <2>4. Reserve'
    BY <1>0, <1>3, <1>t, <2>3, KeepReserve DEF Activate, shared
  <2> QED BY <2>1, <2>2, <2>4 DEF IInv
<1>4. CASE ReadFlag(t)
  <2>1. TypeOK'
    BY <1>0, <1>4 DEF ReadFlag, Goto, TypeOK, shared
  <2>2. CapCovers'
    BY <1>0, <1>4 DEF ReadFlag, CapCovers, InForce, shared
  <2>3. cap # Unlimited => \A x : Bound(x)' \subseteq Bound(x)
    BY <1>0, <1>4, <1>t DEF ReadFlag, Goto, Bound, CapCovers, InForce, shared
  <2>4. Reserve'
    BY <1>0, <1>4, <1>t, <2>3, KeepReserve DEF ReadFlag, shared
  <2> QED BY <2>1, <2>2, <2>4 DEF IInv
<1>5. CASE ReadLimit(t)
  <2>1. TypeOK'
    BY <1>0, <1>5, LimiterAssumption DEF ReadLimit, Goto, TypeOK, shared
  <2>2. CapCovers'
    BY <1>0, <1>5 DEF ReadLimit, CapCovers, InForce, shared
  <2>3. cap # Unlimited => \A x \in Nat : x >= cap => Bound(x)' \subseteq Bound(x)
    BY <1>0, <1>5, <1>t DEF ReadLimit, Goto, Bound, CapCovers, InForce, shared
  <2>4. Reserve'
    BY <1>0, <1>5, <1>t, <2>3, KeepReserve DEF ReadLimit, shared
  <2> QED BY <2>1, <2>2, <2>4 DEF IInv
<1>6. CASE TestHeld(t)
  <2>1. TypeOK'
    BY <1>0, <1>6 DEF TestHeld, Goto, Forget, TypeOK, shared
  <2>2. CapCovers'
    BY <1>0, <1>6 DEF TestHeld, CapCovers, InForce, shared
  <2>3. \A x \in Nat : counter <= x \/ Bound(x)' \subseteq Bound(x)
    BY <1>6, <1>t DEF TestHeld, Goto, Forget, Bound
  <2>4. Reserve'
    BY <1>0, <1>6, <1>t, <2>3, KeepReserve DEF TestHeld, shared
  <2> QED BY <2>1, <2>2, <2>4 DEF IInv
<1>7. CASE LoadCounter(t)
  <2>1. TypeOK'
    BY <1>0, <1>7 DEF LoadCounter, Goto, TypeOK, shared
  <2>2. CapCovers'
    BY <1>0, <1>7 DEF LoadCounter, CapCovers, InForce, shared
  <2>3. \A x \in Nat : counter <= x \/ Bound(x)' \subseteq Bound(x)
    BY <1>7, <1>t DEF LoadCounter, Goto, Bound
  <2>4. Reserve'
    BY <1>0, <1>7, <1>t, <2>3, KeepReserve DEF LoadCounter, shared
  <2> QED BY <2>1, <2>2, <2>4 DEF IInv
<1>8. CASE Compare(t)
  <2>1. TypeOK'
    BY <1>0, <1>8 DEF Compare, Goto, Forget, TypeOK, shared
  <2>2. CapCovers'
    BY <1>0, <1>8 DEF Compare, CapCovers, InForce, shared
  <2>3. cap # Unlimited => \A x \in Nat : x >= cap => Bound(x)' \subseteq Bound(x)
    BY <1>0, <1>8, <1>t DEF Compare, Goto, Forget, Bound, CapCovers, InForce, shared, Unlimited
  <2>4. Reserve'
    BY <1>0, <1>8, <1>t, <2>3, KeepReserve DEF Compare, shared
  <2> QED BY <2>1, <2>2, <2>4 DEF IInv
<1>9. CASE Add(t)
  <2>0. /\ pc[t] = "add" /\ counter' = counter + size[t] /\ pc' = [pc EXCEPT ![t] = "idle"]
        /\ UNCHANGED <<limit, flag, held, cap>>
        /\ size[t] \in Nat /\ size[t] <= MaxSize
    BY <1>9, <1>t, Sizes DEF Add, Goto
  <2>1. TypeOK'
    <3>1. size' \in [Thread -> 0 .. MaxSize]
      BY <1>9, <1>t, Sizes DEF Add
    <3> QED BY <1>0, <1>9, <1>t, <2>0, <3>1 DEF Add, Goto, TypeOK
  <2>2. CapCovers'
    BY <1>0, <2>0 DEF CapCovers, InForce
  <2>3. ASSUME cap # Unlimited, NEW x \in Nat, x >= cap
        PROVE  counter' + Cardinality(Bound(x)') * MaxSize <= x + N * MaxSize
    <3> DEFINE b == Cardinality(Bound(x)')
    <3>1. counter + Cardinality(Bound(x)) * MaxSize <= x + N * MaxSize
      BY <1>0, <2>3 DEF Reserve, N
    <3>2. Bound(x) = Bound(x)' \cup {t} /\ t \notin Bound(x)'
      BY <1>t, <2>0 DEF Bound
    <3>3. Cardinality(Bound(x)) = b + 1 /\ b \in Nat
      BY <3>2, BoundFiniteNext, FS_AddElement
    <3> HIDE DEF b
    <3>4. (b + 1) * MaxSize = b * MaxSize + MaxSize /\ b * MaxSize \in Nat
      BY <3>3, Products, Sizes
    <3> QED BY <1>t, <2>0, <3>1, <3>3, <3>4, Sizes DEF b
  <2>4. Reserve'
    BY <2>0, <2>3 DEF Reserve, N
  <2> QED BY <2>1, <2>2, <2>4 DEF IInv
<1> QED BY <1>1, <1>2, <1>3, <1>4, <1>5, <1>6, <1>7, <1>8, <1>9 DEF ThreadStep, LaunchStep

\* The watcher starts a window: the counter is 0, the limit the current one.
LEMMA WatcherInv == ASSUME IInv, NEW t \in Thread, WatcherStep(t) PROVE IInv'
<1>0. TypeOK /\ CapCovers /\ Reserve
  BY DEF IInv
<1>1. CASE Empty(t)
  <2>1. InForce \in Limit \cup {Unlimited}
    BY <1>0 DEF TypeOK, InForce
  <2>2. TypeOK'
    BY <1>0, <1>1, <2>1 DEF Empty, TypeOK, thread
  <2>3. CapCovers'
    <3>1. InForce' = InForce /\ cap' = InForce
      BY <1>1 DEF Empty, InForce
    <3>2. InForce \in Int
      BY <2>1, LimiterAssumption DEF Unlimited
    <3> QED BY <3>1, <3>2 DEF CapCovers
  <2>4. Reserve'
    BY <1>1, KeepReserve DEF Empty
  <2> QED BY <2>2, <2>3, <2>4 DEF IInv
<1>2. CASE Sample(t)
  <2>1. TypeOK'
    BY <1>0, <1>2 DEF Sample, TypeOK, shared, thread
  <2>2. CapCovers' /\ Reserve'
    BY <1>0, <1>2 DEF Sample, CapCovers, InForce, Reserve, Bound, shared, thread
  <2> QED BY <2>1, <2>2 DEF IInv
<1> QED BY <1>1, <1>2 DEF WatcherStep

\* Writing the limit or the flag lets no thread through, and the ghost grows
\* to what is in force.
LEMMA LimitInv ==
    ASSUME IInv, NEW l \in Limit \cup {-1, 0}, SetLimit(l),
           manager' \in [Thread -> {"none", "accept", "connected", "profile",
                                    "control", "closed"}],
           sessions' \in Nat
    PROVE  IInv'
<1>0. TypeOK /\ CapCovers /\ Reserve
  BY DEF IInv
<1>1. TypeOK'
  BY <1>0 DEF SetLimit, TypeOK, Wider, Unlimited, thread
<1>2. l \in Int /\ (cap # Unlimited => cap \in Nat) /\ (l > 0 => l \in Nat)
  BY <1>0, LimiterAssumption DEF TypeOK
<1>3. CapCovers'
  <2>1. InForce' = (IF flag = 1 /\ l > 0 THEN l ELSE Unlimited)
    BY DEF SetLimit, InForce
  <2>2. InForce' \in Int /\ cap' = Wider(cap, InForce')
    BY <1>2, <2>1 DEF SetLimit, Unlimited
  <2> QED BY <1>2, <2>2 DEF CapCovers, Wider
<1>4. cap' # Unlimited => cap # Unlimited /\ cap' >= cap /\ cap' \in Nat
  BY <1>2 DEF SetLimit, Wider, Unlimited
<1>5. \A x : Bound(x)' = Bound(x)
  BY DEF SetLimit, Bound, thread
<1>6. Reserve'
  BY <1>0, <1>2, <1>4, <1>5, KeepReserve DEF SetLimit, TypeOK
<1> QED BY <1>1, <1>3, <1>6 DEF IInv

LEMMA FlagInv ==
    ASSUME IInv, NEW f \in {0, 1}, SetFlag(f),
           manager' \in [Thread -> {"none", "accept", "connected", "profile",
                                    "control", "closed"}],
           sessions' \in Nat
    PROVE  IInv'
<1>0. TypeOK /\ CapCovers /\ Reserve
  BY DEF IInv
<1>1. TypeOK'
  BY <1>0 DEF SetFlag, TypeOK, Wider, Unlimited, thread
<1>2. limit \in Int /\ (cap # Unlimited => cap \in Nat)
  BY <1>0, LimiterAssumption DEF TypeOK
<1>3. CapCovers'
  <2>1. InForce' = (IF f = 1 /\ limit > 0 THEN limit ELSE Unlimited)
    BY DEF SetFlag, InForce
  <2>2. InForce' \in Int /\ cap' = Wider(cap, InForce')
    BY <1>2, <2>1 DEF SetFlag, Unlimited
  <2> QED BY <1>2, <2>2 DEF CapCovers, Wider
<1>4. cap' # Unlimited => cap # Unlimited /\ cap' >= cap /\ cap' \in Nat
  BY <1>2 DEF SetFlag, Wider, Unlimited
<1>5. \A x : Bound(x)' = Bound(x)
  BY DEF SetFlag, Bound, thread
<1>6. Reserve'
  BY <1>0, <1>2, <1>4, <1>5, KeepReserve DEF SetFlag, TypeOK
<1> QED BY <1>1, <1>3, <1>6 DEF IInv

LEMMA ManagerInv == ASSUME IInv, NEW t \in Thread, ManagerStep(t) PROVE IInv'
<1>1. /\ manager' \in [Thread -> {"none", "accept", "connected", "profile",
                                  "control", "closed"}]
      /\ sessions' \in Nat
  BY DEF IInv, TypeOK, ManagerStep, MoveManager, Connected, ControlOn, FirstLimit,
         UpdateLimit, Disconnected, ControlOff
<1>2. \/ \E l \in Limit \cup {-1, 0} : SetLimit(l)
      \/ \E f \in {0, 1} : SetFlag(f)
  BY DEF ManagerStep, Connected, ControlOn, FirstLimit, UpdateLimit, Disconnected, ControlOff
<1> QED BY <1>1, <1>2, LimitInv, FlagInv

-----------------------------------------------------------------------------

\* The inductive invariant of the launch path.
THEOREM Invariance == Spec => []IInv
<1>1. Init => IInv
  BY InitInv
<1>2. IInv /\ [Next]_vars => IInv'
  <2>1. ASSUME IInv, UNCHANGED vars PROVE IInv'
    BY <2>1 DEF vars, IInv, TypeOK, CapCovers, InForce, Reserve, Bound
  <2> QED BY <2>1, ThreadInv, WatcherInv, ManagerInv DEF Next
<1> QED BY <1>1, <1>2, PTL DEF Spec

\* Types, for every number of threads and every set of limits.
THEOREM TypeCorrect == Spec => []TypeOK
<1>1. IInv => TypeOK
  BY DEF IInv
<1> QED BY <1>1, Invariance, PTL

\* The overshoot of a window of rate_watcher is at most one kernel per
\* thread over the largest limit in force in it.
THEOREM OvershootBounded == Spec => []WindowBounded
<1>1. IInv => WindowBounded
  <2> SUFFICES ASSUME IInv, cap # Unlimited PROVE counter <= cap + N * MaxSize
    BY DEF WindowBounded, N
  <2>1. cap \in Nat /\ cap >= cap /\ counter \in Nat
    BY LimiterAssumption DEF IInv, TypeOK
  <2>2. counter + Cardinality(Bound(cap)) * MaxSize <= cap + N * MaxSize
    BY <2>1 DEF IInv, Reserve, N
  <2>3. Cardinality(Bound(cap)) * MaxSize \in Nat
    BY BoundFinite, Products, Sizes
  <2> QED BY <2>1, <2>2, <2>3, Sizes
<1> QED BY <1>1, Invariance, PTL

-----------------------------------------------------------------------------
(* What the launch path and the controller may assume of each other.       *)

\* LimitProtocol is all that this module assumes of limit_manager, and it
\* assumes no less: a manager's steps are exactly those the protocol allows,
\* so what LimitManagerProofs proves of the controller discharges it.
THEOREM ProtocolIsManager == Spec => ManagersKeepProtocol
<1>1. IInv /\ [Next]_vars => [\A t \in Thread : ManagerStep(t) <=> ByProtocol(t)]_vars
  <2> SUFFICES ASSUME IInv, NEW t \in Thread PROVE ManagerStep(t) <=> ByProtocol(t)
    OBVIOUS
  <2> USE DEF Controller!Next, Controller!Move, Controller!Connected, Controller!ControlOn,
              Controller!FirstLimit, Controller!UpdateLimit, Controller!Disconnected,
              Controller!ControlOff
  <2>0. DOMAIN manager = Thread
    BY DEF IInv, TypeOK
  <2>1. ASSUME ManagerStep(t) PROVE ByProtocol(t)
    <3>1. /\ Controller(t)!Next /\ (manager[t] = "accept" => sessions > 0)
          /\ manager' = [manager EXCEPT ![t] = manager'[t]]
          /\ sessions' = IF manager[t] = "accept" THEN sessions - 1 ELSE sessions
      BY <2>0, <2>1 DEF ManagerStep, MoveManager, Connected, ControlOn, FirstLimit,
                        UpdateLimit, Disconnected, ControlOff, SetLimit, SetFlag
    <3>2. cap' = Wider(cap, InForce') /\ UNCHANGED <<active, counter, thread, watcher>>
      BY <2>1 DEF ManagerStep, Connected, ControlOn, FirstLimit, UpdateLimit, Disconnected,
                  ControlOff, SetLimit, SetFlag, InForce
    <3> QED BY <3>1, <3>2 DEF ByProtocol
  <2>2. ASSUME ByProtocol(t) PROVE ManagerStep(t)
    BY <2>0, <2>2 DEF ByProtocol, ManagerStep, MoveManager, Connected, ControlOn, FirstLimit,
                      UpdateLimit, Disconnected, ControlOff, SetLimit, SetFlag, InForce
  <2> QED BY <2>1, <2>2
<1> QED BY <1>1, Invariance, PTL DEF Spec, ManagersKeepProtocol

\* A kernel is never held back on a device whose counter nobody empties.
THEOREM AlwaysWatched == Spec => []Watched
<1>1. Init => Watched
  BY DEF Init, Watched
<1>2. TypeOK /\ Watched /\ [Next]_vars => Watched'
  <2> SUFFICES ASSUME TypeOK, Watched, [Next]_vars PROVE Watched'
    OBVIOUS
  <2>0. DOMAIN pc = Thread /\ DOMAIN watcher = Thread
    BY DEF TypeOK
  <2>1. CASE UNCHANGED vars
    BY <2>1 DEF vars, Watched
  <2>2. ASSUME NEW t \in Thread, Launch(t) PROVE Watched'
    BY <2>0, <2>2 DEF Launch, Goto, Watched, shared
  <2>3. ASSUME NEW t \in Thread, Claim(t) PROVE Watched'
    BY <2>0, <2>3 DEF Claim, Goto, Watched
  <2>4. ASSUME NEW t \in Thread, Activate(t) PROVE Watched'
    BY <2>0, <2>4 DEF Activate, Goto, Watched, shared
  <2>5. ASSUME NEW t \in Thread,
               ReadFlag(t) \/ ReadLimit(t) \/ TestHeld(t) \/ LoadCounter(t) \/ Compare(t) \/ Add(t)
        PROVE  Watched'
    <3>1. /\ UNCHANGED <<active, watcher>> /\ pc[t] \notin {"idle", "init", "activate"}
          /\ \A u \in Thread : u # t => pc'[u] = pc[u]
      BY <2>0, <2>5 DEF ReadFlag, ReadLimit, TestHeld, LoadCounter, Compare, Add, Goto, shared
    <3> QED BY <3>1 DEF Watched
  <2>6. ASSUME NEW t \in Thread, WatcherStep(t) PROVE Watched'
    BY <2>0, <2>6 DEF WatcherStep, Empty, Sample, Watched, shared, thread
  <2>7. ASSUME NEW t \in Thread, ManagerStep(t) PROVE Watched'
    BY <2>7 DEF ManagerStep, Connected, ControlOn, FirstLimit, UpdateLimit, Disconnected,
                ControlOff, SetLimit, SetFlag, Watched, thread
  <2> QED BY <2>1, <2>2, <2>3, <2>4, <2>5, <2>6, <2>7 DEF Next, ThreadStep, LaunchStep
<1> QED BY <1>1, <1>2, TypeCorrect, PTL DEF Spec

=============================================================================
