------------------------- MODULE LimitManagerProofs -------------------------
(***************************************************************************)
(* What limit_manager guarantees for all bounds, thresholds of samples and *)
(* initial limits: the limit it sets always throttles and never starves,   *)
(* no sample after the first profile is judged by an uninitialized entry   *)
(* of the window, each sample moves the limit in the direction it calls    *)
(* for, and LimitProtocol, on which RateLimiter relies, is kept.           *)
(*                                                                         *)
(* JunkAtFirstOnly is not inductive: Filled adds that a profile has filled *)
(* as many entries as it took samples, so that the ProfileTime of them it  *)
(* takes at least fill the window, and that once control has begun the     *)
(* window is full, in later profiles too.                                  *)
(***************************************************************************)
EXTENDS LimitManager, FunctionTheorems, FiniteSetTheorems, TLAPS

Filled ==
    phase \in {"profile", "control"} =>
        \A i \in Slot :
            phase = "control" \/ cnt > 0 \/ i <= t => window[i] # "junk"

\* Where an average took in junk.
Tainted == averaged => cnt = 0 /\ t \in 1 .. WindowSize

IInv == TypeOK /\ LimitInForce /\ Filled /\ Tainted

LEMMA Numbers ==
    /\ WindowSize \in Nat /\ ProfileTime \in Nat /\ Warmup \in Nat /\ Warmup > 0
    /\ WindowSize >= 5 /\ ProfileTime >= WindowSize
    /\ Lower \in Nat /\ Lower > 0 /\ Lower <= AvoidCap /\ Lower <= Upper
    /\ AvoidCap \in Nat /\ SlowCap \in Nat /\ Upper \in Nat /\ LongMax \in Nat
    /\ RateMin \in Nat /\ RateMin > 0
    /\ BadSamples \in Nat /\ BadSamples > 0
BY ManagerAssumption

LEMMA Data ==
    /\ Initials \subseteq Nat \ {0}
    /\ Steps \subseteq Nat /\ Currents \subseteq Nat /\ Deltas \subseteq Nat
BY ManagerAssumption

\* The ceilings are integers at or above the lower bound.
LEMMA Ceilings ==
    ASSUME NEW c \in Currents
    PROVE  /\ Ceiling(c, AvoidCap) \in Int /\ Ceiling(c, SlowCap) \in Int
           /\ Ceiling(c, AvoidCap) >= Lower
BY Numbers, Data DEF Ceiling, max, min

\* What update_rate_limit yields, before and after the lower bound.
LEMMA SlowStartType ==
    ASSUME TypeOK, NEW d \in Deltas, NEW c \in Currents
    PROVE  /\ SlowStart(d, c).limit \in Int
           /\ SlowStart(d, c).state \in {"slow_start", "avoidance"}
           /\ SlowStart(d, c).sign \in {-1, 0, 1}
<1>1. limit \in Int /\ sign \in {-1, 0, 1}
  BY DEF TypeOK
<1>2. Converted((3 * limit) \div 2 + 1) \in Int
  BY <1>1, Numbers DEF Converted
<1>3. min(Converted((3 * limit) \div 2 + 1), Ceiling(c, SlowCap)) \in Int
  BY <1>2, Ceilings DEF min
<1> QED BY <1>1, <1>3 DEF SlowStart

LEMMA AvoidanceType ==
    ASSUME TypeOK, NEW d \in Deltas, NEW c \in Currents, NEW s \in Steps
    PROVE  /\ CongestionAvoidance(d, c, s).limit \in Int
           /\ CongestionAvoidance(d, c, s).state \in {"slow_start", "avoidance"}
           /\ CongestionAvoidance(d, c, s).sign \in {-1, 0, 1}
<1> DEFINE raw   == IF Calm(d) THEN limit + s ELSE limit - Decrease
           moved == min(raw, Ceiling(c, AvoidCap))
<1>1. limit \in Int /\ s \in Int
  BY Data DEF TypeOK
<1>2. raw \in Int
  BY <1>1, Numbers DEF Decrease, max
<1>3. moved \in Int
  BY <1>2, Ceilings DEF min
<1>4. CongestionAvoidance(d, c, s).limit
        = IF d >= 3 * Threshold THEN moved \div 10 ELSE moved
  BY DEF CongestionAvoidance
<1>5. /\ CongestionAvoidance(d, c, s).state \in {"slow_start", "avoidance"}
      /\ CongestionAvoidance(d, c, s).sign \in {-1, 0, 1}
  BY DEF CongestionAvoidance
<1> HIDE DEF moved
<1>6. CongestionAvoidance(d, c, s).limit \in Int
  BY <1>3, <1>4
<1> QED BY <1>5, <1>6

LEMMA UpdateType ==
    ASSUME TypeOK, NEW d \in Deltas, NEW c \in Currents, NEW s \in Steps, Update(d, c, s)
    PROVE  /\ limit' \in Int /\ limit' >= Lower
           /\ state' \in {"none", "slow_start", "avoidance"} /\ sign' \in {-1, 0, 1}
           /\ bad' \in 0 .. BadSamples - 1
<1> DEFINE r == IF state = "slow_start" THEN SlowStart(d, c)
                ELSE CongestionAvoidance(d, c, s)
           spoilt == d >= BadDelta /\ bad + 1 >= BadSamples
<1>1. /\ r.limit \in Int /\ r.state \in {"slow_start", "avoidance"}
      /\ r.sign \in {-1, 0, 1}
  BY SlowStartType, AvoidanceType
<1>2. /\ limit' = max(Lower, IF spoilt THEN r.limit \div 2 ELSE r.limit)
      /\ state' = IF spoilt THEN "slow_start" ELSE r.state
      /\ sign' = r.sign
      /\ bad' = IF d >= BadDelta /\ ~spoilt THEN bad + 1 ELSE 0
  BY DEF Update
<1>3. bad' \in 0 .. BadSamples - 1
  BY <1>2, Numbers, Data DEF TypeOK, BadDelta
<1> HIDE DEF r, spoilt
<1>4. limit' \in Int /\ limit' >= Lower
  BY <1>1, <1>2, Numbers DEF max
<1> QED BY <1>1, <1>2, <1>3, <1>4

-----------------------------------------------------------------------------
(* The window.                                                             *)

LEMMA ShiftType ==
    ASSUME TypeOK, NEW r \in Rate, Shift(r)
    PROVE  /\ window' \in [Slot -> Rate \cup {"junk"}] /\ averaged' \in BOOLEAN
           /\ window'[1] # "junk"
           /\ \A i \in Slot \ {1} : i - 1 \in Slot /\ window'[i] = window[i - 1]
BY Numbers DEF TypeOK, Shift, Slot, Rate

\* A window that is full stays full, and its average is of samples.
LEMMA FullStays ==
    ASSUME TypeOK, Filled, phase \in {"profile", "control"},
           phase = "control" \/ cnt > 0, NEW r \in Rate, Shift(r)
    PROVE  (\A i \in Slot : window'[i] # "junk") /\ ~averaged'
<1>1. \A i \in Slot : window[i] # "junk"
  BY DEF Filled
<1>2. \A i \in Slot : window'[i] # "junk"
  BY <1>1, ShiftType DEF Slot
<1> QED BY <1>1, <1>2 DEF Shift

-----------------------------------------------------------------------------
(* Steps.                                                                  *)

LEMMA InitInv == ASSUME Init PROVE IInv
<1>1. TypeOK
  <2>1. window \in [Slot -> Rate \cup {"junk"}]
    BY DEF Init
  <2>2. averaged \in BOOLEAN
    BY DEF Init
  <2>3. /\ initial \in Initials /\ limit \in Int /\ flag \in {0, 1}
        /\ phase \in {"accept", "connected", "profile", "control", "closed"}
        /\ state \in {"none", "slow_start", "avoidance"} /\ sign \in {-1, 0, 1}
        /\ delta \in Deltas \cup {-1}
    BY DEF Init
  <2>4. bad \in 0 .. BadSamples - 1 /\ cnt \in 0 .. Warmup + 1 /\ t \in 0 .. ProfileTime
    BY Numbers DEF Init
  <2> QED BY <2>1, <2>2, <2>3, <2>4 DEF TypeOK
<1> QED BY <1>1 DEF IInv, LimitInForce, Filled, Tainted, Init

LEMMA ConnectionInv ==
    ASSUME IInv, Connect \/ ControlOn \/ Disconnect \/ ControlOff
    PROVE  IInv'
<1>1. CASE Connect
  BY <1>1 DEF Connect, IInv, TypeOK, LimitInForce, Filled, Tainted
<1>2. CASE ControlOn
  <2>1. TypeOK'
    <3>1. window' \in [Slot -> Rate \cup {"junk"}]
      BY <1>2 DEF ControlOn
    <3>2. averaged' \in BOOLEAN
      BY <1>2 DEF ControlOn
    <3>3. cnt' \in 0 .. Warmup + 1 /\ t' \in 0 .. ProfileTime
      BY <1>2, Numbers DEF ControlOn
    <3> QED BY <1>2, <3>1, <3>2, <3>3 DEF ControlOn, IInv, TypeOK
  <2>2. LimitInForce' /\ Filled' /\ Tainted'
    BY <1>2 DEF ControlOn, LimitInForce, Filled, Tainted, Slot
  <2> QED BY <2>1, <2>2 DEF IInv
<1>3. CASE Disconnect
  BY <1>3 DEF Disconnect, IInv, TypeOK, LimitInForce, Filled, Tainted
<1>4. CASE ControlOff
  BY <1>4 DEF ControlOff, IInv, TypeOK, LimitInForce, Filled, Tainted
<1> QED BY <1>1, <1>2, <1>3, <1>4

LEMMA ProfileInv == ASSUME IInv, NEW r \in Rate, Profile(r) PROVE IInv'
<1>0. TypeOK /\ LimitInForce /\ Filled /\ Tainted
  BY DEF IInv
<1>1. Shift(r) /\ phase = "profile" /\ t' = min(t + 1, ProfileTime)
  BY DEF Profile
<1>2. t \in Nat /\ t <= ProfileTime /\ t' \in 0 .. ProfileTime /\ t' <= t + 1
  BY <1>0, <1>1, Numbers DEF TypeOK, min
<1>3. TypeOK'
  BY <1>0, <1>1, <1>2, ShiftType DEF Profile, TypeOK
<1>4. LimitInForce'
  BY <1>0, <1>1 DEF Profile, LimitInForce
<1>5. \A i \in Slot : i <= t' \/ cnt > 0 => window'[i] # "junk"
  <2> SUFFICES ASSUME NEW i \in Slot, i <= t' \/ cnt > 0 PROVE window'[i] # "junk"
    OBVIOUS
  <2>1. CASE i = 1
    BY <2>1, <1>0, <1>1, ShiftType
  <2>2. CASE i # 1
    <3>1. i - 1 \in Slot /\ window'[i] = window[i - 1]
      BY <2>2, <1>0, <1>1, ShiftType
    <3>2. i - 1 <= t \/ cnt > 0
      BY <1>2, Numbers DEF Slot
    <3> QED BY <3>1, <3>2, <1>0, <1>1 DEF Filled
  <2> QED BY <2>1, <2>2
<1>6. phase' = "control" => \A i \in Slot : i <= t'
  BY <1>2, Numbers DEF Profile, Slot
<1>7. Filled'
  BY <1>5, <1>6 DEF Filled, Slot, Profile
<1>8. Tainted'
  <2> SUFFICES ASSUME averaged' PROVE cnt' = 0 /\ t' \in 1 .. WindowSize
    BY DEF Tainted
  <2>1. PICK i \in Slot : window[i] = "junk"
    BY <1>1 DEF Shift
  <2>2. ~(cnt > 0) /\ ~(i <= t)
    BY <2>1, <1>0, <1>1 DEF Filled
  <2>3. t < WindowSize /\ cnt' = 0
    BY <2>2, <1>0, <1>2, Numbers DEF Slot, Profile, TypeOK
  <2> QED BY <2>3, <1>1, <1>2, Numbers DEF min
<1> QED BY <1>3, <1>4, <1>7, <1>8 DEF IInv

LEMMA ProfileAgainInv == ASSUME IInv, NEW r \in Rate, ProfileAgain(r) PROVE IInv'
<1>0. TypeOK /\ LimitInForce /\ Filled /\ Tainted
  BY DEF IInv
<1>1. TypeOK'
  BY <1>0, ShiftType, Numbers DEF ProfileAgain, TypeOK
<1>2. LimitInForce'
  BY <1>0 DEF ProfileAgain, LimitInForce
<1>3. Filled' /\ Tainted'
  BY <1>0, FullStays DEF ProfileAgain, Filled, Tainted, Slot
<1> QED BY <1>1, <1>2, <1>3 DEF IInv

\* cnt counts, up to its bound.
LEMMA Counted == ASSUME TypeOK, Count PROVE cnt' \in 0 .. Warmup + 1 /\ cnt' > 0
BY Numbers DEF TypeOK, Count, min

LEMMA FirstLimitInv == ASSUME IInv, NEW r \in Rate, FirstLimit(r) PROVE IInv'
<1>0. TypeOK /\ LimitInForce /\ Filled /\ Tainted
  BY DEF IInv
<1>1. /\ Shift(r) /\ phase = "control" /\ limit' = initial
      /\ UNCHANGED <<initial, flag, phase, t, sign, bad>>
      /\ state' = "slow_start" /\ delta' = -1 /\ Count
  BY DEF FirstLimit, init_rate_limit
<1>2. initial \in Nat /\ Lower \in Nat
  BY <1>0, Data, Numbers DEF TypeOK
<1>3. TypeOK'
  BY <1>0, <1>1, <1>2, ShiftType, Counted DEF TypeOK
<1>4. LimitInForce'
  BY <1>1, <1>2 DEF LimitInForce, min
<1>5. Filled' /\ Tainted'
  BY <1>0, <1>1, FullStays DEF Filled, Tainted, Slot
<1> QED BY <1>3, <1>4, <1>5 DEF IInv

\* The new limit of a control sample, by its three ways.
LEMMA ControlLimit ==
    ASSUME TypeOK, NEW r \in Rate, Control(r)
    PROVE  /\ limit' \in Int /\ limit' >= min(initial, Lower)
           /\ state' \in {"none", "slow_start", "avoidance"} /\ sign' \in {-1, 0, 1}
           /\ bad' \in 0 .. BadSamples - 1
           /\ delta' \in Deltas
<1>1. initial \in Nat /\ Lower \in Nat /\ sign \in {-1, 0, 1} /\ bad \in 0 .. BadSamples - 1
  BY Data, Numbers DEF TypeOK
<1>2. PICK d \in Deltas, c \in Currents :
        /\ delta' = d
        /\ \/ init_rate_limit(Ceiling(c, AvoidCap))
           \/ init_rate_limit(initial)
           \/ \E s \in Steps : Update(d, c, s)
  BY DEF Control
<1>3. CASE init_rate_limit(Ceiling(c, AvoidCap))
  BY <1>1, <1>2, <1>3, Ceilings DEF init_rate_limit, min
<1>4. CASE init_rate_limit(initial)
  BY <1>1, <1>2, <1>4 DEF init_rate_limit, min
<1>5. CASE \E s \in Steps : Update(d, c, s)
  BY <1>1, <1>2, <1>5, UpdateType DEF min
<1> QED BY <1>2, <1>3, <1>4, <1>5

LEMMA ControlInv == ASSUME IInv, NEW r \in Rate, Control(r) PROVE IInv'
<1>0. TypeOK /\ LimitInForce /\ Filled /\ Tainted
  BY DEF IInv
<1>1. /\ Shift(r) /\ phase = "control" /\ UNCHANGED <<initial, flag, phase, t>> /\ Count
  BY DEF Control
<1>3. TypeOK'
  BY <1>0, <1>1, ControlLimit, ShiftType, Counted DEF TypeOK
<1>4. LimitInForce'
  BY <1>0, <1>1, ControlLimit DEF LimitInForce
<1>5. Filled' /\ Tainted'
  BY <1>0, <1>1, FullStays DEF Filled, Tainted, Slot
<1> QED BY <1>3, <1>4, <1>5 DEF IInv

LEMMA OtherInv == ASSUME IInv, OtherDevice PROVE IInv'
BY Numbers DEF OtherDevice, IInv, TypeOK, LimitInForce, Filled, Tainted

-----------------------------------------------------------------------------

\* The inductive invariant of the controller.
THEOREM Invariance == Spec => []IInv
<1>1. Init => IInv
  BY InitInv
<1>2. IInv /\ [Next]_vars => IInv'
  <2>1. ASSUME IInv, UNCHANGED vars PROVE IInv'
    BY <2>1 DEF vars, IInv, TypeOK, LimitInForce, Filled, Tainted
  <2> QED BY <2>1, ConnectionInv, ProfileInv, ProfileAgainInv, FirstLimitInv,
             ControlInv, OtherInv DEF Next, Sample
<1> QED BY <1>1, <1>2, PTL DEF Spec

\* Types, for every choice of the constants.
THEOREM TypeCorrect == Spec => []TypeOK
<1>1. IInv => TypeOK
  BY DEF IInv
<1> QED BY <1>1, Invariance, PTL

\* A limit set by the controller throttles, and lets kernels through: it is
\* at least the smaller of the initial limit and the lower bound.
THEOREM LimitNeverLost == Spec => []LimitInForce
<1>1. IInv => LimitInForce
  BY DEF IInv
<1> QED BY <1>1, Invariance, PTL

\* Entries of rate_window that nobody wrote are averaged only in the first
\* WindowSize samples of a connection, and none is left under control.
THEOREM JunkEnds == Spec => []JunkAtFirstOnly
<1>1. IInv => JunkAtFirstOnly
  BY DEF IInv, Filled, Tainted, JunkAtFirstOnly
<1> QED BY <1>1, Invariance, PTL

-----------------------------------------------------------------------------
(* A sample that shows the other process disturbed.                        *)

LEMMA LowsFew == Few \in Int /\ Few >= 2
BY Numbers DEF Few

LEMMA LowsType == ASSUME NEW w PROVE Lows(w) \in Nat
<1> DEFINE L == {i \in Slot : w[i] = "low"}
<1>1. IsFiniteSet(Slot)
  BY Numbers, FS_Interval DEF Slot
<1>2. L \in SUBSET Slot
  OBVIOUS
<1>3. IsFiniteSet(L)
  BY <1>1, <1>2, FS_Subset
<1> QED BY <1>3, FS_CardinalityType DEF Lows

LEMMA SlowStartFalls ==
    ASSUME TypeOK, limit > 0, NEW d \in Deltas, d > Threshold, NEW c \in Currents
    PROVE  SlowStart(d, c).limit < limit
<1>1. d \in Nat /\ limit \in Int
  BY Data DEF TypeOK
<1>2. SlowStart(d, c).limit = (2 * limit) \div 3
  BY <1>1 DEF SlowStart, Threshold
<1> QED BY <1>1, <1>2

LEMMA AvoidanceFalls ==
    ASSUME TypeOK, limit > 0, NEW d \in Deltas, d > Threshold,
           NEW c \in Currents, NEW s \in Steps
    PROVE  CongestionAvoidance(d, c, s).limit < limit
<1> DEFINE moved == min(limit - Decrease, Ceiling(c, AvoidCap))
<1>1. d \in Nat /\ limit \in Int
  BY Data DEF TypeOK
<1>2. ~Calm(d)
  BY <1>1 DEF Calm, Threshold
<1>3. Decrease \in Int /\ Decrease > 0
  BY <1>1, Numbers DEF Decrease, max
<1>4. moved \in Int /\ moved < limit
  BY <1>1, <1>3, Ceilings DEF min
<1>5. CongestionAvoidance(d, c, s).limit
        = IF d >= 3 * Threshold THEN moved \div 10 ELSE moved
  BY <1>2 DEF CongestionAvoidance
<1> HIDE DEF moved
<1>6. moved \div 10 < limit
  BY <1>1, <1>4
<1> QED BY <1>4, <1>5, <1>6

LEMMA UpdateFalls ==
    ASSUME TypeOK, limit > 0, NEW d \in Deltas, d > Threshold,
           NEW c \in Currents, NEW s \in Steps, Update(d, c, s)
    PROVE  limit' <= max(limit - 1, Lower)
<1> DEFINE r == IF state = "slow_start" THEN SlowStart(d, c)
                ELSE CongestionAvoidance(d, c, s)
           spoilt == d >= BadDelta /\ bad + 1 >= BadSamples
<1>1. r.limit \in Int /\ r.limit < limit
  BY SlowStartType, AvoidanceType, SlowStartFalls, AvoidanceFalls
<1>2. limit' = max(Lower, IF spoilt THEN r.limit \div 2 ELSE r.limit)
  BY DEF Update
<1>3. limit \in Int
  BY DEF TypeOK
<1> HIDE DEF r, spoilt
<1>4. r.limit \div 2 < limit
  BY <1>1, <1>3
<1> QED BY <1>1, <1>2, <1>3, <1>4, Numbers DEF max

\* With fewer than two low samples in the window a control sample updates
\* the limit by its distance, and nothing else.
LEMMA ControlUpdates ==
    ASSUME NEW r \in Rate, Control(r), Lows(window') < 2
    PROVE  \E d \in Deltas, c \in Currents, s \in Steps :
              delta' = d /\ Update(d, c, s) /\ cnt > 0
<1>1. Lows(window') \in Nat /\ Few \in Int
  BY LowsType, LowsFew
<1>2. ~(Lows(window') > Few) /\ ~Waking
  BY <1>1, LowsFew DEF Waking
<1> QED BY <1>2 DEF Control

LEMMA Positive == ASSUME IInv, phase = "control", cnt > 0 PROVE limit \in Int /\ limit > 0
<1>1. initial > 0 /\ initial \in Int
  BY Data DEF IInv, TypeOK
<1> QED BY <1>1, Numbers DEF IInv, TypeOK, LimitInForce, min

\* A disturbed process gets room with every sample, until the lower bound:
\* limit - Lower can only fall, which is what BacksOff rests on.
THEOREM HurtGains == Spec => HurtGivesWay
<1> DEFINE Q == (\E r \in Rate : Control(r)) /\ delta' > Threshold /\ Lows(window') < 2
                => limit' <= max(limit - 1, Lower)
<1>1. IInv /\ [Next]_vars => [Q]_vars
  <2> SUFFICES ASSUME IInv, NEW r \in Rate, Control(r), delta' > Threshold, Lows(window') < 2
               PROVE  limit' <= max(limit - 1, Lower)
    OBVIOUS
  <2>1. PICK d \in Deltas, c \in Currents, s \in Steps : delta' = d /\ Update(d, c, s) /\ cnt > 0
    BY ControlUpdates
  <2>2. TypeOK /\ limit > 0
    BY <2>1, Positive DEF IInv, Control
  <2> QED BY <2>1, <2>2, UpdateFalls
<1> QED BY <1>1, Invariance, PTL DEF Spec, HurtGivesWay

-----------------------------------------------------------------------------
(* A sample that shows it undisturbed.  In congestion avoidance it would   *)
(* lower the limit if no sample had set sign before; one always has.       *)

Signed ==
    /\ state = "avoidance" => sign # 0
    /\ phase \in {"profile", "control"} /\ cnt > 0 => state # "none"

LEMMA SignedStep == ASSUME TypeOK, Signed, [Next]_vars PROVE Signed'
<1>1. ASSUME NEW r \in Rate, Control(r) PROVE Signed'
  <2>1. CASE state' = "slow_start"
    BY <2>1 DEF Signed
  <2>2. ASSUME NEW d \in Deltas, NEW c \in Currents, NEW s \in Steps, Update(d, c, s)
        PROVE  Signed'
    <3> DEFINE q == IF state = "slow_start" THEN SlowStart(d, c)
                    ELSE CongestionAvoidance(d, c, s)
    <3>1. sign' = q.sign /\ (state' = "slow_start" \/ state' = q.state)
      BY <2>2 DEF Update
    <3>2. /\ q.state \in {"slow_start", "avoidance"}
          /\ q.state = "avoidance" => q.sign # 0
      <4>1. CASE state = "slow_start"
        BY <4>1 DEF SlowStart, Signed
      <4>2. CASE state # "slow_start"
        BY <4>2 DEF CongestionAvoidance
      <4> QED BY <4>1, <4>2
    <3> HIDE DEF q
    <3> QED BY <3>1, <3>2 DEF Signed
  <2> QED BY <1>1, <2>1, <2>2 DEF Control, init_rate_limit
<1>2. ASSUME NEW r \in Rate, Profile(r) \/ ProfileAgain(r) \/ FirstLimit(r) PROVE Signed'
  BY <1>2 DEF Profile, ProfileAgain, FirstLimit, init_rate_limit, Signed
<1>3. CASE Connect \/ ControlOn \/ Disconnect \/ ControlOff \/ OtherDevice \/ UNCHANGED vars
  BY <1>3 DEF Connect, ControlOn, Disconnect, ControlOff, OtherDevice, vars, Signed
<1> QED BY <1>1, <1>2, <1>3 DEF Next, Sample

LEMMA OpenCeilings ==
    ASSUME NEW c \in Currents
    PROVE  /\ Open \in Int
           /\ Ceiling(c, AvoidCap) \in Int /\ Ceiling(c, AvoidCap) >= Open
           /\ Ceiling(c, SlowCap) \in Int /\ Ceiling(c, SlowCap) >= Open
<1>1. c \in Nat /\ AvoidCap \in Int /\ SlowCap \in Int /\ Upper \in Int
  BY Data, Numbers
<1> QED BY <1>1 DEF Open, Ceiling, max, min

LEMMA UpdateRises ==
    ASSUME TypeOK, Signed, limit > 0, NEW d \in Deltas, d < Threshold,
           NEW c \in Currents, NEW s \in Steps, Update(d, c, s), state # "none",
           (3 * limit) \div 2 + 1 <= LongMax
    PROVE  limit' >= min(limit + 1, Open)
<1>0. d \in Nat /\ limit \in Int /\ s \in Int /\ s >= 1 /\ sign \in {-1, 0, 1} /\ Open \in Int
  <2>1. s >= RateMin /\ RateMin \in Nat \ {0} /\ s \in Nat
    BY ManagerAssumption
  <2> QED BY <2>1, Data, OpenCeilings DEF TypeOK
<1> DEFINE r == IF state = "slow_start" THEN SlowStart(d, c)
                ELSE CongestionAvoidance(d, c, s)
<1>1. limit' = max(Lower, r.limit)
  BY <1>0 DEF Update, BadDelta, Threshold
<1>2. r.limit \in Int /\ r.limit >= min(limit + 1, Open)
  <2>1. CASE state = "slow_start"
    <3>1. Converted((3 * limit) \div 2 + 1) = (3 * limit) \div 2 + 1
      BY <1>0, ManagerAssumption DEF Converted
    <3>2. r.limit = min((3 * limit) \div 2 + 1, Ceiling(c, SlowCap))
      BY <1>0, <2>1, <3>1 DEF SlowStart, Threshold
    <3>3. (3 * limit) \div 2 + 1 \in Int /\ (3 * limit) \div 2 + 1 >= limit + 1
      BY <1>0
    <3> QED BY <1>0, <3>2, <3>3, OpenCeilings DEF min
  <2>2. CASE state = "avoidance"
    <3>1. Calm(d)
      BY <1>0, <2>2 DEF Calm, Threshold, Signed
    <3>2. r.limit = min(limit + s, Ceiling(c, AvoidCap))
      BY <1>0, <2>2, <3>1 DEF CongestionAvoidance, Threshold
    <3> QED BY <1>0, <3>2, OpenCeilings DEF min
  <2> QED BY <2>1, <2>2 DEF TypeOK
<1> HIDE DEF r
<1> QED BY <1>0, <1>1, <1>2, Numbers DEF max, min

\* An undisturbed process gives the limit back with every sample, until it
\* no longer throttles: what Recovers rests on.
THEOREM CalmRaises == Spec => CalmGains
<1> DEFINE Q == /\ \E r \in Rate : Control(r)
                /\ delta' < Threshold /\ Lows(window') < 2
                /\ (3 * limit) \div 2 + 1 <= LongMax
                => limit' >= min(limit + 1, Open)
<1>1. Init => Signed
  BY DEF Init, Signed
<1>2. IInv /\ Signed /\ [Next]_vars => Signed'
  BY SignedStep DEF IInv
<1>3. IInv /\ Signed /\ [Next]_vars => [Q]_vars
  <2> SUFFICES ASSUME IInv, Signed, NEW r \in Rate, Control(r), delta' < Threshold,
                      Lows(window') < 2, (3 * limit) \div 2 + 1 <= LongMax
               PROVE  limit' >= min(limit + 1, Open)
    OBVIOUS
  <2>1. PICK d \in Deltas, c \in Currents, s \in Steps : delta' = d /\ Update(d, c, s) /\ cnt > 0
    BY ControlUpdates
  <2>2. TypeOK /\ limit > 0 /\ state # "none"
    BY <2>1, Positive DEF IInv, Control, Signed
  <2> QED BY <2>1, <2>2, UpdateRises
<1> QED BY <1>1, <1>2, <1>3, Invariance, PTL DEF Spec, CalmGains

-----------------------------------------------------------------------------
(* A process that wakes up.                                                *)

\* A sample takes at most one low entry out of the window.
LEMMA LowsFallByOne ==
    ASSUME NEW r \in Rate, Shift(r)
    PROVE  Lows(window') >= Lows(window) - 1
<1> DEFINE L0   == {i \in Slot : window[i] = "low"}
           L1   == {i \in Slot : window'[i] = "low"}
           Kept == L0 \ {WindowSize}
           next == [i \in Kept |-> i + 1]
<1>1. IsFiniteSet(Slot)
  BY Numbers, FS_Interval DEF Slot
<1>2. L0 \in SUBSET Slot /\ L1 \in SUBSET Slot
  OBVIOUS
<1>3. IsFiniteSet(L0) /\ IsFiniteSet(L1)
  BY <1>1, <1>2, FS_Subset
<1>4. Cardinality(Kept) >= Cardinality(L0) - 1 /\ Cardinality(Kept) \in Nat
  <2>1. IsFiniteSet(Kept)
    BY <1>3, FS_RemoveElement
  <2>2. Cardinality(Kept) = IF WindowSize \in L0 THEN Cardinality(L0) - 1 ELSE Cardinality(L0)
    BY <1>3, FS_RemoveElement
  <2>3. Cardinality(L0) \in Nat /\ Cardinality(Kept) \in Nat
    BY <1>3, <2>1, FS_CardinalityType
  <2> QED BY <2>2, <2>3
<1>5. ASSUME NEW i \in Kept PROVE i + 1 \in L1 /\ i \in Int
  <2>1. i \in Int /\ i >= 1 /\ i < WindowSize /\ window[i] = "low"
    BY Numbers DEF Slot
  <2>2. i + 1 \in Slot /\ i + 1 # 1 /\ (i + 1) - 1 = i
    BY <2>1, Numbers DEF Slot
  <2>3. window'[i + 1] = window[i]
    BY <2>2 DEF Shift
  <2> QED BY <2>1, <2>2, <2>3
<1>6. next \in Injection(Kept, L1)
  <2>1. next \in [Kept -> L1]
    BY <1>5
  <2>2. \A a, b \in Kept : next[a] = next[b] => a = b
    BY <1>5
  <2> QED BY <2>1, <2>2, Fun_IsInj
<1>7. Cardinality(Kept) <= Cardinality(L1)
  BY <1>3, <1>6, FS_Injection
<1>8. Cardinality(L0) \in Nat /\ Cardinality(L1) \in Nat
  BY <1>3, FS_CardinalityType
<1>9. Lows(window) = Cardinality(L0) /\ Lows(window') = Cardinality(L1)
  BY DEF Lows
<1> HIDE DEF L0, L1, Kept
<1> QED BY <1>4, <1>7, <1>8, <1>9

\* An opened limit is taken back when the process wakes up, if the window is
\* shorter than ten: the count that opens it is then the 2 the code tests for.
THEOREM WakingRestarts == ASSUME WindowSize < 10 PROVE Spec => WakeRestarts
<1>1. Few = 2
  BY Numbers DEF Few
<1> DEFINE Q == /\ phase = "control" /\ phase' = "control" /\ cnt >= Warmup
                /\ Lows(window) > Few /\ Lows(window') <= Few
                => limit' = initial /\ state' = "slow_start"
<1>2. IInv /\ [Next]_vars => [Q]_vars
  <2> SUFFICES ASSUME IInv, Next, phase = "control", phase' = "control", cnt >= Warmup,
                      Lows(window) > Few, Lows(window') <= Few
               PROVE  limit' = initial /\ state' = "slow_start"
    BY DEF vars
  <2>0. cnt \in 0 .. Warmup + 1 /\ Lows(window) \in Nat /\ Lows(window') \in Nat
    BY LowsType DEF IInv, TypeOK
  <2>1. PICK r \in Rate : Control(r)
    <3>1. cnt > 0
      BY <2>0, Numbers
    <3>2. ~OtherDevice
      BY <2>0, <1>1 DEF OtherDevice
    <3> QED BY <3>1, <3>2 DEF Next, Sample, Connect, ControlOn, Disconnect, ControlOff,
               Profile, ProfileAgain, FirstLimit
  <2>2. Lows(window') = 2
    BY <1>1, <2>0, <2>1, LowsFallByOne DEF Control
  <2>3. cnt' > Warmup
    BY <2>0, <2>1, Numbers DEF Control, Count, min
  <2>4. init_rate_limit(initial)
    BY <1>1, <2>1, <2>2, <2>3 DEF Control, Waking
  <2> QED BY <2>4 DEF init_rate_limit
<1> QED BY <1>2, Invariance, PTL DEF Spec, WakeRestarts

-----------------------------------------------------------------------------
(* The abstract protocol.                                                  *)

\* The controller writes the limit and the flag as RateLimiter expects.
THEOREM Refinement == Spec => KeepsProtocol
<1>1. Init => Protocol!Init
  BY DEF Init, Protocol!Init, stage
<1>2. IInv /\ IInv' /\ [Next]_vars => [Protocol!Next]_(Protocol!vars)
  <2> SUFFICES ASSUME IInv, IInv', [Next]_vars
               PROVE  Protocol!Next \/ UNCHANGED <<limit, flag, stage>>
    BY DEF Protocol!vars
  <2>0. TypeOK /\ TypeOK' /\ LimitInForce'
    BY DEF IInv
  <2>1. CASE Connect
    BY <2>1 DEF Connect, stage, Protocol!Next, Protocol!Connected, Protocol!Move
  <2>2. CASE ControlOn
    BY <2>2 DEF ControlOn, stage, Protocol!Next, Protocol!ControlOn, Protocol!Move
  <2>3. CASE Disconnect
    BY <2>3 DEF Disconnect, stage, Protocol!Next, Protocol!Disconnected, Protocol!Move
  <2>4. CASE ControlOff
    BY <2>4 DEF ControlOff, stage, Protocol!Next, Protocol!ControlOff, Protocol!Move
  <2>5. ASSUME NEW r \in Rate, Profile(r) \/ ProfileAgain(r)
        PROVE  UNCHANGED <<limit, flag, stage>>
    BY <2>5 DEF Profile, ProfileAgain, stage
  <2>7. cnt' > 0 /\ phase' = "control" => limit' \in Nat \ {0}
    <3>1. limit' \in Int /\ initial' \in Nat \ {0} /\ Lower \in Nat \ {0}
      BY <2>0, Data, Numbers DEF TypeOK
    <3> QED BY <3>1, <2>0 DEF LimitInForce, min
  <2>8. ASSUME NEW r \in Rate, FirstLimit(r) PROVE Protocol!Next
    <3>1. cnt' > 0
      BY <2>8, <2>0, Counted DEF FirstLimit
    <3> QED BY <2>7, <2>8, <3>1, Numbers
            DEF FirstLimit, stage, Protocol!Next, Protocol!FirstLimit, Protocol!Move
  <2>9. ASSUME NEW r \in Rate, Control(r) PROVE Protocol!Next
    <3>1. cnt' > 0
      BY <2>9, <2>0, Counted DEF Control
    <3> QED BY <2>7, <2>9, <3>1
            DEF Control, stage, Protocol!Next, Protocol!UpdateLimit, Protocol!Move
  <2>10. CASE OtherDevice
    BY <2>10 DEF OtherDevice, stage
  <2>11. CASE UNCHANGED vars
    BY <2>11 DEF vars, stage
  <2> QED BY <2>1, <2>2, <2>3, <2>4, <2>5, <2>8, <2>9, <2>10, <2>11 DEF Next, Sample
<1> QED BY <1>1, <1>2, Invariance, PTL DEF Spec, KeepsProtocol, Protocol!Spec

=============================================================================
