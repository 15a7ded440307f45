---------------------------- MODULE LimitManager ----------------------------
(***************************************************************************)
(* limit_manager and update_rate_limit of                                  *)
(* src/hijack/src/low_priority_hijack_call.c: the thread of a low-priority *)
(* process that reads, every half second, the launch rate of the           *)
(* high-priority process on its device and sets the limit of its own.      *)
(*                                                                         *)
(* The rates are doubles.  Of a sample the model keeps what the code       *)
(* decides by: delta, its distance from max_rate in percent; whether it is *)
(* below 1000 ("low"); whether the maximum over the window is so far from  *)
(* max_rate that the rate is profiled again; whether a profile shall go    *)
(* on.  They are chosen freely: max_rate itself is not modelled.  The      *)
(* limit is computed as the code does.  Entries of rate_window that were   *)
(* never written are "junk": where an average over them may have decided,  *)
(* in the first profile of a connection, averaged says so.                 *)
(***************************************************************************)
EXTENDS Integers, FiniteSets

CONSTANTS
    WindowSize,   \* WINDOW_SIZE, 5
    ProfileTime,  \* PROFILE_TIME, 5
    Warmup,       \* 15 samples
    Initials,     \* values g_slo_initial_rate_limit may be given
    Lower,        \* LIMIT_LOWER_BOUND
    RateMin,      \* RATE_MIN
    AvoidCap,     \* 65536 * 65536
    SlowCap,      \* 1 << 40
    Upper,        \* UPPER_LIMIT
    LongMax,      \* the largest long long
    Steps,        \* max(max_rate * 0.00025, RATE_MIN)
    Currents,     \* g_current_rate
    Deltas,       \* distances from max_rate, in percent
    BadSamples,   \* 20 samples
    OthersRun     \* whether managers of other devices run in the process

Threshold == 3      \* percent
BadDelta  == 12     \* percent

ASSUME ManagerAssumption ==
    /\ WindowSize \in Nat /\ WindowSize >= 5
    /\ ProfileTime \in Nat /\ ProfileTime >= WindowSize
    /\ Warmup \in Nat \ {0}
    /\ Initials \subseteq Nat \ {0}
    /\ Lower \in Nat \ {0} /\ RateMin \in Nat \ {0}
    /\ AvoidCap \in Nat /\ SlowCap \in Nat /\ Upper \in Nat /\ LongMax \in Nat
    /\ Lower <= AvoidCap /\ Lower <= Upper
    /\ Steps \subseteq Nat /\ (\A s \in Steps : s >= RateMin)
    /\ Currents \subseteq Nat /\ Deltas \subseteq Nat
    /\ BadSamples \in Nat \ {0} /\ OthersRun \in BOOLEAN

VARIABLES
    initial,  \* g_slo_initial_rate_limit
    limit,    \* g_rate_limit
    flag,     \* g_rate_control_flag
    phase,    \* where limit_manager is
    state,    \* slow start or congestion avoidance; "none" at first
    sign,     \* static: the last move in congestion avoidance
    bad,      \* static: max_diff_counter
    cnt,      \* control samples of this connection, up to Warmup + 1
    t,        \* samples of this profile, up to ProfileTime
    window,   \* rate_window, newest first; "junk" is uninitialized
    averaged, \* history: the last average took in an uninitialized entry
    delta     \* of the newest sample; -1 if it decided nothing

vars == <<initial, limit, flag, phase, state, sign, bad, cnt, t, window, averaged, delta>>

max(a, b) == IF a > b THEN a ELSE b
min(a, b) == IF a < b THEN a ELSE b

Slot == 1 .. WindowSize

Init ==
    /\ initial \in Initials
    /\ limit = 0 /\ flag = 0 /\ phase = "accept"
    /\ state = "none" /\ sign = 0 /\ bad = 0
    /\ cnt = 0 /\ t = 0 /\ delta = -1
    /\ window = [i \in Slot |-> "junk"] /\ averaged = FALSE

-----------------------------------------------------------------------------
(* Connections.                                                            *)

\* accept returned and max_rate was read.
Connect ==
    /\ phase = "accept"
    /\ limit' = -1 /\ phase' = "connected"
    /\ UNCHANGED <<initial, flag, state, sign, bad, cnt, t, window, averaged, delta>>

ControlOn ==
    /\ phase = "connected"
    /\ flag' = 1 /\ phase' = "profile"
    /\ cnt' = 0 /\ state' = "none" /\ t' = 0 /\ delta' = -1
    /\ window' = [i \in Slot |-> "junk"] /\ averaged' = FALSE
    /\ UNCHANGED <<initial, limit, sign, bad>>

\* Mutant of Disconnect: the last limit stays.
DisconnectKeep ==
    /\ phase \in {"profile", "control"}
    /\ phase' = "closed"
    /\ UNCHANGED <<initial, limit, flag, state, sign, bad, cnt, t, window, averaged, delta>>

\* rio_readn returned less than a double.
Disconnect ==
    /\ phase \in {"profile", "control"}
    /\ limit' = 0 /\ phase' = "closed"
    /\ UNCHANGED <<initial, flag, state, sign, bad, cnt, t, window, averaged, delta>>

ControlOff ==
    /\ phase = "closed"
    /\ flag' = 0 /\ phase' = "accept"
    /\ UNCHANGED <<initial, limit, state, sign, bad, cnt, t, window, averaged, delta>>

-----------------------------------------------------------------------------
(* Samples.                                                                *)

Rate == {"low", "ok"}

\* The entries as they were are averaged in pairs, before r comes in: what
\* the sample is judged by is the maximum of these means.
Shift(r) ==
    /\ averaged' = (\E i \in Slot : window[i] = "junk")
    /\ window' = [i \in Slot |-> IF i = 1 THEN r ELSE window[i - 1]]

Lows(w) == Cardinality({i \in Slot : w[i] = "low"})

\* Mutant of Profile: it ends as soon as the rate does not rise.
ProfileShort(r) ==
    /\ phase = "profile"
    /\ Shift(r)
    /\ t' = min(t + 1, ProfileTime)
    /\ phase' \in {"profile", "control"}
    /\ delta' = -1
    /\ UNCHANGED <<initial, limit, flag, state, sign, bad, cnt>>

\* A profile takes ProfileTime samples, and more while continue_flag is set.
\* max_rate and the flag follow from the average, which in the first
\* WindowSize samples of a connection is one of junk too: the flag is any.
Profile(r) ==
    /\ phase = "profile"
    /\ Shift(r)
    /\ t' = min(t + 1, ProfileTime)
    /\ \/ phase' = "profile"
       \/ phase' = "control" /\ t' = ProfileTime
    /\ delta' = -1
    /\ UNCHANGED <<initial, limit, flag, state, sign, bad, cnt>>

\* goto profile: cnt, state and limit stay.
ProfileAgain(r) ==
    /\ phase = "control"
    /\ Shift(r)
    /\ phase' = "profile" /\ t' = 0 /\ delta' = -1
    /\ UNCHANGED <<initial, limit, flag, state, sign, bad, cnt>>

Count == cnt' = min(cnt + 1, Warmup + 1)

init_rate_limit(l) == limit' = l /\ state' = "slow_start" /\ UNCHANGED <<sign, bad>>

FirstLimit(r) ==
    /\ phase = "control" /\ cnt = 0
    /\ Shift(r) /\ Count
    /\ init_rate_limit(initial)
    /\ delta' = -1
    /\ UNCHANGED <<initial, flag, phase, t>>

-----------------------------------------------------------------------------
(* update_rate_limit.                                                      *)

\* A double that no long long holds converts to the smallest one on x86-64.
Converted(x) == IF x > LongMax THEN -LongMax - 1 ELSE x

Ceiling(c, cap) == min(Upper, max(3 * c, cap))

SlowStart(d, c) ==
    IF d <= Threshold
    THEN [limit |-> min(Converted((3 * limit) \div 2 + 1), Ceiling(c, SlowCap)),
          state |-> "slow_start", sign |-> sign]
    ELSE [limit |-> (2 * limit) \div 3, state |-> "avoidance", sign |-> -1]

\* Mutant of Calm: after a decrease the limit is not raised again.
CalmOnlyUp(d) == sign = 1 /\ d < Threshold

\* Mutant of Calm: after a decrease the limit is raised whatever the sample.
CalmAfterDown(d) == sign = -1 \/ d < Threshold

Calm(d) == \/ sign = -1 /\ d <= Threshold
           \/ sign = 1 /\ d < Threshold

Decrease == max((2 * limit) \div 25, RateMin)

\* The limit may become negative here, never after Settled.
CongestionAvoidance(d, c, s) ==
    LET moved == min(IF Calm(d) THEN limit + s ELSE limit - Decrease,
                     Ceiling(c, AvoidCap))
    IN  [limit |-> IF d >= 3 * Threshold THEN moved \div 10 ELSE moved,
         state |-> IF d >= 3 * Threshold THEN "slow_start" ELSE "avoidance",
         sign  |-> IF Calm(d) THEN 1 ELSE -1]

\* Mutant of Update: max_diff_counter is not reset.
UpdateNoReset(d, c, s) ==
    LET r == IF state = "slow_start" THEN SlowStart(d, c)
             ELSE CongestionAvoidance(d, c, s)
        spoilt == d >= BadDelta /\ bad + 1 >= BadSamples
    IN  /\ limit' = max(Lower, IF spoilt THEN r.limit \div 2 ELSE r.limit)
        /\ state' = IF spoilt THEN "slow_start" ELSE r.state
        /\ sign' = r.sign
        /\ bad' = IF d >= BadDelta THEN bad + 1 ELSE 0

\* Mutant of Update: the new limit is not kept above LIMIT_LOWER_BOUND.
UpdateNoBound(d, c, s) ==
    LET r == IF state = "slow_start" THEN SlowStart(d, c)
             ELSE CongestionAvoidance(d, c, s)
        spoilt == d >= BadDelta /\ bad + 1 >= BadSamples
    IN  /\ limit' = IF spoilt THEN r.limit \div 2 ELSE r.limit
        /\ state' = IF spoilt THEN "slow_start" ELSE r.state
        /\ sign' = r.sign
        /\ bad' = IF d >= BadDelta /\ ~spoilt THEN bad + 1 ELSE 0

Update(d, c, s) ==
    LET r == IF state = "slow_start" THEN SlowStart(d, c)
             ELSE CongestionAvoidance(d, c, s)
        spoilt == d >= BadDelta /\ bad + 1 >= BadSamples
    IN  /\ limit' = max(Lower, IF spoilt THEN r.limit \div 2 ELSE r.limit)
        /\ state' = IF spoilt THEN "slow_start" ELSE r.state
        /\ sign' = r.sign
        /\ bad' = IF d >= BadDelta /\ ~spoilt THEN bad + 1 ELSE 0

Few == (WindowSize \div 5) * 2

\* Mutant of Waking: one sample too late.
WakingLate == Lows(window') = 1 /\ cnt' > Warmup

Waking == Lows(window') = 2 /\ cnt' > Warmup

\* A control sample after the first: the limit is opened when the
\* high-priority process hardly launches, starts anew when it wakes up, and
\* is updated otherwise.
Control(r) ==
    /\ phase = "control" /\ cnt > 0
    /\ Shift(r) /\ Count
    /\ \E d \in Deltas, c \in Currents :
        /\ delta' = d
        /\ \/ /\ Lows(window') > Few /\ cnt' >= Warmup
              /\ init_rate_limit(Ceiling(c, AvoidCap))
           \/ /\ Lows(window') <= Few \/ cnt' < Warmup
              /\ Waking
              /\ init_rate_limit(initial)
           \/ /\ Lows(window') <= Few \/ cnt' < Warmup
              /\ ~Waking
              /\ \E s \in Steps : Update(d, c, s)
    /\ UNCHANGED <<initial, flag, phase, t>>

Sample == \E r \in Rate :
    Profile(r) \/ ProfileAgain(r) \/ FirstLimit(r) \/ Control(r)

\* The statics of update_rate_limit are the process's, not the device's.
OtherDevice ==
    /\ OthersRun
    /\ sign' \in {-1, 1} /\ bad' \in 0 .. BadSamples - 1
    /\ UNCHANGED <<initial, limit, flag, phase, state, cnt, t, window, averaged, delta>>

Next == Connect \/ ControlOn \/ Disconnect \/ ControlOff \/ Sample \/ OtherDevice

Spec == Init /\ [][Next]_vars

\* While it stays connected the high-priority process sends a sample every
\* half second.
FairSpec == Spec /\ WF_vars(Sample)

-----------------------------------------------------------------------------
(* Properties.                                                             *)

TypeOK ==
    /\ initial \in Initials /\ limit \in Int /\ flag \in {0, 1}
    /\ phase \in {"accept", "connected", "profile", "control", "closed"}
    /\ state \in {"none", "slow_start", "avoidance"} /\ sign \in {-1, 0, 1}
    /\ bad \in 0 .. BadSamples - 1
    /\ cnt \in 0 .. Warmup + 1 /\ t \in 0 .. ProfileTime
    /\ window \in [Slot -> Rate \cup {"junk"}] /\ averaged \in BOOLEAN
    /\ delta \in Deltas \cup {-1}

\* Once control began, the limit is never so low that no kernel can be
\* launched, nor one that launch_test ignores: the divisions, the decreases
\* and the conversions all end at the lower bound.
LimitInForce ==
    phase \in {"profile", "control"} /\ cnt > 0 => limit >= min(initial, Lower)

\* Uninitialized entries of rate_window are averaged, but only in the first
\* WindowSize samples of a connection: max_rate, and whether its first
\* profile goes on, may rest on junk.  No later sample is judged by any: not
\* the first one under control, none that sets the limit or wakes it, none
\* of a profile that was begun anew.
JunkAtFirstOnly ==
    /\ averaged => cnt = 0 /\ t \in 1 .. WindowSize
    /\ phase = "control" => \A i \in Slot : window[i] # "junk"

\* Each control sample that shows the high-priority process disturbed lowers
\* the limit, down to the lower bound, unless the process stops or wakes up:
\* no branch of update_rate_limit raises it or leaves it where it is.
HurtGivesWay ==
    [][ (\E r \in Rate : Control(r)) /\ delta' > Threshold /\ Lows(window') < 2
        => limit' <= max(limit - 1, Lower)]_vars

\* Each one that shows it undisturbed raises the limit, up to the ceilings,
\* unless it is too large to be multiplied by 1.5.
Open == min(Upper, min(AvoidCap, SlowCap))

CalmGains ==
    [][ /\ \E r \in Rate : Control(r)
        /\ delta' < Threshold /\ Lows(window') < 2
        /\ (3 * limit) \div 2 + 1 <= LongMax
        => limit' >= min(limit + 1, Open)]_vars

\* A limit opened for an idle process is taken back to the initial one when
\* it wakes up: no sample can carry the window past the wake-up count.
WakeRestarts ==
    [][ /\ phase = "control" /\ phase' = "control" /\ cnt >= Warmup
        /\ Lows(window) > Few /\ Lows(window') <= Few
        => limit' = initial /\ state' = "slow_start"]_vars

\* A high-priority process that stays disturbed brings the limit down to
\* the lower bound, whatever the controller has been through.
BacksOff ==
    <>[](phase = "control" /\ delta > Threshold /\ window[1] = "ok")
        => <>[](limit = Lower)

\* Left undisturbed, the process gets its limit raised to where it no longer
\* throttles, and it stays there: the controller does not circle.
Recovers ==
    <>[](phase = "control" /\ delta \in 0 .. Threshold - 1 /\ window[1] = "ok")
        => <>[](limit >= min(Upper, AvoidCap))

\* The limits and the flag are written as LimitProtocol says.
stage == IF phase \in {"profile", "control"}
         THEN IF cnt > 0 THEN "control" ELSE "profile"
         ELSE phase
Protocol == INSTANCE LimitProtocol WITH Limit <- Nat \ {0}
KeepsProtocol == Protocol!Spec

=============================================================================
