--------------------------- MODULE LimitProtocol ----------------------------
(***************************************************************************)
(* What limit_manager promises to the threads that launch kernels: the     *)
(* order in which it writes g_rate_limit and g_rate_control_flag of a      *)
(* device.  The flag is set only after the old limit is gone, the limits   *)
(* in force are members of Limit, and the last one is gone before the flag *)
(* is cleared.  RateLimiter takes these steps for granted.                 *)
(***************************************************************************)
EXTENDS Integers

CONSTANT Limit      \* the limits that throttle

VARIABLES limit, flag, stage

vars == <<limit, flag, stage>>

Init == limit = 0 /\ flag = 0 /\ stage = "accept"

Move(from, to) == stage = from /\ stage' = to

Connected    == Move("accept", "connected") /\ limit' = -1 /\ UNCHANGED flag
ControlOn    == Move("connected", "profile") /\ flag' = 1 /\ UNCHANGED limit
FirstLimit   == Move("profile", "control") /\ limit' \in Limit /\ UNCHANGED flag
UpdateLimit  == Move("control", "control") /\ limit' \in Limit /\ UNCHANGED flag
Disconnected == /\ Move("profile", "closed") \/ Move("control", "closed")
                /\ limit' = 0 /\ UNCHANGED flag
ControlOff   == Move("closed", "accept") /\ flag' = 0 /\ UNCHANGED limit

Next == Connected \/ ControlOn \/ FirstLimit \/ UpdateLimit \/ Disconnected \/ ControlOff

Spec == Init /\ [][Next]_vars

=============================================================================
