----------------------------- MODULE MemTracker -----------------------------
(***************************************************************************)
(* How a low-priority process keeps account of its device memory, in       *)
(* src/hijack/src/low_priority_hijack_call.c: the entries that allocate    *)
(* managed memory and free it, the list of ranges with g_used_memory, and  *)
(* memory_transfer_routine, which limit_manager runs over the list when a  *)
(* high-priority process disconnects.                                      *)
(*                                                                         *)
(* The list is changed under g_map_mutex, but whether it exists is asked   *)
(* without it, and the driver gives and takes a range before the list      *)
(* knows.  The driver is the environment: it hands out any free address    *)
(* and may refuse a call.  The five allocating entries differ in how they  *)
(* compute the size, the two freeing ones in name.                         *)
(***************************************************************************)
EXTENDS Integers, FiniteSets, Sequences, SequencesExt

CONSTANTS
    Thread,      \* threads of the application
    Manager,     \* limit_manager threads, one for each device in use
    Addr,        \* addresses the driver hands out
    MaxSize,     \* the largest size of a range
    MaxFailures  \* bound: driver calls that fail

None == "none"

ASSUME MemAssumption ==
    /\ IsFiniteSet(Thread) /\ Thread \cap Manager = {}
    /\ None \notin Thread \cup Manager
    /\ IsFiniteSet(Addr) /\ None \notin Addr
    /\ MaxSize \in Nat \ {0} /\ MaxFailures \in Nat

VARIABLES
    exists,  \* list_head # NULL
    ranges,  \* the list behind list_head, the newest range first
    used,    \* g_used_memory
    mutex,   \* who holds g_map_mutex
    pc,      \* where a thread is
    range,   \* the range its call is about
    at,      \* how many ranges a manager has prefetched
    live,    \* driver: the size of the range at an address, 0 if there is none
    owned,   \* pointers to an address the application was given and has not freed
    failures,\* driver calls that failed
    intact,  \* no init_list has dropped a range from the list
    dropped, \* the sizes of those dropped
    reused   \* addresses handed out again before a free of them was over

list == <<exists, ranges, used>>
driver == <<live, owned, failures>>
history == <<intact, dropped, reused>>
vars == <<list, mutex, pc, range, at, driver, history>>

MemRange == [addr : Addr \cup {None}, size : 0 .. MaxSize]
NoRange == [addr |-> None, size |-> 0]
Steps == {"idle", "device", "create", "insert", "advise", "delete", "lock", "prefetch"}
Goto(t, here) == pc' = [pc EXCEPT ![t] = here]

SumOf(s) == SumFunction([i \in DOMAIN s |-> s[i].size])

Init ==
    /\ exists = FALSE /\ ranges = <<>> /\ used = 0 /\ mutex = None
    /\ pc = [t \in Thread \cup Manager |-> "idle"]
    /\ range = [t \in Thread |-> NoRange]
    /\ at = [m \in Manager |-> 0]
    /\ live = [a \in Addr |-> 0] /\ owned = [a \in Addr |-> 0]
    /\ failures = 0 /\ intact = TRUE /\ dropped = 0 /\ reused = {}

Fail == failures < MaxFailures /\ failures' = failures + 1

-----------------------------------------------------------------------------
(* init_list.                                                              *)

\* What the list is wanted for.
Purpose(t) == IF t \in Manager THEN "lock"
              ELSE IF range[t].size = 0 THEN "delete" ELSE "insert"

\* The test of list_head, without the mutex.
Enter(t) == Goto(t, IF exists THEN Purpose(t) ELSE "create")

\* Two threads that both found no list both create one; the second drops what
\* was inserted in between.
Create(t) ==
    /\ pc[t] = "create" /\ mutex = None
    /\ exists' = TRUE /\ ranges' = <<>>
    /\ intact' = (intact /\ ranges = <<>>) /\ dropped' = dropped + SumOf(ranges)
    /\ Goto(t, Purpose(t))
    /\ UNCHANGED <<used, mutex, range, at, driver, reused>>

-----------------------------------------------------------------------------
(* cuMemAllocManaged, cuMemAlloc and cuMemAllocPitch.                      *)

\* t freed a in the driver and has not told the list.
Leaving(t, a) == range[t] = [addr |-> a, size |-> 0] /\ pc[t] \in {"create", "delete"}

\* The driver's cuMemAllocManaged, which may hand out an address another
\* thread is leaving.  Its result is overwritten by the next call's; if it
\* failed, the caller's pointer holds whatever it held before.
Allocate(t) ==
    /\ pc[t] = "idle"
    /\ \E s \in 1 .. MaxSize :
        \/ \E a \in {b \in Addr : live[b] = 0} :
            /\ live' = [live EXCEPT ![a] = s]
            /\ range' = [range EXCEPT ![t] = [addr |-> a, size |-> s]]
            /\ reused' = IF \E u \in Thread : Leaving(u, a) THEN reused \cup {a} ELSE reused
            /\ UNCHANGED failures
        \/ \E a \in Addr \cup {None} :
            /\ Fail
            /\ range' = [range EXCEPT ![t] = [addr |-> a, size |-> s]]
            /\ UNCHANGED <<live, reused>>
    /\ Goto(t, "device")
    /\ UNCHANGED <<list, mutex, at, owned, intact, dropped>>

\* cuCtxGetDevice, whose failure ends the call, and the test of list_head in
\* allocate_mem.
GetDevice(t) ==
    /\ pc[t] = "device"
    /\ \/ Enter(t) /\ UNCHANGED failures
       \/ Goto(t, "idle") /\ Fail
    /\ UNCHANGED <<list, mutex, range, at, live, owned, history>>

\* Mutant of Insert: g_used_memory is not increased.
InsertUncounted(t) ==
    /\ pc[t] = "insert" /\ mutex = None
    /\ ranges' = <<range[t]>> \o ranges
    /\ Goto(t, "advise")
    /\ UNCHANGED <<exists, used, mutex, range, at, driver, history>>

\* Mutant of Insert: an address the list holds already is not inserted again.
InsertUnknown(t) ==
    /\ pc[t] = "insert" /\ mutex = None
    /\ IF \E i \in DOMAIN ranges : ranges[i].addr = range[t].addr
       THEN UNCHANGED <<ranges, used>>
       ELSE /\ used' = used + range[t].size
            /\ ranges' = <<range[t]>> \o ranges
    /\ Goto(t, "advise")
    /\ UNCHANGED <<exists, mutex, range, at, driver, history>>

Insert(t) ==
    /\ pc[t] = "insert" /\ mutex = None
    /\ used' = used + range[t].size
    /\ ranges' = <<range[t]>> \o ranges
    /\ Goto(t, "advise")
    /\ UNCHANGED <<exists, mutex, range, at, driver, history>>

\* cuMemAdvise: its result is what the application gets.
Advise(t) ==
    LET a == range[t].addr IN
    /\ pc[t] = "advise"
    /\ \/ /\ a \in Addr /\ live[a] > 0
          /\ \/ owned' = [owned EXCEPT ![a] = @ + 1] /\ UNCHANGED failures
             \/ UNCHANGED owned /\ Fail
       \/ (a \in Addr => live[a] = 0) /\ UNCHANGED <<owned, failures>>
    /\ Goto(t, "idle") /\ range' = [range EXCEPT ![t] = NoRange]
    /\ UNCHANGED <<list, mutex, at, live, history>>

-----------------------------------------------------------------------------
(* cuMemFree.                                                              *)

\* The driver takes the range back, the list is told afterwards.  An address
\* without a range, which was handed out twice, ends the call.
Free(t) ==
    /\ pc[t] = "idle"
    /\ \E a \in Addr :
        /\ owned[a] > 0 /\ owned' = [owned EXCEPT ![a] = @ - 1]
        /\ IF live[a] > 0
           THEN /\ live' = [live EXCEPT ![a] = 0]
                /\ range' = [range EXCEPT ![t] = [addr |-> a, size |-> 0]]
                /\ Goto(t, IF exists THEN "delete" ELSE "create")
           ELSE UNCHANGED <<live, range, pc>>
    /\ UNCHANGED <<list, mutex, at, failures, history>>

Found(a) == {i \in DOMAIN ranges : ranges[i].addr = a}
First(S) == CHOOSE i \in S : \A j \in S : i <= j

\* Mutant of Delete: every range of that address goes, not the first.
DeleteAll(t) ==
    /\ pc[t] = "delete" /\ mutex = None
    /\ LET S == Found(range[t].addr) IN
       IF S = {} THEN UNCHANGED <<ranges, used>>
       ELSE /\ ranges' = SelectSeq(ranges, LAMBDA r : r.addr # range[t].addr)
            /\ used' = used - (SumOf(ranges) - SumOf(ranges'))
    /\ Goto(t, "idle") /\ range' = [range EXCEPT ![t] = NoRange]
    /\ UNCHANGED <<exists, mutex, at, driver, history>>

\* Mutant of Delete: the size of the newest range is taken off.
DeleteNewest(t) ==
    /\ pc[t] = "delete" /\ mutex = None
    /\ LET S == Found(range[t].addr) IN
       IF S = {} THEN UNCHANGED <<ranges, used>>
       ELSE /\ ranges' = RemoveAt(ranges, First(S))
            /\ used' = used - ranges[1].size
    /\ Goto(t, "idle") /\ range' = [range EXCEPT ![t] = NoRange]
    /\ UNCHANGED <<exists, mutex, at, driver, history>>

\* delete_mem: the first range of that address, if there is one.
Delete(t) ==
    /\ pc[t] = "delete" /\ mutex = None
    /\ LET S == Found(range[t].addr) IN
       IF S = {} THEN UNCHANGED <<ranges, used>>
       ELSE /\ ranges' = RemoveAt(ranges, First(S))
            /\ used' = used - ranges[First(S)].size
    /\ Goto(t, "idle") /\ range' = [range EXCEPT ![t] = NoRange]
    /\ UNCHANGED <<exists, mutex, at, driver, history>>

-----------------------------------------------------------------------------
(* memory_transfer_routine, called when a connection ended.                *)

Disconnect(m) ==
    /\ pc[m] = "idle" /\ Enter(m)
    /\ UNCHANGED <<list, mutex, range, at, driver, history>>

Lock(m) ==
    /\ pc[m] = "lock" /\ mutex = None /\ mutex' = m
    /\ at' = [at EXCEPT ![m] = 0] /\ Goto(m, "prefetch")
    /\ UNCHANGED <<list, range, driver, history>>

\* One range, of this device or not; whether the driver can is not asked.
Prefetch(m) ==
    /\ pc[m] = "prefetch" /\ at[m] < Len(ranges)
    /\ at' = [at EXCEPT ![m] = @ + 1]
    /\ UNCHANGED <<list, mutex, pc, range, driver, history>>

\* Mutant of Unlock: leaving without a range to prefetch keeps the mutex.
UnlockSome(m) ==
    /\ pc[m] = "prefetch" /\ at[m] = Len(ranges)
    /\ mutex' = (IF at[m] = 0 THEN m ELSE None) /\ Goto(m, "idle")
    /\ UNCHANGED <<list, range, at, driver, history>>

Unlock(m) ==
    /\ pc[m] = "prefetch" /\ at[m] = Len(ranges)
    /\ mutex' = None /\ Goto(m, "idle")
    /\ UNCHANGED <<list, range, at, driver, history>>

-----------------------------------------------------------------------------

\* Some step of the call a thread is in.
Resume(t) == \/ t \in Thread /\ (GetDevice(t) \/ Insert(t) \/ Advise(t) \/ Delete(t))
             \/ t \in Manager /\ (Lock(t) \/ Prefetch(t) \/ Unlock(t))
             \/ Create(t)

Next == \/ \E t \in Thread : Allocate(t) \/ Free(t)
        \/ \E m \in Manager : Disconnect(m)
        \/ \E t \in Thread \cup Manager : Resume(t)

Spec == Init /\ [][Next]_vars

\* A thread in a call goes on; strong, because a manager may take the mutex
\* again and again, but only after another connection came and ended.
FairSpec == Spec /\ \A t \in Thread \cup Manager : SF_vars(Resume(t))

-----------------------------------------------------------------------------
(* Properties.                                                             *)

TypeOK ==
    /\ exists \in BOOLEAN /\ ranges \in Seq(MemRange) /\ used \in Nat
    /\ mutex \in Manager \cup {None}
    /\ pc \in [Thread \cup Manager -> Steps]
    /\ range \in [Thread -> MemRange] /\ at \in [Manager -> Nat]
    /\ live \in [Addr -> 0 .. MaxSize] /\ owned \in [Addr -> Nat]
    /\ failures \in 0 .. MaxFailures /\ intact \in BOOLEAN /\ dropped \in Nat
    /\ reused \subseteq Addr

\* g_used_memory is the sum of the ranges in the list and of those a second
\* init_list dropped: whichever range of an address delete_mem finds, it
\* takes off the size that was added for it.
UsedIsSum == used = SumOf(ranges) + dropped

\* delete_mem finds a range of its address, also when the driver has given
\* the address to another thread before, unless init_list dropped ranges.
FreeFindsRange ==
    \A t \in Thread :
        pc[t] = "delete" /\ intact => Found(range[t].addr) # {}

Settled == failures = 0 /\ intact /\ \A t \in Thread : pc[t] = "idle"

\* Whatever order allocations and frees of an address took in the list, once
\* no call is under way it has one range for each live one and no other,
\* unless a call of the driver failed or init_list dropped ranges.  The range
\* has the size of the live one, unless the address was handed out again
\* while a free of it was on its way to the list: that free may then have
\* removed the new range and left the old one.
ListMatches ==
    Settled => \A a \in Addr :
        /\ Cardinality(Found(a)) = IF live[a] > 0 THEN 1 ELSE 0
        /\ a \notin reused => \A i \in Found(a) : ranges[i].size = live[a]

\* memory_transfer_routine walks a list that nobody changes meanwhile.
WalkUndisturbed == [][\A m \in Manager : pc[m] = "prefetch" => ranges' = ranges]_vars

\* g_map_mutex comes back: whoever holds it is in its walk, needs no other
\* thread to end it, and each step it takes leaves it fewer ranges to go.
WalkLeft(m) == Len(ranges) - at[m]

WalkEnds ==
    [][\A m \in Manager : mutex = m =>
          /\ pc[m] = "prefetch" /\ WalkLeft(m) >= 0
          /\ \/ /\ mutex' = m /\ WalkLeft(m)' <= WalkLeft(m)
                /\ at' # at => WalkLeft(m)' < WalkLeft(m)
             \/ mutex' = None /\ WalkLeft(m) = 0]_vars

\* Every call returns: nobody waits for g_map_mutex for ever.
CallsReturn ==
    \A t \in Thread \cup Manager : pc[t] # "idle" ~> pc[t] = "idle"

-----------------------------------------------------------------------------
\* What cuMemGetInfo takes g_used_memory for, which it subtracts from the
\* total: with no call under way, none failed and no range dropped, it is the
\* memory the application has.
UsedIsLive == Settled => used = SumFunction(live)

=============================================================================
