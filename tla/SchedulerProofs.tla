--------------------------- MODULE SchedulerProofs --------------------------
(***************************************************************************)
(* Proofs, for every trace and every machine, of the safety properties of  *)
(* Scheduler.  IInv is inductive: SlotsMatchTasks needs the phase facts    *)
(* and QueuedNotLeased (a job about to be started is not leased yet),      *)
(* QueuedNotLeased needs TraceOrder (a job is in the queues once),         *)
(* ReleaseNeverFaults needs SlotsMatchTasks and NoOversubscription (an     *)
(* exclusive slot holds only the job that gives it back), WorkConserving   *)
(* needs KeptDoNotFit.                                                     *)
(***************************************************************************)
EXTENDS Scheduler, FiniteSums, FiniteSetTheorems, WellFoundedInduction, TLAPS

-----------------------------------------------------------------------------
(* Facts about sequences and the order of the trace.                       *)

\* Before is irreflexive, so a sorted sequence holds no job twice.
LEMMA SortedDistinct ==
    ASSUME NEW s \in Seq(Job), Sorted(s),
           NEW a \in DOMAIN s, NEW b \in DOMAIN s, a # b
    PROVE  s[a] # s[b]
<1>1. \A j \in Job : ~Before(j, j)
  BY TraceAssumption DEF Before, Rank
<1>2. a < b \/ b < a
  OBVIOUS
<1>3. QED
  BY <1>1, <1>2 DEF Sorted

\* What taking the head off a queue leaves.
LEMMA TailFacts ==
    ASSUME NEW s \in Seq(Job), s # <<>>
    PROVE  /\ Head(s) \in Job /\ Tail(s) \in Seq(Job)
           /\ 1 \in DOMAIN s /\ Head(s) = s[1]
           /\ \A a \in DOMAIN Tail(s) :
                 a \in Nat /\ a >= 1 /\ a + 1 \in DOMAIN s /\ Tail(s)[a] = s[a + 1]
           /\ Range(s) = {Head(s)} \cup Range(Tail(s))
<1>1. /\ Head(s) \in Job /\ Tail(s) \in Seq(Job)
      /\ 1 \in DOMAIN s /\ Head(s) = s[1]
      /\ Len(Tail(s)) = Len(s) - 1
  OBVIOUS
<1>2. \A a \in DOMAIN Tail(s) :
         a \in Nat /\ a >= 1 /\ a + 1 \in DOMAIN s /\ Tail(s)[a] = s[a + 1]
  BY <1>1
<1>3. \A a \in DOMAIN s : a = 1 \/ (a - 1 \in DOMAIN Tail(s) /\ Tail(s)[a - 1] = s[a])
  BY <1>1
<1>4. ASSUME NEW j \in Range(s) PROVE j \in {Head(s)} \cup Range(Tail(s))
  <2>1. PICK a \in DOMAIN s : s[a] = j
    BY DEF Range
  <2>2. CASE a = 1
    BY <2>1, <2>2, <1>1
  <2>3. CASE a - 1 \in DOMAIN Tail(s) /\ Tail(s)[a - 1] = s[a]
    BY <2>1, <2>3 DEF Range
  <2>4. QED
    BY <1>3, <2>2, <2>3
<1>5. ASSUME NEW j \in {Head(s)} \cup Range(Tail(s)) PROVE j \in Range(s)
  BY <1>1, <1>2, <1>5 DEF Range
<1>6. QED
  BY <1>1, <1>2, <1>4, <1>5

\* What appending to a queue adds.
LEMMA AppendFacts ==
    ASSUME NEW s \in Seq(Job), NEW j \in Job
    PROVE  /\ Append(s, j) \in Seq(Job)
           /\ \A a \in DOMAIN Append(s, j) :
                 \/ a \in DOMAIN s /\ Append(s, j)[a] = s[a]
                 \/ a = Len(s) + 1 /\ Append(s, j)[a] = j
           /\ \A a \in DOMAIN s : a \in Nat /\ a <= Len(s)
           /\ Range(Append(s, j)) = Range(s) \cup {j}
<1>1. /\ Append(s, j) \in Seq(Job) /\ Len(Append(s, j)) = Len(s) + 1
      /\ Append(s, j)[Len(s) + 1] = j
      /\ \A a \in DOMAIN s : a \in DOMAIN Append(s, j) /\ Append(s, j)[a] = s[a]
  OBVIOUS
<1>2. \A a \in DOMAIN Append(s, j) :
         \/ a \in DOMAIN s /\ Append(s, j)[a] = s[a]
         \/ a = Len(s) + 1 /\ Append(s, j)[a] = j
  BY <1>1
<1>3. Len(s) + 1 \in DOMAIN Append(s, j)
  BY <1>1
<1>4. Range(Append(s, j)) = Range(s) \cup {j}
  BY <1>1, <1>2, <1>3 DEF Range
<1>5. QED
  BY <1>1, <1>2, <1>4

\* The head of a sorted queue is not in its tail.
LEMMA HeadOnce ==
    ASSUME NEW s \in Seq(Job), s # <<>>, Sorted(s)
    PROVE  Head(s) \notin Range(Tail(s)) /\ Sorted(Tail(s))
<1>1. \A a \in DOMAIN Tail(s) : Tail(s)[a] # Head(s)
  BY TailFacts, SortedDistinct
<1>2. Sorted(Tail(s))
  BY TailFacts DEF Sorted
<1>3. QED
  BY <1>1, <1>2 DEF Range

\* Lists of which one comes before the other share no job.
LEMMA AllBeforeDisjoint ==
    ASSUME NEW s \in Seq(Job), NEW t \in Seq(Job), AllBefore(s, t)
    PROVE  Range(s) \cap Range(t) = {}
<1>1. \A j \in Job : ~Before(j, j)
  BY TraceAssumption DEF Before, Rank
<1>2. \A a \in DOMAIN s : s[a] \in Job
  OBVIOUS
<1>3. QED
  BY <1>1, <1>2 DEF AllBefore, Range

-----------------------------------------------------------------------------
(* Frames: what steps that leave some state alone preserve.                *)

LEMMA OrderFrame ==
    ASSUME TraceOrder, QueuedNotLeased, UNCHANGED queues, Leased' \subseteq Leased
    PROVE  TraceOrder' /\ QueuedNotLeased'
<1>1. UNCHANGED <<submit, runnable, kept>>
  BY DEF queues
<1>2. TraceOrder'
  BY <1>1 DEF TraceOrder, Sorted, AllBefore
<1>3. Queued' = Queued
  BY <1>1 DEF Queued, Range
<1>4. QED
  BY <1>2, <1>3 DEF QueuedNotLeased

LEMMA SlotsFrame ==
    ASSUME SlotsMatchTasks, NoOversubscription, UNCHANGED <<gpus, machine>>,
           Leased' = Leased
    PROVE  SlotsMatchTasks' /\ NoOversubscription'
BY DEF SlotsMatchTasks, NoOversubscription

LEMMA FitsFrame ==
    ASSUME NEW j, UNCHANGED machine
    PROVE  Free(j)' = Free(j) /\ (Fits(j)' <=> Fits(j))
BY DEF Free, Fits

-----------------------------------------------------------------------------
(* The initial states.                                                     *)

LEMMA InitInv == Init => IInv
<1> SUFFICES ASSUME Init PROVE IInv
  OBVIOUS
<1> USE TraceAssumption DEF Init
<1>1. submit \in Seq(Job)
  <2>1. Cardinality(Job) \in Nat
    BY FS_CardinalityType
  <2>2. QED
    BY <2>1
<1>2. TypeOK
  BY <1>1 DEF TypeOK
<1>3. Phases
  BY DEF Phases
<1>4. TraceOrder
  BY DEF TraceOrder, AllBefore, Sorted
<1>5. Leased = {} /\ Queued = Job
  BY DEF Leased, Queued, Range
<1>6. QueuedNotLeased
  BY <1>5 DEF QueuedNotLeased
<1>7. SlotsMatchTasks /\ NoOversubscription
  BY <1>5, FS_EmptySet DEF SlotsMatchTasks, NoOversubscription, Capacity
<1>8. NoJobLost
  BY <1>5 DEF NoJobLost
<1>9. ReleaseNeverFaults /\ WorkConserving /\ KeptDoNotFit /\ NoOversleep
  BY DEF ReleaseNeverFaults, WorkConserving, KeptDoNotFit, NoOversleep
<1>10. QED
  BY <1>2, <1>3, <1>4, <1>6, <1>7, <1>8, <1>9 DEF IInv

-----------------------------------------------------------------------------
(* Steps that leave the queues and the slots alone.                        *)

\* Any step that changes none of the lists and slots and only moves the loop
\* to a place that asks for no more.
LEMMA QuietStep ==
    ASSUME IInv, UNCHANGED <<queues, slots, proc>>, TypeOK', Phases',
           Leased' = Leased,
           pc = "crashed" => pc' = "crashed",
           cause' # "slot_absent",
           pc' = "scan" => pc = "scan" \/ kept = <<>>,
           pc' \in {"nap", "sleep"} => pc \in {"nap", "sleep"},
           NoOversleep'
    PROVE  IInv'
<1>1. UNCHANGED <<submit, runnable, kept, tasks, gpus, machine, proc>>
  BY DEF queues, slots
<1>2. TraceOrder' /\ QueuedNotLeased'
  BY OrderFrame DEF IInv
<1>3. SlotsMatchTasks' /\ NoOversubscription'
  BY <1>1, SlotsFrame DEF IInv
<1>4. Queued' = Queued
  BY <1>1 DEF Queued, Range
<1>5. NoJobLost'
  BY <1>1, <1>4 DEF IInv, NoJobLost
<1>6. \A j : Fits(j)' <=> Fits(j)
  BY <1>1, FitsFrame
<1>7. WorkConserving' /\ KeptDoNotFit'
  BY <1>1, <1>6 DEF IInv, WorkConserving, KeptDoNotFit
<1>8. QED
  BY <1>2, <1>3, <1>5, <1>7 DEF IInv, ReleaseNeverFaults

LEMMA TopStep == ASSUME IInv, Top PROVE IInv'
<1> USE DEF Top, slots, queues, reap
<1>1. TypeOK' /\ Phases' /\ Leased' = Leased /\ NoOversleep'
  BY DEF IInv, TypeOK, Phases, Leased, NoOversleep
<1>2. cause' # "slot_absent"
  BY DEF IInv, ReleaseNeverFaults
<1>3. QED
  BY <1>1, <1>2, QuietStep

LEMMA EndAdmitStep == ASSUME IInv, EndAdmit PROVE IInv'
<1> USE DEF EndAdmit, slots, queues
<1>1. TypeOK' /\ Phases' /\ NoOversleep'
  BY DEF IInv, TypeOK, Phases, NoOversleep
<1>2. Leased' = Leased
  BY DEF IInv, Phases, Leased
<1>3. cause' # "slot_absent"
  BY DEF IInv, ReleaseNeverFaults
<1>4. QED
  BY <1>1, <1>2, <1>3, QuietStep

\* A polled task that ended is still in _tasks: the set of leases is the same.
LEMMA PollStep == ASSUME IInv, NEW j \in Job, Poll(j) PROVE IInv'
<1> USE DEF Poll, slots, queues
<1>1. TypeOK' /\ NoOversleep'
  BY DEF IInv, TypeOK, NoOversleep
<1>2. Phases' /\ Leased' = Leased
  BY DEF IInv, Phases, Leased
<1>3. cause' # "slot_absent"
  BY DEF IInv, ReleaseNeverFaults
<1>4. QED
  BY <1>1, <1>2, <1>3, QuietStep

LEMMA EndReleaseStep == ASSUME IInv, EndRelease PROVE IInv'
<1> USE DEF EndRelease, slots, queues, reap
<1>1. TypeOK' /\ Phases' /\ NoOversleep'
  BY DEF IInv, TypeOK, Phases, NoOversleep
<1>2. Leased' = Leased /\ kept = <<>>
  BY DEF IInv, Phases, Leased
<1>3. cause' # "slot_absent"
  BY DEF IInv, ReleaseNeverFaults
<1>4. QED
  BY <1>1, <1>2, <1>3, QuietStep

LEMMA DueTime ==
    ASSUME TypeOK, submit # <<>>
    PROVE  SubmitTime[Head(submit)] \in Nat
BY TailFacts, TraceAssumption DEF TypeOK

\* The sleep is the time to the next arrival, or less.
LEMMA NapStep == ASSUME IInv, Nap PROVE IInv'
<1> USE DEF Nap, slots, queues, reap, Crash
<1>1. /\ now \in Int /\ nap \in 0 .. MaxNap /\ MaxNap \in Nat
      /\ submit # <<>> => SubmitTime[Head(submit)] \in Nat
  BY DueTime, TraceAssumption DEF IInv, TypeOK
<1>2. nap' \in 0 .. MaxNap
  BY <1>1
<1>3. TypeOK'
  BY <1>2 DEF IInv, TypeOK
<1>4. Phases' /\ Leased' = Leased
  BY DEF IInv, Phases, Leased
<1>5. NoOversleep'
  BY <1>1 DEF NoOversleep
<1>6. cause' # "slot_absent"
  BY DEF IInv, ReleaseNeverFaults
<1>7. QED
  BY <1>3, <1>4, <1>5, <1>6, QuietStep

LEMMA WakeStep == ASSUME IInv, Wake PROVE IInv'
<1> USE DEF Wake, slots, queues, reap
<1>1. TypeOK' /\ Phases' /\ Leased' = Leased /\ NoOversleep'
  BY DEF IInv, TypeOK, Phases, Leased, NoOversleep
<1>2. cause' # "slot_absent"
  BY DEF IInv, ReleaseNeverFaults
<1>3. QED
  BY <1>1, <1>2, QuietStep

\* While the loop sleeps the clock gains what the sleep loses.
LEMMA TickStep == ASSUME IInv, Tick PROVE IInv'
<1> USE DEF Tick, Over, slots, queues, reap
<1>1. TypeOK'
  BY TraceAssumption DEF IInv, TypeOK
<1>2. Phases' /\ Leased' = Leased
  BY DEF IInv, Phases, Leased
<1>3. /\ now \in Int /\ nap \in Int /\ submit' = submit /\ pc' = pc
      /\ submit # <<>> => SubmitTime[Head(submit)] \in Nat
  BY DueTime DEF IInv, TypeOK
<1>4. NoOversleep'
  BY <1>3 DEF IInv, NoOversleep
<1>5. cause' # "slot_absent"
  BY DEF IInv, ReleaseNeverFaults
<1>6. QED
  BY <1>1, <1>2, <1>4, <1>5, QuietStep

LEMMA StutterStep == ASSUME IInv, UNCHANGED vars PROVE IInv'
<1> USE DEF vars, slots, queues, reap
<1>1. TypeOK' /\ Phases' /\ Leased' = Leased /\ NoOversleep'
  BY DEF IInv, TypeOK, Phases, Leased, NoOversleep
<1>2. cause' # "slot_absent"
  BY DEF IInv, ReleaseNeverFaults
<1>3. QED
  BY <1>1, <1>2, QuietStep

\* A container that ends was started, and stays in _tasks.
LEMMA ExitStep == ASSUME IInv, NEW j \in Job, Exit(j) PROVE IInv'
<1>1. UNCHANGED <<submit, runnable, kept, tasks, gpus, machine, finished,
                  unpolled, now, nap, pc, cause>>
  BY DEF Exit, queues, slots, reap
<1>2. proc \in [Job -> {"none", "running", "exited"}]
      /\ proc[j] = "running" /\ proc' = [proc EXCEPT ![j] = "exited"]
  BY DEF Exit, IInv, TypeOK
<1>3. TypeOK' /\ Phases'
  BY <1>1, <1>2 DEF IInv, TypeOK, Phases
<1>4. TraceOrder' /\ QueuedNotLeased'
  BY <1>1, OrderFrame DEF IInv, queues, Leased
<1>5. SlotsMatchTasks' /\ NoOversubscription'
  BY <1>1, SlotsFrame DEF IInv, Leased
<1>6. Queued' = Queued
  BY <1>1 DEF Queued, Range
<1>7. NoJobLost'
  BY <1>1, <1>2, <1>6 DEF IInv, NoJobLost
<1>8. \A i : Fits(i)' <=> Fits(i)
  BY <1>1, FitsFrame
<1>9. WorkConserving' /\ KeptDoNotFit' /\ ReleaseNeverFaults' /\ NoOversleep'
  BY <1>1, <1>8
     DEF IInv, WorkConserving, KeptDoNotFit, ReleaseNeverFaults, NoOversleep
<1>10. QED
  BY <1>3, <1>4, <1>5, <1>7, <1>9 DEF IInv

-----------------------------------------------------------------------------
(* Steps that move jobs between the queues.                                *)

\* The head of the submit queue becomes the last runnable job: the order of
\* the three lists put end to end is the same.
LEMMA AdmitStep == ASSUME IInv, Admit PROVE IInv'
<1> DEFINE j == Head(submit)
<1>1. /\ UNCHANGED <<kept, tasks, gpus, machine, proc, unpolled, finished, now, nap>>
      /\ pc = "admit" /\ submit # <<>> /\ submit' = Tail(submit)
  BY DEF Admit, HasReadyJobs, slots, reap
<1>2. \/ runnable' = Append(runnable, j) /\ UNCHANGED <<pc, cause>>
      \/ runnable' = runnable /\ pc' = "crashed" /\ cause' = "num_gpus"
  BY DEF Admit, Crash
<1>3. submit \in Seq(Job) /\ runnable \in Seq(Job) /\ kept \in Seq(Job)
  BY DEF IInv, TypeOK
<1>4. j \in Job /\ submit' \in Seq(Job) /\ Range(submit) = {j} \cup Range(submit')
  BY <1>1, <1>3, TailFacts
<1>5. runnable' \in Seq(Job) /\ Range(runnable') \subseteq Range(runnable) \cup {j}
  <2>1. Append(runnable, j) \in Seq(Job)
        /\ Range(Append(runnable, j)) = Range(runnable) \cup {j}
    BY <1>3, <1>4, AppendFacts
  <2>2. CASE runnable' = Append(runnable, j)
    BY <2>1, <2>2
  <2>3. CASE runnable' = runnable
    BY <1>3, <2>3
  <2>4. QED
    BY <1>2, <2>2, <2>3
<1>6. TypeOK' /\ Phases'
  <2>1. TypeOK'
    BY <1>1, <1>2, <1>3, <1>4, <1>5 DEF IInv, TypeOK
  <2>2. Phases'
    BY <1>1, <1>2 DEF IInv, Phases
  <2>3. QED
    BY <2>1, <2>2
<1>7. Sorted(submit') /\ Sorted(kept') /\ AllBefore(kept', submit')
  <2>1. \A a \in DOMAIN submit' : a + 1 \in DOMAIN submit /\ submit'[a] = submit[a + 1]
    BY <1>1, <1>3, TailFacts
  <2>2. QED
    BY <1>1, <1>3, <2>1, HeadOnce DEF IInv, TraceOrder, Sorted, AllBefore
<1>8. Sorted(runnable') /\ AllBefore(kept', runnable') /\ AllBefore(runnable', submit')
  <2>1. \A a \in DOMAIN submit' :
           /\ a \in Nat /\ a >= 1
           /\ a + 1 \in DOMAIN submit /\ submit'[a] = submit[a + 1]
    BY <1>1, <1>3, TailFacts
  <2>2. 1 \in DOMAIN submit /\ j = submit[1]
    BY <1>1, <1>3, TailFacts
  <2>3. \A a \in DOMAIN runnable' :
           \/ a \in DOMAIN runnable /\ runnable'[a] = runnable[a]
           \/ a = Len(runnable) + 1 /\ runnable'[a] = j
    BY <1>2, <1>3, <1>4, AppendFacts
  <2>4. \A a \in DOMAIN runnable : a \in Nat /\ a <= Len(runnable)
    BY <1>3
  <2>5. Len(runnable) \in Nat
    BY <1>3
  <2>6. Sorted(runnable')
    BY <2>2, <2>3, <2>4, <2>5 DEF IInv, TraceOrder, Sorted, AllBefore
  <2>7. AllBefore(kept', runnable')
    BY <1>1, <2>2, <2>3 DEF IInv, TraceOrder, AllBefore
  <2>8. AllBefore(runnable', submit')
    BY <2>1, <2>2, <2>3 DEF IInv, TraceOrder, Sorted, AllBefore
  <2>9. QED
    BY <2>6, <2>7, <2>8
<1>9. Queued' \subseteq Queued /\ (pc' # "crashed" => Queued' = Queued)
  <2>1. Range(Append(runnable, j)) = Range(runnable) \cup {j} /\ kept' = kept
    BY <1>1, <1>3, <1>4, AppendFacts
  <2>2. Queued' \subseteq Queued
    BY <1>4, <1>5, <2>1 DEF Queued
  <2>3. CASE runnable' = Append(runnable, j)
    BY <1>4, <2>1, <2>3 DEF Queued
  <2>4. QED
    BY <1>2, <2>2, <2>3
<1>10. QueuedNotLeased'
  BY <1>1, <1>9 DEF IInv, QueuedNotLeased, Leased
<1>11. SlotsMatchTasks' /\ NoOversubscription'
  BY <1>1, SlotsFrame DEF IInv, Leased
<1>12. NoJobLost'
  BY <1>1, <1>2, <1>9 DEF IInv, NoJobLost
<1>13. ReleaseNeverFaults' /\ WorkConserving' /\ KeptDoNotFit' /\ NoOversleep'
  BY <1>1, <1>2
     DEF IInv, ReleaseNeverFaults, WorkConserving, KeptDoNotFit, NoOversleep
<1>14. QED
  BY <1>6, <1>7, <1>8, <1>10, <1>11, <1>12, <1>13 DEF IInv, TraceOrder

\* The head of runnable becomes the last kept job; it does not fit.
LEMMA KeepStep == ASSUME IInv, Keep PROVE IInv'
<1> DEFINE j == Head(runnable)
<1>1. /\ UNCHANGED <<submit, tasks, gpus, machine, proc, unpolled, finished,
                    now, nap, pc, cause>>
      /\ pc = "scan" /\ runnable # <<>> /\ ~Fits(j)
      /\ runnable' = Tail(runnable) /\ kept' = Append(kept, j)
  BY DEF Keep, slots, reap
<1>2. submit \in Seq(Job) /\ runnable \in Seq(Job) /\ kept \in Seq(Job)
  BY DEF IInv, TypeOK
<1>3. /\ j \in Job /\ runnable' \in Seq(Job)
      /\ Range(runnable) = {j} \cup Range(runnable')
      /\ 1 \in DOMAIN runnable /\ j = runnable[1]
      /\ \A a \in DOMAIN runnable' :
            /\ a \in Nat /\ a >= 1
            /\ a + 1 \in DOMAIN runnable /\ runnable'[a] = runnable[a + 1]
  BY <1>1, <1>2, TailFacts
<1>4. /\ kept' \in Seq(Job) /\ Range(kept') = Range(kept) \cup {j}
      /\ \A a \in DOMAIN kept' :
            \/ a \in DOMAIN kept /\ kept'[a] = kept[a]
            \/ a = Len(kept) + 1 /\ kept'[a] = j
  BY <1>1, <1>2, <1>3, AppendFacts
<1>5. TypeOK' /\ Phases'
  <2>1. TypeOK'
    BY <1>1, <1>2, <1>3, <1>4 DEF IInv, TypeOK
  <2>2. Phases'
    BY <1>1 DEF IInv, Phases
  <2>3. QED
    BY <2>1, <2>2
<1>6. TraceOrder'
  <2>1. \A a \in DOMAIN kept : a \in Nat /\ a <= Len(kept)
    BY <1>2
  <2>2. Len(kept) \in Nat
    BY <1>2
  <2>3. Sorted(kept')
    BY <1>3, <1>4, <2>1, <2>2 DEF IInv, TraceOrder, Sorted, AllBefore
  <2>4. Sorted(runnable') /\ Sorted(submit')
    BY <1>1, <1>2, HeadOnce DEF IInv, TraceOrder
  <2>5. AllBefore(kept', runnable')
    <3> SUFFICES ASSUME NEW a \in DOMAIN kept', NEW b \in DOMAIN runnable'
                 PROVE  Before(kept'[a], runnable'[b])
      BY DEF AllBefore
    <3>1. b + 1 \in DOMAIN runnable /\ runnable'[b] = runnable[b + 1] /\ 1 < b + 1
      BY <1>3
    <3>2. CASE a \in DOMAIN kept /\ kept'[a] = kept[a]
      BY <3>1, <3>2 DEF IInv, TraceOrder, AllBefore
    <3>3. CASE kept'[a] = j
      BY <1>3, <3>1, <3>3 DEF IInv, TraceOrder, Sorted
    <3>4. QED
      BY <1>4, <3>2, <3>3
  <2>6. AllBefore(kept', submit') /\ AllBefore(runnable', submit')
    BY <1>1, <1>3, <1>4 DEF IInv, TraceOrder, AllBefore
  <2>7. QED
    BY <2>3, <2>4, <2>5, <2>6 DEF TraceOrder
<1>7. Queued' = Queued
  BY <1>1, <1>3, <1>4 DEF Queued
<1>8. QueuedNotLeased' /\ NoJobLost'
  BY <1>1, <1>7 DEF IInv, QueuedNotLeased, Leased, NoJobLost
<1>9. SlotsMatchTasks' /\ NoOversubscription'
  BY <1>1, SlotsFrame DEF IInv, Leased
<1>10. \A i : Fits(i)' <=> Fits(i)
  BY <1>1, FitsFrame
<1>11. KeptDoNotFit'
  BY <1>1, <1>4, <1>10 DEF IInv, KeptDoNotFit
<1>12. ReleaseNeverFaults' /\ WorkConserving' /\ NoOversleep'
  BY <1>1 DEF IInv, ReleaseNeverFaults, WorkConserving, NoOversleep
<1>13. QED
  BY <1>5, <1>6, <1>8, <1>9, <1>11, <1>12 DEF IInv

\* The kept jobs are the runnable ones of the next turn.
LEMMA EndScanStep == ASSUME IInv, EndScan PROVE IInv'
<1>1. /\ UNCHANGED <<submit, tasks, gpus, machine, proc, unpolled, finished,
                    now, nap, cause>>
      /\ pc = "scan" /\ pc' = "nap"
      /\ runnable = <<>> /\ runnable' = kept /\ kept' = <<>>
  BY DEF EndScan, slots, reap
<1>2. TypeOK' /\ Phases'
  BY <1>1 DEF IInv, TypeOK, Phases
<1>3. TraceOrder'
  BY <1>1 DEF IInv, TraceOrder, Sorted, AllBefore
<1>4. Queued' = Queued
  BY <1>1 DEF Queued, Range
<1>5. QueuedNotLeased' /\ NoJobLost'
  BY <1>1, <1>4 DEF IInv, QueuedNotLeased, Leased, NoJobLost
<1>6. SlotsMatchTasks' /\ NoOversubscription'
  BY <1>1, SlotsFrame DEF IInv, Leased
<1>7. \A i : Fits(i)' <=> Fits(i)
  BY <1>1, FitsFrame
<1>8. WorkConserving'
  BY <1>1, <1>7 DEF IInv, KeptDoNotFit, WorkConserving
<1>9. ReleaseNeverFaults' /\ KeptDoNotFit' /\ NoOversleep'
  BY <1>1 DEF IInv, ReleaseNeverFaults, KeptDoNotFit, NoOversleep
<1>10. QED
  BY <1>2, <1>3, <1>5, <1>6, <1>8, <1>9 DEF IInv

-----------------------------------------------------------------------------
(* Steps that give GPUs back.                                              *)

\* The finished tasks leave _tasks; until released they still hold slots.
LEMMA ReapStep == ASSUME IInv, Reap PROVE IInv'
<1>1. /\ UNCHANGED <<submit, runnable, kept, gpus, machine, proc, unpolled,
                    finished, now, nap, cause>>
      /\ pc = "poll" /\ pc' = "release" /\ tasks' = tasks \ finished
  BY DEF Reap, queues, reap
<1>2. Leased' = Leased
  BY <1>1 DEF IInv, Phases, Leased
<1>3. TypeOK' /\ Phases'
  BY <1>1 DEF IInv, TypeOK, Phases
<1>4. TraceOrder' /\ QueuedNotLeased'
  BY <1>1, <1>2, OrderFrame DEF IInv, queues
<1>5. SlotsMatchTasks' /\ NoOversubscription'
  BY <1>1, <1>2, SlotsFrame DEF IInv
<1>6. Queued' = Queued
  BY <1>1 DEF Queued, Range
<1>7. NoJobLost'
  BY <1>1, <1>6 DEF IInv, NoJobLost, Phases
<1>8. ReleaseNeverFaults' /\ WorkConserving' /\ KeptDoNotFit' /\ NoOversleep'
  BY <1>1 DEF IInv, ReleaseNeverFaults, WorkConserving, KeptDoNotFit, NoOversleep
<1>9. QED
  BY <1>3, <1>4, <1>5, <1>7, <1>8 DEF IInv

\* A set of jobs of which one slot of an exclusive class may hold one at most.
LEMMA OnlyHolder ==
    ASSUME NEW S \in SUBSET Job, NEW j \in S, Cardinality(S) <= 1
    PROVE  S = {j}
<1>1. IsFiniteSet(S) /\ Cardinality(S) \in Nat
  BY TraceAssumption, FS_Subset, FS_CardinalityType
<1>2. Cardinality(S) # 0
  BY <1>1, FS_EmptySet
<1>3. Cardinality(S) = 1
  BY <1>1, <1>2
<1>4. QED
  BY <1>1, <1>3, FS_Singleton

\* Every GPU of a finished job still shows it, so nothing is absent, and only
\* its own entry disappears.
LEMMA ReleaseStep == ASSUME IInv, NEW j \in Job, Release(j) PROVE IInv'
<1> DEFINE p == Priority[j]
<1>1. /\ UNCHANGED <<submit, runnable, kept, tasks, gpus, proc, unpolled, now, nap>>
      /\ pc = "release" /\ j \in finished /\ finished' = finished \ {j}
      /\ machine' = [g \in GPU |->
            IF g \in gpus[j] THEN [machine[g] EXCEPT ![p] = Removed(j, g)]
                             ELSE machine[g]]
      /\ cause' = ReleaseError(j)
      /\ pc' = IF ReleaseError(j) = "none" THEN pc ELSE "crashed"
  BY DEF Release, queues
<1>2. machine \in [GPU -> [Class -> SUBSET Job]] /\ gpus \in [Job -> SUBSET GPU]
      /\ p \in Class
  BY DEF IInv, TypeOK, Class
<1>3. j \in Leased /\ Leased' = Leased \ {j}
  BY <1>1 DEF IInv, Phases, Leased
<1>4. \A g \in GPU : g \in gpus[j] <=> j \in machine[g][p]
  BY <1>2, <1>3 DEF IInv, SlotsMatchTasks
<1>5. \A g \in gpus[j] : Present(j, g) /\ Removed(j, g) = machine[g][p] \ {j}
  <2> SUFFICES ASSUME NEW g \in gpus[j]
               PROVE  Present(j, g) /\ Removed(j, g) = machine[g][p] \ {j}
    OBVIOUS
  <2>1. g \in GPU /\ j \in machine[g][p] /\ machine[g][p] \in SUBSET Job
    BY <1>2, <1>4
  <2>2. CASE p \in Shareable
    BY <2>1, <2>2 DEF Present, Removed
  <2>3. CASE p \notin Shareable
    <3>1. Cardinality(machine[g][p]) <= 1
      BY <1>2, <2>1, <2>3 DEF IInv, NoOversubscription, Capacity
    <3>2. machine[g][p] = {j}
      BY <2>1, <3>1, OnlyHolder
    <3>3. QED
      BY <2>3, <3>2 DEF Present, Removed
  <2>4. QED
    BY <2>2, <2>3
<1>6. ReleaseError(j) \in {"none", "no_gpu_id"}
  BY <1>5 DEF ReleaseError
<1>7. machine' \in [GPU -> [Class -> SUBSET Job]]
  BY <1>1, <1>2, <1>5
<1>8. \A g \in GPU, q \in Class :
         machine'[g][q] = IF g \in gpus[j] /\ q = p THEN machine[g][q] \ {j}
                                                   ELSE machine[g][q]
  BY <1>1, <1>2, <1>5
<1>9. TypeOK'
  BY <1>1, <1>6, <1>7 DEF IInv, TypeOK
<1>10. Phases'
  BY <1>1, <1>6 DEF IInv, Phases
<1>11. TraceOrder' /\ QueuedNotLeased'
  BY <1>1, <1>3, OrderFrame DEF IInv, queues
<1>12. SlotsMatchTasks'
  <2> SUFFICES ASSUME NEW g \in GPU, NEW q \in Class
               PROVE  machine'[g][q] =
                        {i \in Leased' : Priority[i] = q /\ g \in gpus[i]}
    BY <1>1 DEF SlotsMatchTasks
  <2>1. machine[g][q] = {i \in Leased : Priority[i] = q /\ g \in gpus[i]}
    BY DEF IInv, SlotsMatchTasks
  <2>2. CASE g \in gpus[j] /\ q = p
    BY <1>3, <1>8, <2>1, <2>2
  <2>3. CASE ~(g \in gpus[j] /\ q = p)
    BY <1>3, <1>8, <2>1, <2>3
  <2>4. QED
    BY <2>2, <2>3
<1>13. NoOversubscription'
  <2> SUFFICES ASSUME NEW g \in GPU, NEW q \in Class
               PROVE  Cardinality(machine'[g][q]) <= Capacity(q)
    BY DEF NoOversubscription
  <2>1. machine[g][q] \in SUBSET Job /\ machine'[g][q] \in SUBSET machine[g][q]
    BY <1>2, <1>8
  <2>2. IsFiniteSet(machine[g][q])
    BY <2>1, TraceAssumption, FS_Subset
  <2>3. /\ Cardinality(machine'[g][q]) <= Cardinality(machine[g][q])
        /\ Cardinality(machine'[g][q]) \in Nat /\ Cardinality(machine[g][q]) \in Nat
    BY <2>1, <2>2, FS_Subset, FS_CardinalityType
  <2>4. QED
    BY <2>3 DEF IInv, NoOversubscription, Capacity
<1>14. Queued' = Queued
  BY <1>1 DEF Queued, Range
<1>15. NoJobLost'
  BY <1>1, <1>14 DEF IInv, NoJobLost
<1>16. ReleaseNeverFaults' /\ WorkConserving' /\ KeptDoNotFit' /\ NoOversleep'
  BY <1>1, <1>6
     DEF IInv, ReleaseNeverFaults, WorkConserving, KeptDoNotFit, NoOversleep
<1>17. QED
  BY <1>9, <1>10, <1>11, <1>12, <1>13, <1>15, <1>16 DEF IInv

-----------------------------------------------------------------------------
(* The step that takes GPUs.                                               *)

\* A job only takes free GPUs, however many it asks for.
LEMMA TakeFree == ASSUME NEW j PROVE Take(j) \subseteq Free(j)
BY DEF Take

\* The machine is a finite list, and so are the free GPUs in it.
LEMMA FreeFinite ==
    ASSUME NEW j
    PROVE  /\ IsFiniteSet(Free(j)) /\ Free(j) \in SUBSET GPU
           /\ Cardinality(Free(j)) \in Nat
<1>1. 0 \in Int /\ NumMachines - 1 \in Int
  BY TraceAssumption
<1>2. IsFiniteSet(GPU)
  BY <1>1, FS_Interval DEF GPU
<1>3. Free(j) \in SUBSET GPU
  BY DEF Free
<1>4. QED
  BY <1>2, <1>3, FS_Subset, FS_CardinalityType

\* GPUs that gain a job leave no more room to anyone.
LEMMA FreeShrinks ==
    ASSUME TypeOK, TypeOK', NEW i \in Job,
           \A g \in GPU : machine[g][Priority[i]] \subseteq machine'[g][Priority[i]]
    PROVE  Fits(i)' => Fits(i)
<1> DEFINE p == Priority[i]
<1>1. p \in Class
  BY DEF Class
<1>2. ASSUME NEW g \in GPU
      PROVE  Cardinality(machine[g][p]) <= Cardinality(machine'[g][p])
  <2>1. machine[g][p] \in SUBSET machine'[g][p] /\ machine'[g][p] \in SUBSET Job
    BY <1>1 DEF TypeOK
  <2>2. QED
    BY <2>1, TraceAssumption, FS_Subset
<1>3. \A g \in GPU : /\ Cardinality(machine[g][p]) \in Nat
                    /\ Cardinality(machine'[g][p]) \in Nat
  <2> SUFFICES ASSUME NEW g \in GPU
               PROVE  /\ Cardinality(machine[g][p]) \in Nat
                      /\ Cardinality(machine'[g][p]) \in Nat
    OBVIOUS
  <2>1. machine[g][p] \in SUBSET Job /\ machine'[g][p] \in SUBSET Job
    BY <1>1 DEF TypeOK
  <2>2. QED
    BY <2>1, TraceAssumption, FS_Subset, FS_CardinalityType
<1>4. Free(i)' \in SUBSET Free(i)
  BY <1>2, <1>3 DEF Free, Capacity
<1>5. IsFiniteSet(Free(i))
  BY FreeFinite
<1>6. /\ Cardinality(Free(i)') <= Cardinality(Free(i))
      /\ Cardinality(Free(i)') \in Nat /\ Cardinality(Free(i)) \in Nat
  BY <1>4, <1>5, FS_Subset, FS_CardinalityType
<1>7. NumGpus[i] \in Nat
  BY TraceAssumption
<1>8. QED
  BY <1>6, <1>7 DEF Fits

LEMMA StartStep == ASSUME IInv, Start PROVE IInv'
<1> DEFINE j == Head(runnable)
           p == Priority[j]
<1>1. /\ UNCHANGED <<submit, kept, unpolled, finished, now, nap>>
      /\ pc = "scan" /\ runnable # <<>> /\ Fits(j)
      /\ runnable' = Tail(runnable)
      /\ gpus' = [gpus EXCEPT ![j] = Take(j)]
      /\ machine' = [g \in GPU |->
            IF g \in Take(j) THEN [machine[g] EXCEPT ![p] = @ \cup {j}]
                             ELSE machine[g]]
      /\ tasks' = tasks \cup {j}
  BY DEF Start, reap
<1>2. \/ proc' = [proc EXCEPT ![j] = "running"] /\ UNCHANGED <<pc, cause>>
      \/ proc' = proc /\ pc' = "crashed" /\ cause' = "launch"
  BY DEF Start, Crash
<1>3. submit \in Seq(Job) /\ runnable \in Seq(Job) /\ kept \in Seq(Job)
  BY DEF IInv, TypeOK
<1>4. /\ j \in Job /\ runnable' \in Seq(Job)
      /\ Range(runnable) = {j} \cup Range(runnable')
      /\ 1 \in DOMAIN runnable /\ j = runnable[1]
      /\ \A a \in DOMAIN runnable' :
            a + 1 \in DOMAIN runnable /\ runnable'[a] = runnable[a + 1]
      /\ Sorted(runnable') /\ j \notin Range(runnable')
  BY <1>1, <1>3, TailFacts, HeadOnce DEF IInv, TraceOrder
<1>5. p \in Class
  BY <1>4 DEF Class
<1>6. machine \in [GPU -> [Class -> SUBSET Job]] /\ gpus \in [Job -> SUBSET GPU]
      /\ proc \in [Job -> {"none", "running", "exited"}]
  BY DEF IInv, TypeOK
<1>7. Take(j) \subseteq Free(j) /\ Free(j) \subseteq GPU
  BY TakeFree DEF Free
<1>8. j \notin Leased /\ Leased' = Leased \cup {j}
  BY <1>1, <1>4 DEF IInv, QueuedNotLeased, Queued, Leased
<1>9. /\ machine' \in [GPU -> [Class -> SUBSET Job]]
      /\ \A g \in GPU, q \in Class :
            machine'[g][q] = IF g \in Take(j) /\ q = p THEN machine[g][q] \cup {j}
                                                       ELSE machine[g][q]
  BY <1>1, <1>4, <1>5, <1>6
<1>10. TypeOK'
  <2>1. gpus' \in [Job -> SUBSET GPU]
    BY <1>1, <1>6, <1>7
  <2>2. proc' \in [Job -> {"none", "running", "exited"}]
    BY <1>2, <1>6
  <2>3. QED
    BY <1>1, <1>2, <1>4, <1>9, <2>1, <2>2 DEF IInv, TypeOK
<1>11. proc[j] = "none" /\ j \notin finished /\ finished = {}
  BY <1>1, <1>4, <1>8 DEF IInv, NoJobLost, Queued, Leased, Phases
<1>12. Phases'
  BY <1>1, <1>2, <1>11 DEF IInv, Phases
<1>13. TraceOrder'
  BY <1>1, <1>4 DEF IInv, TraceOrder, Sorted, AllBefore
<1>14. Queued' = Queued \ {j}
  <2>1. j \notin Range(kept)
    BY <1>3, <1>4, AllBeforeDisjoint DEF IInv, TraceOrder
  <2>2. j \notin Range(submit)
    BY <1>3, <1>4, AllBeforeDisjoint DEF IInv, TraceOrder
  <2>3. Range(submit') = Range(submit) /\ Range(kept') = Range(kept)
    BY <1>1
  <2>4. QED
    BY <1>4, <2>1, <2>2, <2>3 DEF Queued
<1>15. QueuedNotLeased'
  BY <1>8, <1>14 DEF IInv, QueuedNotLeased
<1>16. SlotsMatchTasks'
  <2> SUFFICES ASSUME NEW g \in GPU, NEW q \in Class
               PROVE  machine'[g][q] =
                        {i \in Leased' : Priority[i] = q /\ g \in gpus'[i]}
    BY DEF SlotsMatchTasks
  <2>1. machine[g][q] = {i \in Leased : Priority[i] = q /\ g \in gpus[i]}
    BY DEF IInv, SlotsMatchTasks
  <2>2. \A i \in Leased : i # j /\ i \in Job /\ gpus'[i] = gpus[i]
    BY <1>1, <1>6, <1>8 DEF IInv, TypeOK, Leased
  <2>3. gpus'[j] = Take(j)
    BY <1>1, <1>4, <1>6
  <2>4. {i \in Leased' : Priority[i] = q /\ g \in gpus'[i]} =
          machine[g][q] \cup {i \in {j} : p = q /\ g \in Take(j)}
    BY <1>8, <2>1, <2>2, <2>3
  <2>5. machine'[g][q] = machine[g][q] \cup {i \in {j} : p = q /\ g \in Take(j)}
    <3>1. CASE g \in Take(j) /\ q = p
      BY <1>9, <3>1
    <3>2. CASE ~(g \in Take(j) /\ q = p)
      BY <1>9, <3>2
    <3>3. QED
      BY <3>1, <3>2
  <2>6. QED
    BY <2>4, <2>5
<1>17. NoOversubscription'
  <2> SUFFICES ASSUME NEW g \in GPU, NEW q \in Class
               PROVE  Cardinality(machine'[g][q]) <= Capacity(q)
    BY DEF NoOversubscription
  <2>1. CASE g \in Take(j) /\ q = p
    <3>1. machine[g][q] \in SUBSET Job
      BY <1>6
    <3>2. IsFiniteSet(machine[g][q])
      BY <3>1, TraceAssumption, FS_Subset
    <3>3. Cardinality(machine[g][q]) \in Nat
      BY <3>2, FS_CardinalityType
    <3>4. Cardinality(machine[g][q]) < Capacity(q)
      BY <1>7, <2>1 DEF Free
    <3>5. Cardinality(machine[g][q] \cup {j}) =
            IF j \in machine[g][q] THEN Cardinality(machine[g][q])
                                   ELSE Cardinality(machine[g][q]) + 1
      BY <3>2, FS_AddElement
    <3>6. machine'[g][q] = machine[g][q] \cup {j}
      BY <1>9, <2>1
    <3>7. QED
      BY <3>3, <3>4, <3>5, <3>6 DEF Capacity
  <2>2. CASE ~(g \in Take(j) /\ q = p)
    BY <1>9, <2>2 DEF IInv, NoOversubscription
  <2>3. QED
    BY <2>1, <2>2
<1>18. NoJobLost'
  <2>1. \A i \in Job : proc'[i] = "running" => i \in tasks'
    BY <1>1, <1>2, <1>6 DEF IInv, NoJobLost
  <2>2. CASE pc' = "crashed"
    BY <2>1, <2>2 DEF NoJobLost
  <2>3. CASE proc' = [proc EXCEPT ![j] = "running"] /\ UNCHANGED <<pc, cause>>
    BY <1>1, <1>4, <1>6, <1>11, <1>14, <2>1, <2>3 DEF IInv, NoJobLost
  <2>4. QED
    BY <1>2, <2>2, <2>3
<1>19. KeptDoNotFit'
  <2>1. \A i \in Job, g \in GPU :
           machine[g][Priority[i]] \subseteq machine'[g][Priority[i]]
    BY <1>9 DEF Class
  <2>2. \A a \in DOMAIN kept : kept[a] \in Job
    BY <1>3
  <2>3. TypeOK
    BY DEF IInv
  <2>4. \A i \in Job : Fits(i)' => Fits(i)
    BY <1>10, <2>1, <2>3, FreeShrinks
  <2>5. QED
    BY <1>1, <2>2, <2>4 DEF IInv, KeptDoNotFit
<1>20. ReleaseNeverFaults' /\ WorkConserving' /\ NoOversleep'
  BY <1>1, <1>2 DEF IInv, ReleaseNeverFaults, WorkConserving, NoOversleep
<1>21. QED
  BY <1>10, <1>12, <1>13, <1>15, <1>16, <1>17, <1>18, <1>19, <1>20 DEF IInv

-----------------------------------------------------------------------------
(* The theorems.                                                           *)

LEMMA NextStep == ASSUME IInv, [Next]_vars PROVE IInv'
<1>1. CASE Loop
  BY <1>1, TopStep, AdmitStep, EndAdmitStep, PollStep, ReapStep, ReleaseStep,
     EndReleaseStep, StartStep, KeepStep, EndScanStep, NapStep, WakeStep DEF Loop
<1>2. CASE \E j \in Job : Exit(j)
  BY <1>2, ExitStep
<1>3. CASE Tick
  BY <1>3, TickStep
<1>4. CASE Stopped \/ UNCHANGED vars
  BY <1>4, StutterStep DEF Stopped
<1>5. QED
  BY <1>1, <1>2, <1>3, <1>4 DEF Next

\* The invariant the other theorems follow from.
THEOREM Invariance == Spec => []IInv
<1>1. Init => IInv
  BY InitInv
<1>2. IInv /\ [Next]_vars => IInv'
  BY NextStep
<1>3. QED
  BY <1>1, <1>2, PTL DEF Spec

\* Every variable of the loop keeps its type.
THEOREM TypeCorrect == Spec => []TypeOK
<1>1. IInv => TypeOK
  BY DEF IInv
<1>2. QED
  BY <1>1, Invariance, PTL

\* The machine table and the tasks agree: no slot leaks, none is freed early.
THEOREM SlotsCorrect == Spec => []SlotsMatchTasks
<1>1. IInv => SlotsMatchTasks
  BY DEF IInv
<1>2. QED
  BY <1>1, Invariance, PTL

\* No class of any machine is ever over its capacity.
THEOREM CapacityRespected == Spec => []NoOversubscription
<1>1. IInv => NoOversubscription
  BY DEF IInv
<1>2. QED
  BY <1>1, Invariance, PTL

\* list.remove and dict.pop of the release loop never raise.
THEOREM ReleaseSafe == Spec => []ReleaseNeverFaults
<1>1. IInv => ReleaseNeverFaults
  BY DEF IInv
<1>2. QED
  BY <1>1, Invariance, PTL

\* The loop forgets no job and no container.
THEOREM JobsAccounted == Spec => []NoJobLost
<1>1. IInv => NoJobLost
  BY DEF IInv
<1>2. QED
  BY <1>1, Invariance, PTL

\* The three lists of the loop stay in the order of the trace.
THEOREM OrderKept == Spec => []TraceOrder
<1>1. IInv => TraceOrder
  BY DEF IInv
<1>2. QED
  BY <1>1, Invariance, PTL

\* The loop never sleeps while a waiting job could run.
THEOREM ScanComplete == Spec => []WorkConserving
<1>1. IInv => WorkConserving
  BY DEF IInv
<1>2. QED
  BY <1>1, Invariance, PTL

\* The loop never sleeps past an arrival.
THEOREM SleepBounded == Spec => []NoOversleep
<1>1. IInv => NoOversleep
  BY DEF IInv
<1>2. QED
  BY <1>1, Invariance, PTL

\* A job is started over an older one of its class only if it is smaller: the
\* older one did not fit on the GPUs the younger one finds free.
THEOREM OnlySmallerOvertake == Spec => NoOvertaking
<1> DEFINE Smaller ==
      \A j \in Job : j \in tasks' \ tasks =>
          \A a \in DOMAIN kept :
              Priority[kept[a]] = Priority[j] => NumGpus[kept[a]] > NumGpus[j]
<1>1. IInv /\ [Next]_vars => [Smaller]_vars
  <2> SUFFICES ASSUME IInv, [Next]_vars,
                      NEW j \in Job, j \in tasks' \ tasks,
                      NEW a \in DOMAIN kept, Priority[kept[a]] = Priority[j]
               PROVE  NumGpus[kept[a]] > NumGpus[j]
    OBVIOUS
  <2>1. kept \in Seq(Job) /\ kept[a] \in Job
    BY DEF IInv, TypeOK
  <2>2. Start
    <3>1. CASE tasks' = tasks
      BY <3>1
    <3>2. CASE Reap
      BY <3>2 DEF Reap
    <3>3. QED
      BY <3>1, <3>2
         DEF Next, Loop, Top, Admit, EndAdmit, Poll, Release, EndRelease, Keep,
             EndScan, Nap, Wake, Exit, Tick, Stopped, vars, slots
  <2>3. j = Head(runnable) /\ Fits(j) /\ pc = "scan"
    BY <2>2 DEF Start
  <2>4. ~Fits(kept[a])
    BY <2>3 DEF IInv, KeptDoNotFit
  <2>5. Free(kept[a]) = Free(j)
    BY DEF Free
  <2>6. /\ Cardinality(Free(j)) \in Nat
        /\ NumGpus[j] \in Nat /\ NumGpus[kept[a]] \in Nat
    BY <2>1, FreeFinite, TraceAssumption
  <2>7. ~(NumGpus[kept[a]] <= Cardinality(Free(j))) /\ NumGpus[j] <= Cardinality(Free(j))
    BY <2>3, <2>4, <2>5 DEF Fits
  <2>8. QED
    BY <2>6, <2>7
<1>2. QED
  BY <1>1, Invariance, PTL DEF Spec, NoOvertaking

-----------------------------------------------------------------------------
(* The main loop implements SlotPool, for every trace that asks for at     *)
(* least one GPU per job.  The one fact with any arithmetic in it is that  *)
(* the placement loop, which stops at the num_gpus-th free GPU, takes      *)
(* exactly num_gpus of them.                                               *)

(* The n smallest elements of a finite set of numbers are n elements.      *)

\* How many elements of S lie below g; the n lowest elements of S.
Below(S, g) == {h \in S : h < g}
Lowest(S, n) == {g \in S : Cardinality(Below(S, g)) < n}

LEMMA BelowFinite ==
    ASSUME NEW S \in SUBSET Nat, IsFiniteSet(S), NEW g
    PROVE  IsFiniteSet(Below(S, g)) /\ Cardinality(Below(S, g)) \in Nat
<1>1. Below(S, g) \in SUBSET S
  BY DEF Below
<1>2. QED
  BY <1>1, FS_Subset, FS_CardinalityType

\* The rank of an element grows strictly.
LEMMA RankGrows ==
    ASSUME NEW S \in SUBSET Nat, IsFiniteSet(S), NEW g \in S, NEW h \in S, g < h
    PROVE  Cardinality(Below(S, g)) < Cardinality(Below(S, h))
<1>1. Below(S, g) \cup {g} \in SUBSET Below(S, h) /\ g \notin Below(S, g)
  <2>1. g \in Nat /\ h \in Nat /\ ~(g < g)
    OBVIOUS
  <2>2. \A k \in Below(S, g) : k \in Nat /\ k \in S /\ k < g
    BY DEF Below
  <2>3. \A k \in Below(S, g) : k \in Below(S, h)
    BY <2>1, <2>2 DEF Below
  <2>4. g \in Below(S, h) /\ g \notin Below(S, g)
    BY <2>1 DEF Below
  <2>5. QED
    BY <2>3, <2>4
<1>2. Cardinality(Below(S, g) \cup {g}) = Cardinality(Below(S, g)) + 1
  BY <1>1, BelowFinite, FS_AddElement
<1>3. Cardinality(Below(S, g) \cup {g}) <= Cardinality(Below(S, h))
  BY <1>1, BelowFinite, FS_Subset
<1>4. QED
  BY <1>2, <1>3, BelowFinite

\* One more element is let in when n grows by one, as long as there is one.
LEMMA LowestStep ==
    ASSUME NEW S \in SUBSET Nat, IsFiniteSet(S), NEW n \in Nat,
           Cardinality(Lowest(S, n)) = n, n < Cardinality(S)
    PROVE  Cardinality(Lowest(S, n + 1)) = n + 1
<1>1. Lowest(S, n) \in SUBSET S /\ IsFiniteSet(Lowest(S, n))
  <2>1. Lowest(S, n) \in SUBSET S
    BY DEF Lowest
  <2>2. QED
    BY <2>1, FS_Subset
<1>2. S \ Lowest(S, n) # {}
  <2>1. Lowest(S, n) # S
    OBVIOUS
  <2>2. QED
    BY <1>1, <2>1
<1>3. PICK m \in S \ Lowest(S, n) : \A k \in S \ Lowest(S, n) : m <= k
  BY <1>2, LeastNumber
<1>4. m \in S /\ ~(Cardinality(Below(S, m)) < n)
  BY <1>3 DEF Lowest
<1>5. Below(S, m) = Lowest(S, n)
  <2>1. ASSUME NEW h \in Below(S, m) PROVE h \in Lowest(S, n)
    BY <1>3, <2>1 DEF Below
  <2>2. ASSUME NEW h \in Lowest(S, n) PROVE h \in Below(S, m)
    <3>1. h \in S /\ Cardinality(Below(S, h)) < n
      BY DEF Lowest
    <3>2. h # m
      BY <1>3
    <3>3. CASE m < h
      <4>1. Cardinality(Below(S, m)) < Cardinality(Below(S, h))
        BY <1>4, <3>1, <3>3, RankGrows
      <4>2. QED
        BY <1>4, <3>1, <4>1, BelowFinite
    <3>4. QED
      BY <1>4, <3>1, <3>2, <3>3 DEF Below
  <2>3. QED
    BY <2>1, <2>2
<1>6. Lowest(S, n + 1) = Lowest(S, n) \cup {m}
  <2>1. ASSUME NEW g \in Lowest(S, n + 1) PROVE g \in Lowest(S, n) \cup {m}
    <3>1. g \in S /\ Cardinality(Below(S, g)) < n + 1
      BY DEF Lowest
    <3>2. CASE g \notin Lowest(S, n) /\ g # m
      <4>1. m < g
        BY <1>3, <1>4, <3>1, <3>2
      <4>2. Cardinality(Below(S, m)) < Cardinality(Below(S, g))
        BY <1>4, <3>1, <4>1, RankGrows
      <4>3. QED
        BY <1>4, <3>1, <4>2, BelowFinite
    <3>3. QED
      BY <3>2
  <2>2. ASSUME NEW g \in Lowest(S, n) PROVE g \in Lowest(S, n + 1)
    <3>1. g \in S /\ Cardinality(Below(S, g)) < n /\ Cardinality(Below(S, g)) \in Nat
      BY BelowFinite DEF Lowest
    <3>2. QED
      BY <3>1 DEF Lowest
  <2>3. m \in Lowest(S, n + 1)
    BY <1>4, <1>5 DEF Lowest
  <2>4. QED
    BY <2>1, <2>2, <2>3
<1>7. QED
  BY <1>1, <1>3, <1>6, FS_AddElement

LEMMA LowestCardinality ==
    ASSUME NEW S \in SUBSET Nat, IsFiniteSet(S),
           NEW n \in Nat, n <= Cardinality(S)
    PROVE  Cardinality(Lowest(S, n)) = n
<1> DEFINE Wrong == {k \in Nat : k <= Cardinality(S) /\ Cardinality(Lowest(S, k)) # k}
<1>1. Cardinality(S) \in Nat
  BY FS_CardinalityType
<1>2. Wrong = {}
  <2> SUFFICES ASSUME Wrong # {} PROVE FALSE
    OBVIOUS
  <2>1. PICK k \in Wrong : \A i \in Wrong : k <= i
    <3>1. Wrong \in SUBSET Nat
      OBVIOUS
    <3> HIDE DEF Wrong
    <3>2. QED
      BY <3>1, LeastNumber
  <2>2. CASE k = 0
    <3>1. Lowest(S, 0) = {}
      BY BelowFinite DEF Lowest
    <3>2. QED
      BY <2>2, <3>1, FS_EmptySet
  <2>3. CASE k # 0
    <3>1. k - 1 \in Nat /\ k - 1 \notin Wrong /\ k <= Cardinality(S)
      BY <2>1, <2>3
    <3>2. Cardinality(Lowest(S, k - 1)) = k - 1 /\ k - 1 < Cardinality(S)
      BY <1>1, <3>1
    <3>3. Cardinality(Lowest(S, (k - 1) + 1)) = (k - 1) + 1
      BY <3>1, <3>2, LowestStep
    <3>4. (k - 1) + 1 = k
      OBVIOUS
    <3>5. QED
      BY <3>3, <3>4
  <2>4. QED
    BY <2>2, <2>3
<1>3. QED
  BY <1>2

\* The placement loop takes as many GPUs as the job asks for.
LEMMA TakeExact ==
    ASSUME NEW j \in Job, NumGpus[j] > 0, Fits(j)
    PROVE  Cardinality(Take(j)) = NumGpus[j]
<1>1. Free(j) \in SUBSET Nat /\ IsFiniteSet(Free(j))
  BY FreeFinite, TraceAssumption DEF GPU
<1>2. Take(j) = Lowest(Free(j), NumGpus[j])
  BY TraceAssumption DEF Take, Lowest, Below
<1>3. NumGpus[j] \in Nat
  BY TraceAssumption
<1>4. QED
  BY <1>1, <1>2, <1>3, LowestCardinality DEF Fits

-----------------------------------------------------------------------------
(* The refinement mapping.                                                 *)

\* The pool counts as the loop does.
LEMMA PoolCardinality == \A S : Pool!Cardinality(S) = Cardinality(S)
BY DEF Pool!Cardinality, Cardinality

\* The machine table shows a leased job on its GPUs and no other job.
LEMMA LeaseIsGpus ==
    ASSUME IInv, NEW j \in Job
    PROVE  LeaseOf(j) = IF j \in Leased THEN gpus[j] ELSE {}
<1>1. Priority[j] \in Class /\ gpus[j] \subseteq GPU
  BY DEF Class, IInv, TypeOK
<1>2. \A g \in GPU : j \in machine[g][Priority[j]] <=> j \in Leased /\ g \in gpus[j]
  BY <1>1 DEF IInv, SlotsMatchTasks
<1>3. QED
  BY <1>1, <1>2 DEF LeaseOf

\* So the pool counts the holders the loop counts.
LEMMA HoldersAreMachine ==
    ASSUME IInv, NEW g \in GPU, NEW p \in Class
    PROVE  Pool!Holders(g, p) = machine[g][p]
<1>1. machine[g][p] = {j \in Leased : Priority[j] = p /\ g \in gpus[j]}
  BY DEF IInv, SlotsMatchTasks
<1>2. Leased \subseteq Job
  BY DEF IInv, TypeOK, Leased
<1>3. Pool!Holders(g, p) = {j \in Job : Priority[j] = p /\ g \in LeaseOf(j)}
  BY DEF Pool!Holders
<1>4. \A j \in Job : g \in LeaseOf(j) <=> j \in Leased /\ g \in gpus[j]
  BY LeaseIsGpus
<1>5. QED
  BY <1>1, <1>2, <1>3, <1>4

\* Steps after which every job has the phase and the lease it had.
LEMMA PoolStutter ==
    ASSUME IInv, UNCHANGED <<proc, machine>>, Leased' = Leased,
           \A j \in Job : proc[j] = "none" => (j \in tasks' <=> j \in tasks)
    PROVE  UNCHANGED Pool!poolVars
<1>1. \A j \in Job : PhaseOf(j)' = PhaseOf(j)
  BY DEF PhaseOf, IInv, TypeOK
<1>2. \A j \in Job : LeaseOf(j)' = LeaseOf(j)
  BY DEF LeaseOf
<1>3. QED
  BY <1>1, <1>2 DEF Pool!poolVars

LEMMA StartAcquires ==
    ASSUME IInv, IInv', Start, NEW j \in Job, j = Head(runnable), NumGpus[j] > 0
    PROVE  Pool!Next
<1> DEFINE p == Priority[j]
<1>1. j \in Job /\ j \in Range(runnable) /\ p \in Class
  BY TailFacts DEF Start, IInv, TypeOK, Class
<1>2. /\ Fits(j) /\ tasks' = tasks \cup {j} /\ finished' = finished
      /\ gpus' = [gpus EXCEPT ![j] = Take(j)]
  BY DEF Start, reap
<1>3. \/ proc' = [proc EXCEPT ![j] = "running"]
      \/ proc' = proc
  BY DEF Start
<1>4. j \notin Leased /\ Leased' = Leased \cup {j} /\ proc[j] = "none"
  BY <1>1, <1>2 DEF Start, IInv, QueuedNotLeased, Queued, Leased, NoJobLost
<1>5. /\ gpus \in [Job -> SUBSET GPU]
      /\ proc \in [Job -> {"none", "running", "exited"}]
  BY DEF IInv, TypeOK
<1>6. Take(j) \in SUBSET GPU /\ Cardinality(Take(j)) = NumGpus[j]
  BY <1>1, <1>2, TakeExact, TakeFree, FreeFinite
<1>7. \A g \in Take(j) :
         Cardinality(Pool!Holders(g, p)) < Pool!PoolCapacity(p)
  <2> SUFFICES ASSUME NEW g \in Take(j)
               PROVE  Cardinality(Pool!Holders(g, p)) < Pool!PoolCapacity(p)
    OBVIOUS
  <2>1. g \in GPU /\ Cardinality(machine[g][p]) < Capacity(p)
    BY <1>6, TakeFree DEF Free
  <2>2. Pool!Holders(g, p) = machine[g][p]
    BY <1>1, <2>1, HoldersAreMachine
  <2>3. QED
    BY <2>1, <2>2 DEF Pool!PoolCapacity, Capacity
<1>8. \A i \in Job : LeaseOf(i)' = IF i = j THEN Take(j) ELSE LeaseOf(i)
  <2>1. \A i \in Job : LeaseOf(i) = IF i \in Leased THEN gpus[i] ELSE {}
    BY LeaseIsGpus
  <2>2. \A i \in Job : LeaseOf(i)' = IF i \in Leased' THEN gpus'[i] ELSE {}
    <3> SUFFICES ASSUME NEW i \in Job
                 PROVE  LeaseOf(i)' = IF i \in Leased' THEN gpus'[i] ELSE {}
      OBVIOUS
    <3>1. Priority[i] \in Class /\ gpus'[i] \subseteq GPU
      BY DEF Class, IInv, TypeOK
    <3>2. \A g \in GPU :
             i \in machine'[g][Priority[i]] <=> i \in Leased' /\ g \in gpus'[i]
      BY <3>1 DEF IInv, SlotsMatchTasks
    <3>3. QED
      BY <3>1, <3>2 DEF LeaseOf
  <2>3. QED
    BY <1>1, <1>2, <1>4, <1>5, <2>1, <2>2
<1>9. \E outcome \in {"running", "failed"} :
         \A i \in Job : PhaseOf(i)' = IF i = j THEN outcome ELSE PhaseOf(i)
  <2>1. CASE proc' = [proc EXCEPT ![j] = "running"]
    <3>1. PhaseOf(j)' = "running"
      BY <1>1, <1>5, <2>1 DEF PhaseOf
    <3>2. \A i \in Job : i # j => PhaseOf(i)' = PhaseOf(i)
      BY <1>2, <1>4, <1>5, <2>1 DEF PhaseOf
    <3>3. QED
      BY <3>1, <3>2
  <2>2. CASE proc' = proc
    <3>1. PhaseOf(j)' = "failed"
      BY <1>2, <1>4, <2>2 DEF PhaseOf
    <3>2. \A i \in Job : i # j => PhaseOf(i)' = PhaseOf(i)
      BY <1>2, <1>4, <2>2 DEF PhaseOf
    <3>3. QED
      BY <3>1, <3>2
  <2>3. QED
    BY <1>3, <2>1, <2>2
<1>10. PhaseOf(j) = "waiting"
  BY <1>4 DEF PhaseOf, Leased
<1>11. Pool!Acquire(j)
  <2>1. [i \in Job |-> LeaseOf(i)]' = [[i \in Job |-> LeaseOf(i)] EXCEPT ![j] = Take(j)]
    BY <1>1, <1>8
  <2>2. \E outcome \in {"running", "failed"} :
          [i \in Job |-> PhaseOf(i)]' = [[i \in Job |-> PhaseOf(i)] EXCEPT ![j] = outcome]
    BY <1>1, <1>9
  <2>3. \E S \in SUBSET GPU :
          /\ Cardinality(S) = NumGpus[j]
          /\ \A g \in S : Cardinality(Pool!Holders(g, p)) < Pool!PoolCapacity(p)
          /\ [i \in Job |-> LeaseOf(i)]' = [[i \in Job |-> LeaseOf(i)] EXCEPT ![j] = S]
    BY <1>6, <1>7, <2>1
  <2>4. [i \in Job |-> PhaseOf(i)][j] = "waiting"
    BY <1>10
  <2>5. QED
    BY <2>2, <2>3, <2>4, PoolCardinality DEF Pool!Acquire
<1>12. QED
  BY <1>1, <1>11 DEF Pool!Next

LEMMA ExitExits ==
    ASSUME IInv, NEW j \in Job, Exit(j)
    PROVE  Pool!Next
<1>1. /\ UNCHANGED <<tasks, finished, machine>> /\ proc[j] = "running"
      /\ proc' = [proc EXCEPT ![j] = "exited"]
      /\ proc \in [Job -> {"none", "running", "exited"}]
  BY DEF Exit, slots, reap, IInv, TypeOK
<1>2. j \in Leased /\ Leased' = Leased
  BY <1>1 DEF IInv, NoJobLost, Leased
<1>3. PhaseOf(j) = "running" /\ PhaseOf(j)' = "exited"
  BY <1>1, <1>2 DEF PhaseOf
<1>4. \A i \in Job : i # j => PhaseOf(i)' = PhaseOf(i)
  BY <1>1, <1>2 DEF PhaseOf
<1>5. \A i \in Job : LeaseOf(i)' = LeaseOf(i)
  BY <1>1 DEF LeaseOf
<1>6. Pool!Exit(j)
  BY <1>3, <1>4, <1>5 DEF Pool!Exit
<1>7. QED
  BY <1>6 DEF Pool!Next

LEMMA ReleaseGivesBack ==
    ASSUME IInv, IInv', NEW j \in Job, Release(j)
    PROVE  Pool!Next
<1>1. /\ UNCHANGED <<tasks, gpus, proc>> /\ j \in finished
      /\ finished' = finished \ {j} /\ pc = "release"
  BY DEF Release, queues
<1>2. /\ j \in Leased /\ Leased' = Leased \ {j} /\ proc[j] = "exited"
      /\ j \notin Leased'
  BY <1>1 DEF IInv, Phases, Leased
<1>3. PhaseOf(j) = "exited" /\ PhaseOf(j)' = "gone"
  BY <1>1, <1>2 DEF PhaseOf
<1>4. \A i \in Job : i # j => PhaseOf(i)' = PhaseOf(i)
  BY <1>1, <1>2 DEF PhaseOf
<1>5. \A i \in Job : LeaseOf(i)' = IF i \in Leased' THEN gpus'[i] ELSE {}
  <2> SUFFICES ASSUME NEW i \in Job
               PROVE  LeaseOf(i)' = IF i \in Leased' THEN gpus'[i] ELSE {}
    OBVIOUS
  <2>1. Priority[i] \in Class /\ gpus'[i] \subseteq GPU
    BY DEF Class, IInv, TypeOK
  <2>2. \A g \in GPU :
           i \in machine'[g][Priority[i]] <=> i \in Leased' /\ g \in gpus'[i]
    BY <2>1 DEF IInv, SlotsMatchTasks
  <2>3. QED
    BY <2>1, <2>2 DEF LeaseOf
<1>6. \A i \in Job : LeaseOf(i)' = IF i = j THEN {} ELSE LeaseOf(i)
  BY <1>1, <1>2, <1>5, LeaseIsGpus
<1>7. Pool!GiveBack(j)
  BY <1>3, <1>4, <1>6 DEF Pool!GiveBack
<1>8. QED
  BY <1>7 DEF Pool!Next

LEMMA OtherStutters ==
    ASSUME IInv, [Next]_vars, ~Start,
           ~(\E j \in Job : Exit(j) \/ Release(j))
    PROVE  UNCHANGED Pool!poolVars
<1>1. CASE Reap
  <2>1. UNCHANGED <<proc, machine>> /\ tasks' = tasks \ finished
        /\ finished' = finished /\ pc = "poll"
    BY <1>1 DEF Reap, reap
  <2>2. QED
    BY <2>1, PoolStutter DEF IInv, Phases, Leased
<1>2. CASE \E j \in Job : Poll(j)
  <2>1. PICK j \in Job : Poll(j)
    BY <1>2
  <2>2. UNCHANGED <<proc, machine, tasks>> /\ Leased' = Leased
    BY <2>1 DEF Poll, slots, IInv, Phases, Leased
  <2>3. QED
    BY <2>2, PoolStutter
<1>3. CASE EndAdmit
  <2>1. UNCHANGED <<proc, machine, tasks>> /\ Leased' = Leased
    BY <1>3 DEF EndAdmit, slots, IInv, Phases, Leased
  <2>2. QED
    BY <2>1, PoolStutter
<1>4. CASE \/ Top \/ Admit \/ EndRelease \/ Keep \/ EndScan \/ Nap \/ Wake
           \/ Tick \/ Stopped \/ UNCHANGED vars
  <2>1. UNCHANGED <<proc, machine, tasks, finished>>
    BY <1>4 DEF Top, Admit, EndRelease, Keep, EndScan, Nap, Wake, Tick, Stopped,
                vars, slots, reap
  <2>2. QED
    BY <2>1, PoolStutter DEF Leased
<1>5. QED
  BY <1>1, <1>2, <1>3, <1>4 DEF Next, Loop

\* The loop implements the pool: GPUs are leased all at once within capacity,
\* kept while the container runs, and returned all at once.
THEOREM Refinement ==
    ASSUME \A j \in Job : NumGpus[j] > 0
    PROVE  Spec => ImplementsSlotPool
<1>1. Init => Pool!Init
  <2> SUFFICES ASSUME Init PROVE Pool!Init
    OBVIOUS
  <2>1. \A j \in Job : PhaseOf(j) = "waiting"
    BY DEF Init, PhaseOf
  <2>2. \A j \in Job : LeaseOf(j) = {}
    BY DEF Init, LeaseOf, Class
  <2>3. QED
    BY <2>1, <2>2 DEF Pool!Init
<1>2. IInv /\ IInv' /\ [Next]_vars => [Pool!Next]_(Pool!poolVars)
  <2> SUFFICES ASSUME IInv, IInv', [Next]_vars
               PROVE  Pool!Next \/ UNCHANGED Pool!poolVars
    OBVIOUS
  <2>1. CASE Start
    <3>1. Head(runnable) \in Job
      BY <2>1, TailFacts DEF Start, IInv, TypeOK
    <3>2. QED
      BY <2>1, <3>1, StartAcquires
  <2>2. CASE \E j \in Job : Exit(j) \/ Release(j)
    BY <2>2, ExitExits, ReleaseGivesBack
  <2>3. QED
    BY <2>1, <2>2, OtherStutters
<1>3. QED
  BY <1>1, <1>2, Invariance, PTL DEF Spec, ImplementsSlotPool, Pool!Spec

=============================================================================
