----------------------------- MODULE Scheduler ------------------------------
(***************************************************************************)
(* The main loop of the worker (src/worker.py, 351-431) with the methods   *)
(* it calls: has_ready_jobs, check_tasks, execute, and Task.run.  One      *)
(* thread runs the loop; the containers it starts end on their own, and    *)
(* the wall clock advances between any two of its steps.                   *)
(*                                                                         *)
(* A job is the number of its row in the trace.  Time is in whole seconds. *)
(* An uncaught Python exception ends the loop: pc becomes "crashed" and    *)
(* cause says which statement raised it.                                   *)
(***************************************************************************)
EXTENDS Integers, Sequences, FiniteSets, Functions

CONSTANTS
    Job,          \* row numbers of the trace (job_id)
    NumMachines,  \* len(args.gpus.split(','))
    Priority,     \* [Job -> STRING], the priority column
    NumGpus,      \* [Job -> Nat], the gpu_requests column
    SubmitTime,   \* [Job -> Nat], the submit_time column
    Model,        \* [Job -> STRING], the family of the model_name column
    MaxNap,       \* the sleep_time of an idle turn of the loop
    Horizon       \* bound on the clock: it stops there

GPU == 0 .. NumMachines - 1
Shareable == {"Co-ex", "mps", "shared"}
Class == {Priority[j] : j \in Job}
Capacity(p) == IF p \in Shareable THEN 2 ELSE 1

\* What Task.run tells apart of a model name: the names themselves, and one
\* name for each prefix it tests and for the list of torchvision models.
Families == {"test_kill_restart", "gcn", "bert", "dlrm", "espnet2",
             "inference_", "text_", "text-infer", "text-infer-vllm",
             "text-infer-llamacpp", "torchvision", "tf_benchmarks-", "tf-gcn",
             "tf-shufflenet", "megatron-gpt"}

\* Task.run raises for a name it does not know.  megatron-gpt on MIG slices
\* trips an assertion (mig-high), or leaves cmd without a program for Popen
\* unless the row is 2 or 3 (mig-low).
Launchable(j) ==
    /\ Model[j] \in Families
    /\ Model[j] = "megatron-gpt" =>
          Priority[j] # "mig-high" /\ (Priority[j] = "mig-low" => j \in {2, 3})

ASSUME TraceAssumption ==
    /\ IsFiniteSet(Job) /\ Job \subseteq Nat
    /\ NumMachines \in Nat \ {0}
    /\ NumGpus \in [Job -> Nat]
    /\ SubmitTime \in [Job -> Nat]
    /\ DOMAIN Priority = Job
    /\ DOMAIN Model = Job
    /\ MaxNap \in Nat \ {0}
    /\ Horizon \in Nat
    /\ \A j \in Job : SubmitTime[j] < Horizon

VARIABLES
    now,        \* time.time() - worker._start_time
    submit,     \* worker._submit_queue
    runnable,   \* runnable_tasks; during a scan, what is left to look at
    kept,       \* new_runnable_tasks
    tasks,      \* the keys of worker._tasks
    gpus,       \* task._gpus of every job that got some
    machine,    \* machine[g][p]: the jobs that occupy GPU g in class p
    proc,       \* the container of each job
    unpolled,   \* tasks that check_tasks has still to look at
    finished,   \* finished_tasks
    nap,        \* what is left of time.sleep
    pc,         \* where the loop is
    cause       \* the exception that ended it

queues == <<submit, runnable, kept>>
slots  == <<tasks, gpus, machine>>
reap   == <<unpolled, finished>>
vars   == <<now, submit, runnable, kept, tasks, gpus, machine, proc,
            unpolled, finished, nap, pc, cause>>

\* The key of the sort in parse_trace_config, ties kept in file order.
Rank(j) == IF Priority[j] = "high" THEN 0 ELSE 1
Before(i, j) ==
    \/ SubmitTime[i] < SubmitTime[j]
    \/ SubmitTime[i] = SubmitTime[j] /\ Rank(i) < Rank(j)
    \/ SubmitTime[i] = SubmitTime[j] /\ Rank(i) = Rank(j) /\ i < j

Sorted(s) == \A a, b \in DOMAIN s : a < b => Before(s[a], s[b])

Crash(why) == pc' = "crashed" /\ cause' = why

Init ==
    /\ now = 0
    /\ submit \in [1 .. Cardinality(Job) -> Job]
    /\ Sorted(submit) /\ Range(submit) = Job
    /\ runnable = <<>> /\ kept = <<>>
    /\ tasks = {} /\ unpolled = {} /\ finished = {}
    /\ gpus = [j \in Job |-> {}]
    /\ machine = [g \in GPU |-> [p \in Class |-> {}]]
    /\ proc = [j \in Job |-> "none"]
    /\ nap = 0 /\ pc = "top" /\ cause = "none"

-----------------------------------------------------------------------------
(* The head of the loop: stop, or admit the jobs whose time has come.      *)

NothingLeft == submit = <<>> /\ tasks = {} /\ runnable = <<>>

Top ==
    /\ pc = "top"
    /\ pc' = IF NothingLeft THEN "done" ELSE "admit"
    /\ UNCHANGED <<now, queues, slots, proc, reap, nap, cause>>

HasReadyJobs == submit # <<>> /\ SubmitTime[Head(submit)] <= now

\* JobInfo.__init__ asserts num_gpus <= 2 after the row left the queue.
Admit ==
    /\ pc = "admit" /\ HasReadyJobs
    /\ submit' = Tail(submit)
    /\ IF NumGpus[Head(submit)] <= 2
         THEN /\ runnable' = Append(runnable, Head(submit))
              /\ UNCHANGED <<pc, cause>>
         ELSE Crash("num_gpus") /\ UNCHANGED runnable
    /\ UNCHANGED <<now, kept, slots, proc, reap, nap>>

EndAdmit ==
    /\ pc = "admit" /\ ~HasReadyJobs
    /\ pc' = "poll" /\ unpolled' = tasks /\ finished' = {}
    /\ UNCHANGED <<now, queues, slots, proc, nap, cause>>

-----------------------------------------------------------------------------
(* check_tasks: poll every container, then forget the ones that ended.     *)

\* Mutant of Poll: a falsy return code, None included, counts as an exit.
PollFalsy(j) ==
    /\ pc = "poll" /\ j \in unpolled
    /\ unpolled' = unpolled \ {j}
    /\ finished' = finished \cup {j}
    /\ UNCHANGED <<now, queues, slots, proc, nap, pc, cause>>

Poll(j) ==
    /\ pc = "poll" /\ j \in unpolled
    /\ unpolled' = unpolled \ {j}
    /\ finished' = IF proc[j] = "exited" THEN finished \cup {j} ELSE finished
    /\ UNCHANGED <<now, queues, slots, proc, nap, pc, cause>>

Reap ==
    /\ pc = "poll" /\ unpolled = {}
    /\ tasks' = tasks \ finished
    /\ pc' = "release"
    /\ UNCHANGED <<now, queues, gpus, machine, proc, reap, nap, cause>>

\* list.remove(job_id) for a shareable class, pop(priority) for the others:
\* either raises when there is nothing to remove.
Present(j, g) ==
    IF Priority[j] \in Shareable THEN j \in machine[g][Priority[j]]
                                 ELSE machine[g][Priority[j]] # {}
\* Mutant of Removed: the list is emptied instead of losing one job.
RemovedAll(j, g) == {}

Removed(j, g) ==
    IF Priority[j] \in Shareable THEN machine[g][Priority[j]] \ {j} ELSE {}

\* ''.split(',') is [''], and int('') raises for a job placed on no GPU.
ReleaseError(j) ==
    CASE gpus[j] = {} -> "no_gpu_id"
      [] \E g \in gpus[j] : ~Present(j, g) -> "slot_absent"
      [] OTHER -> "none"

\* Mutants of Release: only the first GPU is given back; none is.
ReleaseFirst(j) ==
    /\ pc = "release" /\ j \in finished
    /\ finished' = finished \ {j}
    /\ machine' = [g \in GPU |->
          IF g \in gpus[j] /\ \A h \in gpus[j] : g <= h
            THEN [machine[g] EXCEPT ![Priority[j]] = Removed(j, g)]
            ELSE machine[g]]
    /\ cause' = ReleaseError(j)
    /\ pc' = IF ReleaseError(j) = "none" THEN pc ELSE "crashed"
    /\ UNCHANGED <<now, queues, tasks, gpus, proc, unpolled, nap>>

ReleaseNothing(j) ==
    /\ pc = "release" /\ j \in finished
    /\ finished' = finished \ {j}
    /\ UNCHANGED <<now, queues, slots, proc, unpolled, nap, pc, cause>>

\* The GPUs of a finished job are given back.
Release(j) ==
    /\ pc = "release" /\ j \in finished
    /\ finished' = finished \ {j}
    /\ machine' = [g \in GPU |->
          IF g \in gpus[j] THEN [machine[g] EXCEPT ![Priority[j]] = Removed(j, g)]
                           ELSE machine[g]]
    /\ cause' = ReleaseError(j)
    /\ pc' = IF ReleaseError(j) = "none" THEN pc ELSE "crashed"
    /\ UNCHANGED <<now, queues, tasks, gpus, proc, unpolled, nap>>

EndRelease ==
    /\ pc = "release" /\ finished = {}
    /\ pc' = "scan"
    /\ UNCHANGED <<now, queues, slots, proc, reap, nap, cause>>

-----------------------------------------------------------------------------
(* One pass over runnable_tasks.                                           *)

\* Mutant of Free: one job too many is let in.
FreeOneMore(j) ==
    {g \in GPU : Cardinality(machine[g][Priority[j]]) <= Capacity(Priority[j])}

Free(j) ==
    {g \in GPU : Cardinality(machine[g][Priority[j]]) < Capacity(Priority[j])}

Fits(j) == NumGpus[j] <= Cardinality(Free(j))

\* Mutant of Take: the first GPUs, free or not.
TakeFirst(j) == IF NumGpus[j] = 0 THEN GPU ELSE {g \in GPU : g < NumGpus[j]}

\* The placement loop takes free GPUs in index order until it has num_gpus
\* of them.  Its test comes after each GPU, so a job that asks for none gets
\* nothing when GPU 0 is full, and otherwise every free GPU.
Take(j) ==
    IF NumGpus[j] = 0
      THEN IF 0 \in Free(j) THEN Free(j) ELSE {}
      ELSE {g \in Free(j) : Cardinality({h \in Free(j) : h < g}) < NumGpus[j]}

Start ==
    /\ pc = "scan" /\ runnable # <<>> /\ Fits(Head(runnable))
    /\ LET j == Head(runnable) IN
         /\ gpus' = [gpus EXCEPT ![j] = Take(j)]
         /\ machine' = [g \in GPU |->
               IF g \in Take(j) THEN [machine[g] EXCEPT ![Priority[j]] = @ \cup {j}]
                                ELSE machine[g]]
         /\ tasks' = tasks \cup {j}
         /\ \/ /\ Launchable(j)
               /\ proc' = [proc EXCEPT ![j] = "running"]
               /\ UNCHANGED <<pc, cause>>
            \/ ~Launchable(j) /\ Crash("launch") /\ UNCHANGED proc
    /\ runnable' = Tail(runnable)
    /\ UNCHANGED <<now, submit, kept, reap, nap>>

\* Mutants of Keep: a job that fits is kept too; the scan stops at the first
\* job that does not fit.
KeepAny ==
    /\ pc = "scan" /\ runnable # <<>>
    /\ kept' = Append(kept, Head(runnable))
    /\ runnable' = Tail(runnable)
    /\ UNCHANGED <<now, submit, slots, proc, reap, nap, pc, cause>>

KeepRest ==
    /\ pc = "scan" /\ runnable # <<>> /\ ~Fits(Head(runnable))
    /\ kept' = kept \o runnable
    /\ runnable' = <<>>
    /\ UNCHANGED <<now, submit, slots, proc, reap, nap, pc, cause>>

Keep ==
    /\ pc = "scan" /\ runnable # <<>> /\ ~Fits(Head(runnable))
    /\ kept' = Append(kept, Head(runnable))
    /\ runnable' = Tail(runnable)
    /\ UNCHANGED <<now, submit, slots, proc, reap, nap, pc, cause>>

EndScan ==
    /\ pc = "scan" /\ runnable = <<>>
    /\ runnable' = kept /\ kept' = <<>>
    /\ pc' = "nap"
    /\ UNCHANGED <<now, submit, slots, proc, reap, nap, cause>>

\* Mutant of Nap: the sleep is not cut to two seconds.
NapUncut ==
    /\ pc = "nap"
    /\ LET wait == IF submit = <<>> THEN MaxNap
                   ELSE SubmitTime[Head(submit)] - now
       IN \/ /\ wait >= 0
             /\ nap' = wait
             /\ pc' = "sleep" /\ UNCHANGED cause
          \/ wait < 0 /\ Crash("overdue") /\ UNCHANGED nap
    /\ UNCHANGED <<now, queues, slots, proc, reap>>

\* time.sleep raises ValueError when the head of the queue became due after
\* has_ready_jobs had looked at it.
Nap ==
    /\ pc = "nap"
    /\ LET wait == IF submit = <<>> THEN MaxNap
                   ELSE SubmitTime[Head(submit)] - now
       IN \/ /\ wait >= 0
             /\ nap' = IF wait < MaxNap THEN wait ELSE MaxNap
             /\ pc' = "sleep" /\ UNCHANGED cause
          \/ wait < 0 /\ Crash("overdue") /\ UNCHANGED nap
    /\ UNCHANGED <<now, queues, slots, proc, reap>>

Wake ==
    /\ pc = "sleep" /\ nap = 0
    /\ pc' = "top"
    /\ UNCHANGED <<now, queues, slots, proc, reap, nap, cause>>

-----------------------------------------------------------------------------
(* The environment: containers end, time passes.                           *)

Exit(j) ==
    /\ proc[j] = "running"
    /\ proc' = [proc EXCEPT ![j] = "exited"]
    /\ UNCHANGED <<now, queues, slots, reap, nap, pc, cause>>

Over == pc \in {"done", "crashed"}

Tick ==
    /\ ~Over /\ (now < Horizon \/ nap > 0)
    /\ now' = IF now < Horizon THEN now + 1 ELSE now
    /\ nap' = IF nap > 0 THEN nap - 1 ELSE 0
    /\ UNCHANGED <<queues, slots, proc, reap, pc, cause>>

Loop ==
    \/ Top \/ Admit \/ EndAdmit
    \/ (\E j \in Job : Poll(j)) \/ Reap
    \/ (\E j \in Job : Release(j)) \/ EndRelease
    \/ Start \/ Keep \/ EndScan \/ Nap \/ Wake

\* The process is gone; containers may still be ending.
Stopped == Over /\ UNCHANGED vars

Next ==
    \/ Loop
    \/ \E j \in Job : Exit(j)
    \/ Tick
    \/ Stopped

Spec == Init /\ [][Next]_vars

\* The loop is one thread the operating system keeps scheduling, the clock
\* does not stop, and a container ends: it runs a given number of iterations.
Fairness ==
    /\ WF_vars(Loop)
    /\ WF_vars(Tick)
    /\ \A j \in Job : WF_vars(Exit(j))

FairSpec == Spec /\ Fairness

-----------------------------------------------------------------------------
(* Properties.                                                             *)

Queued == Range(submit) \cup Range(runnable) \cup Range(kept)
Leased == tasks \cup finished

TypeOK ==
    /\ now \in 0 .. Horizon /\ nap \in 0 .. MaxNap
    /\ submit \in Seq(Job) /\ runnable \in Seq(Job) /\ kept \in Seq(Job)
    /\ tasks \subseteq Job /\ unpolled \subseteq Job /\ finished \subseteq Job
    /\ gpus \in [Job -> SUBSET GPU]
    /\ machine \in [GPU -> [Class -> SUBSET Job]]
    /\ proc \in [Job -> {"none", "running", "exited"}]
    /\ pc \in {"top", "admit", "poll", "release", "scan", "nap", "sleep",
              "done", "crashed"}
    /\ cause \in {"none", "num_gpus", "no_gpu_id", "slot_absent", "launch",
                 "overdue"}

\* The table the loop places jobs by (machine) says of every GPU and class
\* exactly which jobs still owe it: those in worker._tasks, and those just
\* reaped whose GPUs the loop is about to give back.
SlotsMatchTasks ==
    \A g \in GPU, p \in Class :
        machine[g][p] = {j \in Leased : Priority[j] = p /\ g \in gpus[j]}

\* No GPU carries more jobs of a class than the class admits: one, or two
\* for Co-ex, mps and shared, whichever jobs came and went before.
NoOversubscription ==
    \A g \in GPU, p \in Class : Cardinality(machine[g][p]) <= Capacity(p)

\* A container that runs is one the loop still knows, so that its exit will
\* be seen and its GPUs given back; and the loop forgets no job: one that is
\* neither waiting nor in _tasks has had its container run to the end.
NoJobLost ==
    /\ \A j \in Job : proc[j] = "running" => j \in tasks
    /\ pc # "crashed" => \A j \in Job :
          /\ j \in Queued <=> proc[j] = "none"
          /\ j \notin Queued \cup tasks => proc[j] = "exited"

\* Releasing a finished job never meets a slot that is not there: neither
\* list.remove nor dict.pop raises in lines 389 and 391.
ReleaseNeverFaults == cause # "slot_absent"

\* Across the three lists of the loop the jobs keep the order of the sorted
\* trace, whatever was started, kept and admitted in between.
AllBefore(s, t) == \A a \in DOMAIN s, b \in DOMAIN t : Before(s[a], t[b])
TraceOrder ==
    /\ Sorted(kept) /\ Sorted(runnable) /\ Sorted(submit)
    /\ AllBefore(kept, runnable) /\ AllBefore(kept, submit)
    /\ AllBefore(runnable, submit)

\* The loop goes to sleep only when no waiting job could be placed: a job
\* the scan passed over fits on no set of GPUs until something is released.
WorkConserving ==
    pc \in {"nap", "sleep"} => \A a \in DOMAIN runnable : ~Fits(runnable[a])

\* The sleep ends no later than the next arrival is due.
NoOversleep ==
    pc = "sleep" /\ submit # <<>> /\ nap > 0 =>
        now + nap <= SubmitTime[Head(submit)]

\* A job is never started ahead of one that was due before it, has the same
\* class and asks for no more GPUs: only smaller jobs overtake.
NoOvertaking ==
    [][\A j \in Job : j \in tasks' \ tasks =>
          \A a \in DOMAIN kept :
              Priority[kept[a]] = Priority[j] => NumGpus[kept[a]] > NumGpus[j]]_vars

\* The bound on the wait of a queued job: every job that fits on the empty
\* machine is started in the end, also beside jobs that never fit, unless
\* an exception ends the loop.
FeasibleJobsStart ==
    \A j \in Job : NumGpus[j] <= NumMachines =>
        <>(proc[j] # "none" \/ pc = "crashed")

\* In the end the queues hold exactly the jobs that ask for more GPUs than
\* there are: the loop, which runs as long as anything is queued, is kept
\* alive by those rows alone, and without them it ends.
Unplaceable == {j \in Job : NumGpus[j] > NumMachines}
OnlyUnplaceableStay ==
    <>[](pc = "crashed" \/ (tasks = {} /\ Queued = Unplaceable))

-----------------------------------------------------------------------------
(* What the loop keeps besides, for the proofs of SchedulerProofs.         *)

\* Where the lists of one turn may hold something.
Phases ==
    /\ pc \notin {"scan", "crashed"} => kept = <<>>
    /\ pc \notin {"poll", "release", "crashed"} => finished = {}
    /\ pc = "poll" => finished \subseteq tasks /\ unpolled \subseteq tasks
    /\ pc # "poll" => finished \cap tasks = {}
    /\ \A j \in finished : proc[j] = "exited"

\* A job is in one place: no queued job has been started.
QueuedNotLeased == Queued \cap Leased = {}

\* What the scan has passed over cannot be placed before the next release.
KeptDoNotFit == pc = "scan" => \A a \in DOMAIN kept : ~Fits(kept[a])

IInv ==
    /\ TypeOK /\ Phases /\ TraceOrder /\ QueuedNotLeased
    /\ SlotsMatchTasks /\ NoOversubscription /\ NoJobLost
    /\ ReleaseNeverFaults /\ WorkConserving /\ KeptDoNotFit /\ NoOversleep

-----------------------------------------------------------------------------
\* What test configurations are told of start times: the loop survives any.
AnyStartTime == cause # "overdue"

\* A job's phase and lease, as the machine table shows them.
LeaseOf(j) == {g \in GPU : j \in machine[g][Priority[j]]}
PhaseOf(j) ==
    CASE proc[j] = "running" -> "running"
      [] proc[j] = "exited" -> IF j \in Leased THEN "exited" ELSE "gone"
      [] OTHER -> IF j \in tasks THEN "failed" ELSE "waiting"

Pool == INSTANCE SlotPool WITH
            phase <- [j \in Job |-> PhaseOf(j)],
            lease <- [j \in Job |-> LeaseOf(j)]

\* The loop implements the pool of leases: all the GPUs of a job are taken
\* in one step, kept until its container ended, and returned in one step.
ImplementsSlotPool == Pool!Spec

=============================================================================
