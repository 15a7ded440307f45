---------------------------- MODULE ReportStats -----------------------------
(***************************************************************************)
(* The report path: Trainer.record and Trainer.close in a container        *)
(* (src/trainer.py), the RPC they make with a deadline                     *)
(* (src/runtime/rpc/trainer_client.py), the thread pool that serves it     *)
(* (src/runtime/rpc/scheduler_server.py), Worker._report_stats_impl with   *)
(* the leader/lagger comparison, and what the main loop does to            *)
(* worker._tasks meanwhile (src/worker.py, src/task.py).                   *)
(*                                                                         *)
(* Every action is what one thread does between two points where another   *)
(* may run.  A throughput is a small number: the time between two reports  *)
(* is not modelled, so a report of some iterations has any of them.        *)
(***************************************************************************)
EXTENDS Integers, Sequences, FiniteSets, Functions

CONSTANTS
    Job,          \* the jobs of the traces
    Traces,       \* the traces to look at, each a set of jobs
    Shared,       \* the ones of priority 'shared'
    Iters,        \* iterations a job is to train (the iterations column)
    SloEnabled,   \* TGS_SLO_MODE = '1'
    CloseTries,   \* bound: turns of a job in the loop, range(5), of Trainer.close
    PoolSize,     \* max_workers of the RPC server
    Rates,        \* bound: the throughputs a job may show
    MaxReports    \* bound: calls a job makes from record()

ASSUME ReportAssumption ==
    /\ IsFiniteSet(Job) /\ Shared \subseteq Job /\ Traces \subseteq SUBSET Job
    /\ Iters \in Nat \ {0}
    /\ SloEnabled \in BOOLEAN
    /\ CloseTries \in [Job -> Nat \ {0}] /\ PoolSize \in Nat \ {0}
    /\ Rates \in [Job -> SUBSET (Nat \ {0})] /\ MaxReports \in [Job -> Nat]

VARIABLES
    phase,       \* where the trainer of a job is
    done,        \* iterations it trained
    unreported,  \* Trainer._finished_iteraions
    tries,       \* calls close() may still make; 0 before close()
    calls,       \* the ReportStats calls of a job, in the order of issue
    container,   \* task._handler: not yet run, up, or its exit status; or the
                 \* job is absent from the trace
    tasks,       \* the keys of worker._tasks
    fin,         \* Task._finished_iterations
    reaping,     \* finished_tasks in check_tasks
    order,       \* the keys of worker._latest_reports, as inserted
    tput         \* the throughputs in worker._latest_reports

trainer == <<phase, done, unreported, tries>>
main    == <<container, tasks, reaping>>
reports == <<order, tput>>
vars == <<phase, done, unreported, tries, calls, container, tasks, fin,
          reaping, order, tput>>

\* What a handler has of a call: the request, the throughput it computed,
\* how far it is in _latest_reports, and the shared reports it met.
Call(n) == [st |-> "net", n |-> n, tp |-> 0, size |-> 0, at |-> 0, seen |-> <<>>]

Ids(j) == DOMAIN calls[j]
Last(j) == Len(calls[j])
Waiting(j) == phase[j] \in {"report", "closing"}

Init ==
    /\ phase = [j \in Job |-> "none"]
    /\ done = [j \in Job |-> 0]
    /\ unreported = [j \in Job |-> 0]
    /\ tries = [j \in Job |-> 0]
    /\ calls = [j \in Job |-> <<>>]
    /\ \E trace \in Traces :
          container = [j \in Job |-> IF j \in trace THEN "none" ELSE "absent"]
    /\ tasks = {} /\ reaping = {}
    /\ fin = [j \in Job |-> 0]
    /\ order = <<>> /\ tput = [j \in Job |-> 0]

-----------------------------------------------------------------------------
(* The trainer.                                                            *)

Send(j, n) == calls' = [calls EXCEPT ![j] = Append(@, Call(n))]

\* record(): count the iteration, and report when the interval is over.
Record(j) ==
    /\ phase[j] = "train" /\ done[j] < Iters
    /\ done' = [done EXCEPT ![j] = @ + 1]
    /\ unreported' = [unreported EXCEPT ![j] = @ + 1]
    /\ \/ UNCHANGED <<phase, calls>>
       \/ /\ Last(j) < MaxReports[j]
          /\ Send(j, unreported[j] + 1)
          /\ phase' = [phase EXCEPT ![j] = "report"]
    /\ UNCHANGED <<tries, main, fin, reports>>

\* One turn of the loop in close(): the first one, or after the sleep.
Close(j) ==
    /\ \/ /\ phase[j] = "train" /\ done[j] = Iters
          /\ tries' = [tries EXCEPT ![j] = CloseTries[j]]
       \/ phase[j] = "backoff" /\ UNCHANGED tries
    /\ Send(j, unreported[j])
    /\ phase' = [phase EXCEPT ![j] = "closing"]
    /\ UNCHANGED <<done, unreported, main, fin, reports>>

\* report_stats returned True.
Acknowledged(j) ==
    /\ Waiting(j) /\ calls[j][Last(j)].st = "ok"
    /\ calls' = [calls EXCEPT ![j][Last(j)].st = "acked"]
    /\ unreported' = [unreported EXCEPT ![j] = 0]
    /\ phase' = [phase EXCEPT ![j] = IF @ = "report" THEN "train" ELSE "leaving"]
    /\ UNCHANGED <<done, tries, main, fin, reports>>

\* Mutant of Failed: the iterations of a failed report are not kept.
FailedForget(j) ==
    /\ Waiting(j)
    /\ unreported' = [unreported EXCEPT ![j] = 0]
    /\ \/ phase[j] = "report" /\ phase' = [phase EXCEPT ![j] = "train"] /\ UNCHANGED tries
       \/ /\ phase[j] = "closing"
          /\ tries' = [tries EXCEPT ![j] = @ - 1]
          /\ phase' = [phase EXCEPT ![j] = IF tries[j] > 1 THEN "backoff" ELSE "leaving"]
    /\ UNCHANGED <<done, calls, main, fin, reports>>

\* Mutant of Failed: without timeout=, only an answer ends the wait.
FailedOnAnswer(j) ==
    /\ Waiting(j) /\ calls[j][Last(j)].st \in {"raised", "refused"}
    /\ \/ phase[j] = "report" /\ phase' = [phase EXCEPT ![j] = "train"] /\ UNCHANGED tries
       \/ /\ phase[j] = "closing"
          /\ tries' = [tries EXCEPT ![j] = @ - 1]
          /\ phase' = [phase EXCEPT ![j] = IF tries[j] > 1 THEN "backoff" ELSE "leaving"]
    /\ UNCHANGED <<done, unreported, calls, main, fin, reports>>

\* report_stats returned False: the handler raised, the worker could not be
\* reached, or the deadline passed, which may be at any point of the call.
Failed(j) ==
    /\ Waiting(j)
    /\ \/ phase[j] = "report" /\ phase' = [phase EXCEPT ![j] = "train"] /\ UNCHANGED tries
       \/ /\ phase[j] = "closing"
          /\ tries' = [tries EXCEPT ![j] = @ - 1]
          /\ phase' = [phase EXCEPT ![j] = IF tries[j] > 1 THEN "backoff" ELSE "leaving"]
    /\ UNCHANGED <<done, unreported, calls, main, fin, reports>>

\* The workload returns after close() ...
Exit(j) ==
    /\ phase[j] = "leaving"
    /\ container' = [container EXCEPT ![j] = "zero"]
    /\ phase' = [phase EXCEPT ![j] = "gone"]
    /\ UNCHANGED <<done, unreported, tries, calls, tasks, fin, reaping, reports>>

\* ... or dies at any time.
Die(j) ==
    /\ container[j] = "up"
    /\ container' = [container EXCEPT ![j] = "nonzero"]
    /\ phase' = [phase EXCEPT ![j] = "gone"]
    /\ UNCHANGED <<done, unreported, tries, calls, tasks, fin, reaping, reports>>

-----------------------------------------------------------------------------
(* The handlers.                                                           *)

Busy == {"update", "publish", "scan", "sleep"}
Issued == UNION {{j} \X Ids(j) : j \in Job}
Handlers == {c \in Issued : calls[c[1]][c[2]].st \in Busy}

\* What a handler knows besides the request goes when it returns or raises.
Goto(j, k, st) ==
    calls' = [calls EXCEPT ![j][k] =
                IF st \in Busy THEN [@ EXCEPT !.st = st]
                               ELSE [Call(@.n) EXCEPT !.st = st]]

\* A pool thread takes the request: line 258 refuses a job not in _tasks.
Accept(j, k) ==
    /\ calls[j][k].st = "net" /\ Cardinality(Handlers) < PoolSize
    /\ Goto(j, k, IF j \in tasks THEN "update" ELSE "refused")
    /\ UNCHANGED <<trainer, main, fin, reports>>

\* Mutants of Update: the settled iterations are taken off, below zero; the
\* report replaces what was counted.
UpdateNegative(j, k) ==
    /\ calls[j][k].st = "update"
    /\ fin' = [fin EXCEPT ![j] = @ - calls[j][k].n]
    /\ Goto(j, k, "publish")
    /\ UNCHANGED <<trainer, main, reports>>

UpdateAssign(j, k) ==
    /\ calls[j][k].st = "update"
    /\ fin' = [fin EXCEPT ![j] = calls[j][k].n]
    /\ \E tp \in Rates[j] :
          calls' = [calls EXCEPT ![j][k].st = "publish",
                                 ![j][k].tp = IF calls[j][k].n = 0 THEN 0 ELSE tp]
    /\ UNCHANGED <<trainer, main, reports>>

\* Task.update.
Update(j, k) ==
    /\ calls[j][k].st = "update"
    /\ fin' = [fin EXCEPT ![j] = @ + calls[j][k].n]
    /\ \E tp \in Rates[j] :
          calls' = [calls EXCEPT ![j][k].st = "publish",
                                 ![j][k].tp = IF calls[j][k].n = 0 THEN 0 ELSE tp]
    /\ UNCHANGED <<trainer, main, reports>>

Publish(j, k) ==
    /\ calls[j][k].st = "publish"
    /\ order' = IF \E i \in DOMAIN order : order[i] = j THEN order ELSE Append(order, j)
    /\ tput' = [tput EXCEPT ![j] = calls[j][k].tp]
    /\ Goto(j, k, IF SloEnabled THEN "scan" ELSE "ok")
    /\ UNCHANGED <<trainer, main, fin>>

\* One turn of the for loop over _latest_reports.items(), which raises when
\* a first report of another job came in since it began.
ScanStep(j, k) ==
    LET c == calls[j][k]
        size == IF c.at = 0 THEN Len(order) ELSE c.size
        r == order[c.at + 1]
    IN /\ c.st = "scan"
       /\ \/ size # Len(order) /\ Goto(j, k, "raised")
          \/ /\ size = Len(order) /\ c.at < size
             /\ \E keep \in BOOLEAN :  \* a report of another job may be stale
                  /\ keep => r \in tasks \cap Shared
                  /\ r = j => keep = (r \in tasks \cap Shared)
                  /\ calls' = [calls EXCEPT ![j][k] =
                        [c EXCEPT !.size = size, !.at = @ + 1,
                           !.seen = IF keep THEN Append(@, <<r, tput[r]>>) ELSE @]]
       /\ UNCHANGED <<trainer, main, fin, reports>>

\* max and min return the first of equal reports.
First(seen, Better(_, _)) ==
    seen[CHOOSE i \in DOMAIN seen :
           /\ \A h \in 1 .. i - 1 : Better(seen[i][2], seen[h][2])
           /\ \A h \in i + 1 .. Len(seen) : ~Better(seen[h][2], seen[i][2])]

\* The leader of two or more is held up when it is 1.25 times the lagger;
\* a lagger at 0 counts as 1e-6.
Throttle(j, seen) ==
    /\ Len(seen) >= 2
    /\ LET leader == First(seen, >)
           lagger == First(seen, <)
       IN leader[1] = j /\ leader[2] > 0 /\ 4 * leader[2] >= 5 * lagger[2]

Decide(j, k) ==
    LET c == calls[j][k] IN
    /\ c.st = "scan" /\ c.at > 0 /\ c.at = c.size /\ c.size = Len(order)
    /\ Goto(j, k, IF Throttle(j, c.seen) THEN "sleep" ELSE "ok")
    /\ UNCHANGED <<trainer, main, fin, reports>>

Wake(j, k) ==
    /\ calls[j][k].st = "sleep"
    /\ Goto(j, k, "ok")
    /\ UNCHANGED <<trainer, main, fin, reports>>

Handle(j, k) ==
    \/ Accept(j, k) \/ Update(j, k) \/ Publish(j, k)
    \/ ScanStep(j, k) \/ Decide(j, k) \/ Wake(j, k)

-----------------------------------------------------------------------------
(* The main loop of the worker, as far as it touches _tasks.               *)

Launching == {j \in Job : j \in tasks /\ container[j] = "none"}

\* execute: the task is in _tasks before task.run starts the container.
Register(j) ==
    /\ reaping = {} /\ Launching = {}
    /\ j \notin tasks /\ container[j] = "none"
    /\ tasks' = tasks \cup {j}
    /\ UNCHANGED <<trainer, calls, container, fin, reaping, reports>>

\* Mutant of Run: the container is started before the task is registered.
RunEarly(j) ==
    /\ container[j] = "none"
    /\ container' = [container EXCEPT ![j] = "up"]
    /\ phase' = [phase EXCEPT ![j] = "train"]
    /\ UNCHANGED <<done, unreported, tries, calls, tasks, fin, reaping, reports>>

Run(j) ==
    /\ j \in Launching
    /\ container' = [container EXCEPT ![j] = "up"]
    /\ phase' = [phase EXCEPT ![j] = "train"]
    /\ UNCHANGED <<done, unreported, tries, calls, tasks, fin, reaping, reports>>

\* check_tasks sees the exit of a container and settles a clean one's count.
Observe(j) ==
    /\ Launching = {} /\ j \in tasks \ reaping
    /\ container[j] \in {"zero", "nonzero"}
    /\ fin' = [fin EXCEPT ![j] = IF container[j] = "zero" THEN Iters ELSE @]
    /\ reaping' = reaping \cup {j}
    /\ UNCHANGED <<trainer, calls, container, tasks, reports>>

Reap ==
    /\ reaping # {}
    /\ tasks' = tasks \ reaping /\ reaping' = {}
    /\ UNCHANGED <<trainer, calls, container, fin, reports>>

TrainerStep(j) == Record(j) \/ Close(j) \/ Acknowledged(j) \/ Failed(j) \/ Exit(j)
MainStep == Reap \/ \E j \in Job : Register(j) \/ Run(j) \/ Observe(j)

\* Every container ended and was reaped.
Finished ==
    /\ tasks = {} /\ \A j \in Job : phase[j] = "gone" \/ container[j] = "absent"
    /\ UNCHANGED vars

Next ==
    \/ \E j \in Job : TrainerStep(j) \/ Die(j)
    \/ \E j \in Job : \E k \in Ids(j) : Handle(j, k)
    \/ MainStep
    \/ Finished

Spec == Init /\ [][Next]_vars

\* The container keeps running its trainer, and the deadline of a call does
\* pass.  Nothing is asked of the network, the worker or its threads.
Fairness == \A j \in Job : WF_vars(TrainerStep(j))

FairSpec == Spec /\ Fairness

-----------------------------------------------------------------------------
(* Properties.                                                             *)

Applied == {"publish", "scan", "sleep", "raised", "ok", "acked"}
CallRecord == [st : {"net", "refused"} \cup Busy \cup Applied, n : Nat, tp : Nat,
               size : Nat, at : Nat, seen : Seq(Job \X Nat)]

TypeOK ==
    /\ phase \in [Job -> {"none", "train", "report", "closing", "backoff",
                          "leaving", "gone"}]
    /\ done \in [Job -> 0 .. Iters] /\ unreported \in [Job -> Nat]
    /\ tries \in [Job -> Nat] /\ \A j \in Job : tries[j] <= CloseTries[j]
    /\ calls \in [Job -> Seq(CallRecord)]
    /\ container \in [Job -> {"absent", "none", "up", "zero", "nonzero"}]
    /\ tasks \subseteq Job /\ reaping \subseteq Job
    /\ fin \in [Job -> Nat]
    /\ order \in Seq(Job) /\ tput \in [Job -> Nat]

\* No trained iteration is lost: whatever calls timed out, failed, were
\* refused or applied late, what the worker counted and what the trainer
\* still has to report make up at least what was trained.
NoIterationLost == \A j \in Job : fin[j] + unreported[j] >= done[j]

\* What the worker counts beyond that is exactly the reports it applied and
\* the trainer took for failed, because the deadline passed or the handler
\* raised after counting: nothing else is counted twice.
Unacknowledged(j) == {k \in Ids(j) : calls[j][k].st \in Applied \ {"acked"}}
ExactAccounting ==
    \A j \in tasks \ reaping :
        fin[j] + unreported[j] =
            done[j] + SumFunctionOnSet([k \in Ids(j) |-> calls[j][k].n], Unacknowledged(j))

\* The assertion of line 258 refuses only calls left over from a container
\* that is gone: never a trainer that waits, not even in its first report.
RefusedOnlyAfterExit ==
    \A j \in Job : \A k \in Ids(j) :
        calls[j][k].st = "refused" => container[j] \notin {"none", "up"}

\* Training does not hang behind the worker: whatever becomes of the calls,
\* a trainer that started trains all its iterations and leaves, or dies.
TrainingNeverHangs ==
    \A j \in Job : phase[j] = "train" ~> phase[j] = "gone"

-----------------------------------------------------------------------------
(* What holds besides, for the proofs of ReportStatsProofs.                *)

\* The call a trainer waits for carries all it has to report, and once the
\* worker has applied it every trained iteration is counted.
WaitedCall ==
    \A j \in Job : Waiting(j) =>
        /\ calls[j] # <<>>
        /\ calls[j][Last(j)].n = unreported[j]
        /\ calls[j][Last(j)].st \in Applied => fin[j] >= done[j]

TriesLeft == \A j \in Job : phase[j] \in {"closing", "backoff"} => tries[j] > 0

IInv == TypeOK /\ TriesLeft /\ WaitedCall /\ NoIterationLost

\* A job is in _tasks before its container is up and until it was seen to
\* end, and nothing is sent before that.
Lifecycle ==
    \A j \in Job :
        /\ container[j] = "none" => phase[j] = "none" /\ calls[j] = <<>> /\ j \notin reaping
        /\ container[j] = "up" => j \in tasks \ reaping

\* Nothing is trained or counted before the container of a job is up, so its
\* account is in balance when the job gets into _tasks.
NothingBefore ==
    \A j \in Job : container[j] = "none" => done[j] = 0 /\ fin[j] = 0 /\ unreported[j] = 0

\* close() is called when all iterations are trained, and a clean exit follows.
Trained ==
    \A j \in Job :
        \/ phase[j] \in {"closing", "backoff", "leaving"}
        \/ container[j] = "zero"
        => done[j] = Iters

\* When the last report of a container that ended cleanly was acknowledged,
\* the worker has counted all its iterations; and exactly those, unless a
\* report was applied and taken for failed.
CountedAtExit ==
    \A j \in tasks \ reaping :
        container[j] = "zero" /\ unreported[j] = 0
            => fin[j] >= Iters /\ (Unacknowledged(j) = {} => fin[j] = Iters)

\* A bound for the steps a trainer may still make.
StepsLeft(j) ==
    CASE phase[j] = "gone"    -> 0
      [] phase[j] = "leaving" -> 1
      [] phase[j] = "closing" -> 2 * tries[j] + 1
      [] phase[j] = "backoff" -> 2 * tries[j] + 2
      [] phase[j] = "report"  -> 2 * (Iters - done[j]) + 2 * CloseTries[j] + 3
      [] phase[j] \in {"none", "train"} -> 2 * (Iters - done[j]) + 2 * CloseTries[j] + 2

\* A trainer never goes round in its retries: once it runs, each step that
\* moves it brings its end nearer, and nobody else's step takes it back.
TrainerAdvances ==
    [][\A j \in Job :
          /\ StepsLeft(j)' <= StepsLeft(j)
          /\ phase[j] # "none" /\ <<phase[j], done[j]>>' # <<phase[j], done[j]>>
             => StepsLeft(j)' < StepsLeft(j)]_vars

-----------------------------------------------------------------------------
\* What check_tasks tells of a clean exit, "only reported {fin}/{iterations}":
\* a count that differs is short of the iterations.
OnlyUnderreports ==
    \A j \in tasks \ reaping : container[j] = "zero" => fin[j] <= Iters

=============================================================================
