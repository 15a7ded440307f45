# A TLA+ model of TGS

TGS shares GPUs between deep-learning containers. This directory models its
runtime: the worker that places jobs on GPUs, the channel by which jobs report
progress, and the controller that keeps a low-priority job from slowing down a
high-priority one. TLC checks the models on small instances, TLAPS proves the
central properties for every value of the constants.

Paths below are relative to `src/`; LP and HP are
`hijack/src/low_priority_hijack_call.c` and `hijack/src/high_priority_hijack_call.c`.

## 1. The system

A **worker** process (`worker.py`) reads a trace of jobs, admits each at its
submit time, places it on GPUs by priority class and starts a docker container
for it (`task.py`). Inside, a workload drives a **trainer** (`trainer.py`), which
reports finished iterations to the worker over gRPC. Into each container one of
two libraries is preloaded. The **high-priority** library counts kernel launches
and sends their rate, every half second, over a Unix socket named after the GPU.
The **low-priority** one receives it, computes a limit from it, and makes its own
kernel launches wait while they exceed the limit; it also replaces allocations
with managed memory and keeps account of them.

| component | state | operations | talks to |
|---|---|---|---|
| main loop, `worker.py` 351–431 | submit queue, runnable list, `_tasks`, the machine table, the clock | admit, poll, reap, release, place, launch, sleep | containers (start, exit code); report handlers (`_tasks`) |
| report path, `trainer.py`, `trainer_client.py`, `scheduler_server.py`, `_report_stats_impl` | iterations not yet reported; calls under way; counted iterations; latest reports | record, close, deadline, retry; count, publish, compare, hold up | the trainer blocks on the call; ten handler threads and the loop share the worker's dictionaries |
| limit controller, `limit_manager`, `update_rate_limit` (LP 336–600) | phase, limit, flag, window of samples, state and static counters | connect, profile, control, update, disconnect | reads samples from the socket, writes limit and flag |
| launch path, `rate_limiter`, `rate_watcher`, `initialization` (LP 650–757) | counter, limit, flag, active flag | test, wait, add; empty; start threads | shared plain variables with the controller |
| rate link, HP 112–345, LP 236–320, 460–600 | the socket file; connections, what is on the way in them; descriptors | unlink, bind, accept, read, hang up; connect, send, reconnect | the two libraries of one GPU, through a path all containers mount |
| memory accounting, LP 155–235, 401–442, 778–1012 | list of ranges, used memory | allocate, free, query, prefetch | the driver; the controller at a disconnect |
| records, `task.py` 416–428, `utils.py` 44–66, `worker.py` 176–211, 249–254, 337–348 | samples and rows of a task, the metrics file | add a sample, average and reset, write a line, close | handler threads and main thread under the interpreter lock |
| loader, pass-through entries, command lines, stubs, scripts, workloads | none that changes | – | – |

Where the difficulties are:

- *Interleaving.* The loop, the handlers, the containers and the wall clock are
  independent; so are launching threads, watcher and controller, which share
  variables without a lock, and two threads may both initialize a device.
- *Failure.* Containers die, calls pass their deadline with the work done,
  exceptions end the loop or a handler halfway, connections end at any sample.
- *Ordering.* Queues and lists are rebuilt in every pass; the limit and the flag
  are two words; a window is averaged before it is full.
- *Numbers.* A sleep computed from a stale time, integer divisions of a limit for
  which zero means "off", thresholds tested as `<=` here and `==` there.
- *Liveness.* Every wait (of a trainer, of a job, of a kernel, of the controller)
  has to end although the other side may be slow or gone.

What makes each component correct:

- *main loop*: the table matches the tasks; capacity; nothing lost; order; no
  fitting job left waiting; no oversleeping; the loop ends.
- *report path*: no iteration lost, double counting only where the retry makes it
  unavoidable, refusals only of dead trainers, training never blocked for good.
- *controller*: limit always effective and never zero, never raised for a
  disturbed process, taken back on wake-up, settling where the samples point; what
  was averaged from uninitialized memory is behind it once control begins.
- *launch path*: overshoot of a window bounded; a throttled process goes on launching.
- *rate link*: a session begins with `max_rate`, whoever reconnected before; a sender
  is heard once; descriptors balance; short of a failing system call the link ends a
  process for want of descriptors or a bind it lost to another, and for nothing else;
  whoever stays is served, and nobody stays limited for a peer that is gone.
- *records*: rows share no sample and are not empty, odd samples stay out of them,
  lines are lost only of jobs that are gone, a job with samples gets its row.
- *memory accounting*: used memory is what was added for the ranges of the list; a
  free finds a range; with no call under way the list has one range for each live one.
  That it also has the right sizes, and used memory with them, fails (`WrongRange`).

`PROJECT.json` lists every component and, under `hazards`, each difficulty at the
line where it bites with the properties that cover it.

## 2. Modules

| module | what it is |
|---|---|
| `Scheduler` | the main loop with check_tasks, execute and the exceptions that end it |
| `SlotPool` | abstract: jobs lease GPUs within the capacity of a class, all at once |
| `SchedulerProofs` | theorems about `Scheduler`; it implements `SlotPool` |
| `ReportStats` | trainers, calls, handlers, and the loop as far as it touches `_tasks` |
| `ReportStatsProofs` | no iteration is lost, the surplus is exact; only calls of dead containers are refused; a trainer comes nearer its end |
| `LimitManager` | the limit controller, sample by sample |
| `LimitProtocol` | abstract: in which order limit and flag are written |
| `LimitManagerProofs` | what each sample does to the limit; `LimitManager` implements `LimitProtocol` |
| `RateLimiter` | the launch path, read by read, against the writes of `LimitProtocol` |
| `RateLimiterProofs` | the bound of the overshoot; its managers are those of `LimitProtocol`; a watcher is always there |
| `MemTracker` | the list of ranges against the driver, and the transfer at a disconnect |
| `MemTrackerProofs` | used memory adds up; a free finds a range; the list settles to one range for each live one; the mutex comes back |
| `RateLink` | both ends of the socket, with the processes that end |
| `RateLinkProofs` | the safety of the link |
| `Records` | handlers and main thread at the two files of the worker |
| `RecordsProofs` | what is on file is right |
| `FiniteSums` | lemmas: least elements and induction without predicates; sums over a finite set |
| `MCScheduler`, `MCReportStats`, `MCLimitManager`, `MCRateLimiter`, `MCMemTracker`, `MCRateLink`, `MCRecords` | values of the constants for TLC |

`RateLimiter` and `LimitManager` compose by assume and guarantee, and both halves are
theorems: the steps of a manager in `RateLimiter` are those of `LimitProtocol`, no more
and no fewer (`ProtocolIsManager`), one manager per initialization, and `LimitManager`
implements `LimitProtocol` with all positive numbers as its limits (`Refinement`). `RateLink` gives `LimitManager` what it takes for
granted: within a session every value is a sample, the first apart (`Framed`), and the
session ends only with its sender. `ReportStats` and `Records` each take of the main
loop what their state depends on; that a container which is up is in `_tasks` is an
invariant of `Scheduler` too (`NoJobLost`). Operators whose comment begins with
"Mutant of" are faulty variants of the definition they stand beside; no specification
uses them.

### Scheduler

`now` is `time.time()` since the start, in whole seconds; `submit`, `runnable`,
`kept` are the three lists; `tasks` the keys of `_tasks`; `machine[g][p]` the entry
of GPU g for class p, a set for the scalar and for the list alike; `proc` the
container. `pc` follows the loop: `top`, `admit` (one row per step), `poll` (one
container per step), `release`, `scan` (one job per step), `nap`, `sleep`. `Tick`
and `Exit` come between any two of them. A Python exception is `Crash`, which stops
the loop and leaves the containers.

The placement loop takes free GPUs in index order and tests `len(used_gpus) ==
num_gpus` after each one. `Take` is its outcome: the lowest `NumGpus[j]` free GPUs;
for a job that asks for none, every free GPU if GPU 0 is free and none otherwise.
Releasing the latter raises in `int('')`.

Not modelled: `kill` and `query_node_stats` (no caller), logging, the file of metrics.

### ReportStats

A call is a record in a sequence per job, so that answers may come after the
trainer has gone on. `Failed` stands for the one-second deadline, a handler that
raised and an unreachable worker: it is possible at any point of the call, and the
call may still be accepted and counted later. Handlers run as the code does:
assertion on `_tasks`, `Task.update`, publication of the report, the loop over
`_latest_reports` one entry at a time (which raises if a first report arrives
during it), the decision, the sleep. `order` is the insertion order of the
dictionary. Whether another job's report is stale is chosen freely, a
report of new iterations has a throughput from `Rates` of its job, one without has 0.
The main loop appears as Register, Run, Observe and Reap.

`Task.throughputs` and the file of metrics are in `Records`. Not modelled:
`RegisterTrainer`, which nobody calls and no callback serves.

### LimitManager

Each iteration of a read loop is one action: `Profile`, `ProfileAgain` (the `goto`),
`FirstLimit`, `Control`, `Disconnect`. The limit is computed with the code's integer
arithmetic, including the conversion of a double too large for `long long`. A sample
is reduced to what the code decides by: its distance from `max_rate` in percent, at
and around the thresholds 3, 9 and 12; whether it is below 1000; whether profiling
restarts or goes on. `max_rate` itself is therefore not computed, and every
combination of those facts is possible: what is shown holds for the code, but
scenarios that the values of `max_rate` exclude are included. `shift_window` averages
the entries as they were before the new one comes in, at first uninitialized ones;
`averaged` (history) says whether the last average took in such an entry, so that what
`max_rate` and the end of the profile were computed from may have been junk. `sign` and
`max_diff_counter` are static: `OtherDevice` lets managers of other devices write
them at any time. `cnt` stops at one above the largest number it is compared with, `t` at
the length of a profile.

### RateLimiter

Each read of a shared variable in `launch_test` is a step. The loads are of plain
variables: the build may keep the limit it tested for `> 0` (`TestHeld`) or load it again
(`LoadCounter`, `Compare`); loads are taken to happen in the order written. The
addition is atomic. A watcher and a manager start with the thread that initialized
the device; two threads that both found it inactive start two of each. Kernel
sizes are a 32-bit product and may wrap to 0. The variable `cap` is history: the
largest limit in force since the counter was last emptied. Launches have no number:
a thread begins another whenever the counter is at most `CountBound`, which keeps it
finite where no limit does; connections have one, `Sessions`. What a call loaded is
forgotten when it returns (`Forget`): no later step reads it.

### MemTracker

`ranges` is the list behind `list_head`, newest first; `exists` says whether the head
was created, `used` is `g_used_memory`. A call goes through the places at which another
thread can come between: the driver's allocation (`Allocate`), `cuCtxGetDevice` with
the unlocked test of `list_head` (`GetDevice`), perhaps `init_list` (`Create`), the
insertion (`Insert`), `cuMemAdvise` (`Advise`); or the driver's free (`Free`), perhaps
`Create`, the removal (`Delete`). What the code does under `g_map_mutex` in one go is
one action, enabled while nobody holds it. `memory_transfer_routine` holds it across
its calls of the driver, so `Lock`, `Prefetch` and `Unlock` are actions of their own.
It runs for the device of its manager; which ranges it skips changes nothing.

The driver is the environment: `live[a]` is the size of the range at `a`. It may hand
out any free address, at once after a free, and refuse `MaxFailures` calls. A refused
`cuMemAllocManaged` goes on as in the code, where the next call's result replaces its
own, with whatever the caller's pointer held; so an application may come to hold two
pointers to one range, which `owned` counts. The application frees only pointers it was
given. `intact`, `dropped` and `reused` are history: whether a second `init_list` has
replaced a list with ranges in it, their sizes, and which addresses the driver handed
out while a thread had freed them there and not yet told the list.

### RateLink

`host` says which process a thread is of and is chosen at the start: two launching
threads of one process may both start a sender or a manager. `file` is the manager
behind the path, alive or not, since the file outlives its process. `data[s]` is what
sender `s` wrote and nobody read; a value is `"max"` or `"rate"`, which only its place
tells apart, as on the wire. `queue[m]` is the backlog, where a connection takes data
before it is accepted. `Killed` ends a process at any point; `Abort` is
`LOGGER(FATAL)`, with the call that failed. Every failure path is the code's: `socket`
or `accept` without a descriptor, a path with nobody behind it, a peer gone before it
took or gave `max_rate`, a `bind` that fails and is only printed. `accept`,
`getnameinfo` and `close` may also fail for a reason of the system's, at any time, and
end the process (`SystemFails`). `raced` (history) has the managers that saw another
bind the path between their own unlink and bind; each process has its own number of
descriptors, `FdLimit`. The two `continue`
statements that leave a descriptor behind count it in `lost`.

Logging opens `/tmp/cudalog` at every level and writes without a test, so a message
needs a descriptor. The state of the control loop inside a session is in
`LimitManager`; the length of the backlog (`LISTENQ`) is not bounded here, which adds
behaviours (a connection more that waits) and takes none away. Writes to a closed
socket fail instead of killing the process, as Python ignores SIGPIPE.

### Records

The interpreter lock makes a step of what runs between two calls of a function. A
handler goes `net`, `timed` (clock read), `stamp` (sample added), `write` (metrics file
found there), `done`; the main thread polls, records every task (`Look`, `Save`,
`Reset`), pops, launches, records again. A sample is the number of its call; that it is
negative, because another handler set `last_time` between this one's clock and its
sample, is kept in `late` and `negative`. `closing` is the first call made by `close()`,
`gaveup` (history) the jobs whose trainer sent a call while another was open. The slice
`[-5:-1]` has `Window` for 5. Who is launched and when is `Scheduler`'s matter and
chosen freely here, whether an answer counts is `ReportStats`'.

## 3. Runs

| run | instance | shows |
|---|---|---|
| SchedulerMix | 2 GPUs, 7 rows of one and two GPUs in a class of one and a class of two, four arrival times; the last three raise: no GPU, an unknown model, three GPUs | types, table, capacity, accounting up to the exception, work conservation, no overtaking |
| SchedulerWait | 1 GPU, first row asks for 2, three `shared` rows, two rows that take turns; fair | release of the right entry, refinement of `SlotPool`, rows behind the misfit start, it alone keeps the loop running |
| SchedulerArrival | the same trace | **violated**: the negative sleep |
| Report | one of two traces, chosen at the start: a job alone with 2 iterations, 2 reports and 2 closing tries, or 2 shared jobs with throughputs 4 and 5, of which one tries twice to close; fair trainers only | nothing lost, exact surplus with retries and handlers that raised, refusals only after the exit, training never hangs |
| ReportTwice | 1 job, 1 iteration | **violated**: a retried report is counted twice |
| Manager | 3 initial limits, all thresholds, another device, fair samples | limit in force, junk averaged at the start of a connection only, a hurt sample lowers the limit, restart at a wake-up, refinement of `LimitProtocol`, backing off, recovery for good |
| Limiter | 2 threads that launch without end while the counter is at most 3, sizes up to 1, limit 1, a session, two watchers | overshoot of a window, launches resume |
| RateLink | 2 senders and 2 managers, in four processes or two of a kind in one, 3 descriptors for a sender's process, 1 and 2 for the managers', 2 unread values | framing, one listener, descriptors, what the link ends a process for, service of who stays, release of who is left |
| SharedPair | 2 managers in two processes, no sender | **violated**: one of two shared jobs is ended |
| Records | a job of three calls, two of them at once, and one that only comes and goes, window 2 | rows and lines are right, a job with two samples gets a row |
| MemTracker | 2 threads, 1 manager, 1 address, sizes 1 and 2, 1 refused call | used memory adds up, frees find a range, the list settles to one range for each live one, every call returns |
| WrongRange | 2 threads, no manager, no refused call | **violated**: used memory is not the memory in use |

Why the bounds are enough. *Scheduler*: the rows fill both classes, make a two-GPU job
wait, let a younger one pass it and let arrivals fall into every phase of the loop;
the clock stops after the last arrival, and all later times are alike. *ReportStats*:
two calls are the shortest history with a late answer and a retry, two jobs the
smallest number for a comparison, a pool of 2 makes calls queue, and the rates 4 and 5
are in the ratio 1.25 at which the comparison holds a job up; a job that is not in the
trace takes no step, so the two traces are two instances checked in one run.
*LimitManager*: the window and the profile have the code's length, the warm-up is
one sample longer than the window; the limits are scaled down (2, 12, 20, 30 for
50000, 2^32, 2^40, 10^14) in the same order, so that every branch and every
ceiling is reached, and 34 stands for an initial limit that does not survive a
multiplication by 1.5. *RateLimiter*: two threads race for the last room under the limit
and for the initialization, and go on launching as long as the other waits; a kernel of
size 0 is one whose size wrapped. The limit is 1, and the counter bound of 3, the limit
and one kernel of each thread, stops nobody while a limit is in force (`WindowBounded`).
*RateLink*: a stale connection before the own one, a path taken over, a peer that went
in any phase and a flag two managers share need two of each; a sender's process has
descriptors for two threads and one lost, a manager's one or two, so that every call can
find none left, and one process does while another goes on; two unread values are
the fewest with which a session's first value and a later one are both on the way.
*Records*: a sample dropped by the reset, one that goes negative, and a slice shorter
than what there is need three calls, two at once, and a window of two; the other job's
start and end make the loop record twice in one turn. A sample in two rows takes three
calls only where the reset is missing; two rows of different samples take four, beyond the
instance but not beyond the theorem. *MemTracker*: an entry of the list is confused only with one of the same
address, which two threads allocate and free in every order; sizes 1 and 2 tell the
entries apart. The safety theorems of section 4 hold without these bounds.

Deadlock is checked except in three runs: in `RateLink` and `SharedPair` all processes
may end, and in `Records` the program itself does. Elsewhere the stopped loop and
finished jobs have a stuttering step of their own, and the other models never stop.

**Fairness.** `Scheduler`: the loop (one thread of the operating system), the
clock, and the end of every container, which runs a given number of iterations.
`ReportStats`: only the trainer's own steps, the deadline of a call among them;
neither the network nor the worker has to do anything. `LimitManager`: samples
arrive while connected (the sending loop sleeps half a second); disconnecting is
never required, and other devices may write the statics for ever. `RateLimiter`:
threads within a launch and watchers, which wake from timed sleeps; no launch has to
begin, and nothing is asked of the manager, which blocks on a socket. `RateLink`: each thread of a live process runs; none has to
start, and none has to end: `Serves` and `Freed` name what must stay or go as their
premises. `Records`: the main thread gets its turns, and containers end; no handler has
to go on, but the loop is taken not to raise (where it may, `SchedulerArrival` shows). `MemTracker`: a call under way goes on, strongly fair because
the mutex may be taken again before a waiting thread gets it; a manager does so only
after another connection came and ended, and every other holder releases it at once.
No call has to begin.

**Four disagreements.** *SchedulerArrival*: `sleep_time` at `worker.py:428` becomes
negative when the head of the queue gets due between `has_ready_jobs` and that line,
and `time.sleep` raises; polling and launching containers takes seconds. *ReportTwice*:
a report that passed its deadline may have been counted and is sent again, so the
count can exceed the iterations, which the message of `worker.py:187` ("only
reported") takes for impossible. `ExactAccounting` says precisely how far.
*SharedPair*: the two `shared` jobs that `README.md:91` offers use one path; when both
managers unlink it before either binds, the second `bind` fails, which LP 305 only
prints, and `accept` on that socket ends the process. `FatalExplained` shows that, where
`accept`, `getnameinfo` and `close` do not fail of themselves, this and a want of
descriptors are the only ways in which the link ends a process.
*WrongRange*: `cuMemFree_v2` (LP 917) frees in the driver first. Before it tells the list,
another thread may be given the address for a range of another size and put that in
front; `delete_mem` then removes the first entry of the address, which is the new
range. The list keeps the old one, and `cuMemGetInfo` (LP 1010, 1019) subtracts a
`g_used_memory` that is not what is in use, with no call under way and none failed.

**What three liveness properties do not promise.** `LaunchesResume`: some thread of a
throttled process launches, again and again, and each thread does whose rivals launch no
more; one thread of several may be held back for ever, when rivals fill each emptied window
before it tests the counter. With connections that come and go for ever all threads may:
each test could fall between the load of the counter and that of a limit of -1; so the
connections of the instance are finite. `Recovers` asks for calm for good and promises a
limit that reaches the ceilings and stays there; of calm that ends, `CalmRaises` says what
each sample does. `Recorded` ends with the main loop.

## 4. Proofs

All theorems are checked by tlapm with no step omitted; they assume only the named
`ASSUME` of each component's module, which every run evaluates.

*Scheduler* (`TraceAssumption`: a finite trace, at least one GPU, submit times before the
horizon). The safety invariants are not inductive alone. The strengthening says for
each phase of the loop what the lists hold, that `finished` and `unpolled` are part
of what is leased, that the three lists are disjoint and sorted end to end, and that
during a scan every job already kept does not fit the table as it is. The last point
needs that starting a job only takes slots away. From it: `SlotsCorrect`,
`CapacityRespected`, `ReleaseSafe`, `JobsAccounted`, `OrderKept`, `ScanComplete`,
`SleepBounded`, `OnlySmallerOvertake`. `Refinement` shows that every step of the loop
is a lease, a return or a stutter of `SlotPool`, for traces whose jobs ask for a GPU;
its core is that the placement loop takes exactly the number asked for, by a
least-counterexample argument over the GPU indexes.

*ReportStats*: `NothingLost`, `OnlyDeadRefused`, `AccountIsExact`, `FullAtExit`,
`TrainersAdvance`. The first is inductive with `WaitedCall`: the call a trainer waits for
carries all it has to report, and once it was applied every trained iteration
is counted; so a reset on success loses nothing. The second needs `Lifecycle`: a
container that is up is in `_tasks` and not being reaped, and no call is sent before.
The third, `ExactAccounting`, says that what was counted plus what the trainer still
holds is what was trained plus the sum of the calls applied and not acknowledged. One
handler's step adds its call to that sum with the count (`Settled`, `Balance`), an
acknowledgement takes it out when the trainer's own count is cleared, and an answer
taken for a failure leaves both; before its container a job has no calls
(`NothingBefore`). With `Trained` (`close()` comes after the last iteration) it gives `FullAtExit`: a job that ended cleanly, its
last report answered, has at least its iterations, and exactly those if no report was
applied and taken for failed. `TrainersAdvance` bounds the steps of a trainer: `StepsLeft`
falls with each of them, retries and deadlines included, and nobody else raises it.

*LimitManager* (`ManagerAssumption`: a window of at least five, a profile not shorter
than the window, a positive lower bound not above the ceilings, steps not below
`RATE_MIN`). `LimitNeverLost`
because each path ends at the lower bound, the initial limit or a ceiling.
`JunkEnds` from `Filled` (a profile has overwritten as many entries as it took samples)
and `Tainted`: uninitialized entries are averaged in the first `WindowSize` samples of a
connection and never after, so no sample under control and no later profile is judged by
them; what the first profile puts into `max_rate` may come from them. `HurtGains` and `CalmRaises` from the arithmetic of both states: each sample
under control, wake-ups and stops apart, moves the limit the way it should, down to
the lower bound or up to the lowest ceiling. It makes no difference what other devices
wrote to the statics; only a `sign` that is still 0 would turn a calm sample into a
decrease, and slow start has set it before congestion avoidance begins (`Signed`). `WakingRestarts`: a
sample takes at most one low entry out of the window (an injection between
windows), so a test for exactly two is never stepped over; it holds for windows
shorter than ten, where the computed threshold is that two. `Refinement` to `LimitProtocol`.

*RateLimiter* (`LimiterAssumption`: finitely many threads, positive limits). `OvershootBounded`:
a window carries at most one kernel of each thread over the largest limit in force in it.
The bound is not inductive, as a thread past its test still adds. `Reserve` keeps
room for those threads above every value the limit may yet reach, which makes it
stable when the limit is raised while some are between test and addition.
`AlwaysWatched`: once a thread got past initialization there is a watcher or a thread
about to start one, also when two found the device inactive.

*MemTracker* (`MemAssumption`: finitely many threads and addresses). `FreesFind` and
`ListIsDriver` rest on `Counted`: the list has at least as many ranges of an address
as there are pointers to it (`owned`) and threads about to hand out or delete one
(`Claimants`); exactly as many while no call failed, and then pointers and arriving
calls together are one if the driver has the range and none otherwise. Each step of a
thread moves its own share of one address from one side to the other (`Balance`). That the
one range of a live one has its size needs `Sized`: at an address never handed out during a
free of it, all entries have the size of the live range, if there is one, and nobody who is
leaving it meets an entry of somebody else (`Sound`). Both rest on lemmas on occurrences in a list when a range is put in front or taken out.
`UsedAddsUp` is the sum of that list under the same steps (`SumOfPrepend`, `SumOfRemove`),
with the sizes a second `init_list` dropped; from it `TypeCorrect`, as used memory is
natural only because it is a sum. `WalkIsUndisturbed` and `MutexIsFreed` rest on
`Walking` and `Holding`: the mutex is held between steps by a manager in its walk and
by nobody else.

*RateLink* (`LinkAssumption`: finitely many threads, senders and managers in different
processes, any placement otherwise). `FramedAlways`, `OneManagerAlways`, `BalanceAlways`,
`FatalExplainedAlways`. `ManagerPlace` ties a manager's place to its backlog and to the
path; `Doomed` ties it to why its process may end: a manager that finds the path taken, or
has found it so, is one of `raced`. `SenderPlace` ties a sender's
place to its connection: a sender that is not connected is in no backlog and no
session, and a connection is empty exactly until `max_rate` was written. Without the
first part a reconnecting sender could be twice in a backlog; without the second a
sample could come first. `Balance` counts the threads of a process that hold a
connection (`Open`) by adding or removing one element at each step.

*Records* (`RecordsAssumption`: any number of calls, a window of at least two).
`FilesAlwaysSound`, from `Samples` (a sample is among `throughputs` or in one row, except
between row and reset, and its handler has passed the addition), `InTurn` (while a
trainer waits for every answer only its newest call is open, so samples are in order
and none is negative) and `TasksUp` (the file goes only with no container left). A row
leaves out the newest sample, hence the one `close()` reported.

*FiniteSums*. The recursion behind `SumFunctionOnSet` picks an arbitrary element at each
turn; `SumRemove` shows that any may be taken, by induction on the size of the set.
The induction is over the set of sizes for which the claim holds, because the
provers cannot instantiate a theorem that takes a predicate as its parameter.

Every safety and action property of the passing runs is a theorem. Only model-checked
is what needs fairness, out of TLAPS's reach: `FeasibleJobsStart`, `OnlyUnplaceableStay`,
`TrainingNeverHangs`, `BacksOff`, `Recovers`, `LaunchesResume`, `Serves`, `Freed`,
`Recorded`, `CallsReturn`. Of five of them the step the argument turns on is proved for
all values: `TrainersAdvance` (a trainer's steps run out), `HurtGains` and `CalmRaises`
(each sample moves the limit the right way), `AlwaysWatched` (a counter that is waited
for is emptied), `MutexIsFreed` (a mutex that is waited for comes back). What TLC adds
is that these steps are taken, and on a small instance.

Theorems without a run of their own: `OrderKept`, `SleepBounded`, `FullAtExit`,
`TrainersAdvance`, `CalmRaises`, `ProtocolIsManager`, `AlwaysWatched`,
`WalkIsUndisturbed`, `MutexIsFreed`.

## 5. What is left

Open difficulties, listed in `PROJECT.json` without a property, are ones of which
nothing in the repository says what should happen: how old a compared report may be, a
lagger that is only closing, kernels added between the watcher's read and its reset, the
limit that holds while a process is profiled again, and a perfectly steady rate, which
is profiled for ever.

Possible next steps: `max_rate` computed on bounded inputs, so that the end of a
profile can be stated; `LimitManager` composed with `RateLink` in one state machine in
place of its free `Connect`, `Disconnect` and `Sample`; the entries of LP that end the
process (`cuArrayCreate` and its kin) in `MemTracker`.

## Not modelled

- *High-priority launch path*: `rate_estimator` adds to a counter and never waits; it is
  the launch path of `RateLimiter` without the wait. Its thread start is in `RateLink`.
- *Loader*: a table filled once under `pthread_once`.
- *CUDA and NVML pass-through entries*: each calls the driver's function of that name.
- *RPC definitions and stubs*: generated.
- *Command lines*: only which names raise (`Scheduler`), not the text.
- *Workloads*: training and inference programs, mostly vendored (`tf_cnn_benchmarks`,
  `dlrm`, `run_squad.py` and others). They are most of the Python lines in the
  repository, have no part in sharing a GPU, and enter through `Trainer.record` and
  `Trainer.close`. The share of all lines that the models stand for is small for this
  reason and cannot grow much: TGS itself is `worker.py`, `task.py`, `trainer.py`, the
  two files of `runtime/rpc` and `utils.py`, and the two C files of the libraries.
- *Scripts, plots, images and traces*: offline tools and data.
