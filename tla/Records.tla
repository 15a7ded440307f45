------------------------------ MODULE Records ------------------------------
(***************************************************************************)
(* What the worker puts on file: the CSV of throughputs, a row of which    *)
(* averages samples handler threads append to a task (src/task.py, update  *)
(* and record; src/utils.py, Writer), and the file of metrics, to which    *)
(* handlers write while the main thread may close it (src/worker.py).      *)
(*                                                                         *)
(* Handlers and the main thread run under one interpreter lock, which they *)
(* may lose in any call of a function; nothing else orders them.  Counting *)
(* and comparing the reports is in ReportStats, placing jobs in Scheduler. *)
(***************************************************************************)
EXTENDS Integers, Sequences, FiniteSets, Functions

CONSTANTS
    Job,      \* the jobs of the trace
    Calls,    \* bound: how many reports the trainer of a job sends
    Parallel, \* bound: how many of them may be under way at a time
    Window,   \* samples a row looks at, the newest of which it leaves out
    None      \* no job

Call == UNION {{j} \X (1 .. Calls[j]) : j \in Job}

ASSUME RecordsAssumption ==
    /\ Calls \in [Job -> Nat] /\ Parallel \in Nat
    /\ Window \in Nat \ {0, 1} /\ None \notin Job

VARIABLES
    container, \* of a job: not launched, up, or gone
    tasks,     \* the jobs in worker._tasks
    sent,      \* reports the trainer of a job has sent
    closing,   \* the first of them that close() sent, or 0
    gaveup,    \* history: jobs whose trainer went on without an answer
    pc,        \* where the handler of a call is
    late,      \* calls whose clock was read before last_time was set again
    throughputs, \* of a job: the calls whose samples await a row
    negative,  \* calls whose sample came out negative
    rows,      \* of a job: the rows written, each the calls it averages
    main,      \* where the main thread is
    finished,  \* the tasks check_tasks found ended
    flag,      \* record_flag
    todo,      \* tasks the current Worker.record has not come to
    cur,       \* the task in Task.record, and where
    fp         \* whether _slo_metrics_fp is there

trainer == <<container, sent, closing, gaveup>>
handler == <<pc, late, negative, fp>>
loop    == <<main, finished, flag, todo, cur>>
vars == <<container, tasks, sent, closing, gaveup, pc, late, throughputs,
          negative, rows, main, finished, flag, todo, cur, fp>>

Open == {"net", "timed", "stamp", "write"}

Init ==
    /\ container = [j \in Job |-> "none"] /\ tasks = {}
    /\ sent = [j \in Job |-> 0] /\ closing = [j \in Job |-> 0] /\ gaveup = {}
    /\ pc = [c \in Call |-> "none"] /\ late = {} /\ negative = {}
    /\ throughputs = [j \in Job |-> <<>>] /\ rows = [j \in Job |-> <<>>]
    /\ main = "top" /\ finished = {} /\ flag = FALSE /\ todo = {}
    /\ cur = <<None, "look">> /\ fp = TRUE

-----------------------------------------------------------------------------
(* The trainers: a report of a job, by record or, from some point on, by   *)
(* close; sent again when the answer is late or an error.                  *)

Send(j) ==
    /\ container[j] = "up" /\ sent[j] < Calls[j]
    /\ Cardinality({k \in 1 .. sent[j] : pc[<<j, k>>] \in Open}) < Parallel
    /\ LET c == <<j, sent[j] + 1>> IN
       /\ sent' = [sent EXCEPT ![j] = @ + 1]
       /\ closing' \in {closing, [closing EXCEPT ![j] = IF @ = 0 THEN c[2] ELSE @]}
       /\ pc' = [pc EXCEPT ![c] = "net"]
       /\ gaveup' = IF \E k \in 1 .. sent[j] : pc[<<j, k>>] \in Open
                    THEN gaveup \cup {j} ELSE gaveup
    /\ UNCHANGED <<container, tasks, late, throughputs, negative, rows, loop, fp>>

\* The container ends, whatever its trainer was doing.
Exit(j) ==
    /\ container[j] = "up" /\ container' = [container EXCEPT ![j] = "gone"]
    /\ UNCHANGED <<tasks, sent, closing, gaveup, throughputs, rows, handler, loop>>

-----------------------------------------------------------------------------
(* A handler of a call: _report_stats_impl.                                *)

Goto(c, place) == pc' = [pc EXCEPT ![c] = place]

\* The assertion, and in update the clock, read before last_time is.
Accept(c) ==
    /\ pc[c] = "net"
    /\ Goto(c, IF c[1] \in tasks THEN "timed" ELSE "done")
    /\ UNCHANGED <<trainer, tasks, late, throughputs, negative, rows, loop, fp>>

\* The sample is negative when last_time was set in between.
AddSample(c) ==
    /\ pc[c] = "timed" /\ Goto(c, "stamp")
    /\ throughputs' = [throughputs EXCEPT ![c[1]] = Append(@, c[2])]
    /\ negative' = negative \cup ({c} \cap late) /\ late' = late \ {c}
    /\ UNCHANGED <<trainer, tasks, rows, loop, fp>>

\* last_time is set: calls that have read the clock come too late.  Then
\* the file of metrics is looked for, without the lock,
Stamp(c) ==
    /\ pc[c] = "stamp" /\ Goto(c, IF fp THEN "write" ELSE "done")
    /\ late' = late \cup {d \in Call : d[1] = c[1] /\ pc[d] = "timed"}
    /\ UNCHANGED <<trainer, tasks, throughputs, negative, rows, loop, fp>>

\* and used with it, for one line or, after a sleep, two: None has no write.
Write(c) ==
    /\ pc[c] = "write" /\ Goto(c, IF fp THEN "done" ELSE "failed")
    /\ UNCHANGED <<trainer, tasks, late, throughputs, negative, rows, loop, fp>>

-----------------------------------------------------------------------------
(* The main thread.                                                        *)

\* The containers are polled one by one; that one ends after it was polled
\* is as if it ended after all were.
AllDone == tasks = {} /\ \A j \in Job : container[j] # "none"
Ended == {j \in tasks : container[j] = "gone"}

\* Mutant of Poll: the tasks are popped before they are recorded.
PollPops ==
    /\ main = "top" /\ ~AllDone /\ finished' = Ended /\ flag' = (Ended # {})
    /\ tasks' = tasks \ Ended /\ todo' = (IF Ended = {} THEN {} ELSE tasks \ Ended)
    /\ main' = (IF Ended = {} THEN "launch" ELSE "record")
    /\ UNCHANGED <<trainer, handler, throughputs, rows, cur>>

\* check_tasks: when one ended, all are recorded before it is popped.
Poll ==
    /\ main = "top" /\ ~AllDone /\ finished' = Ended /\ flag' = (Ended # {})
    /\ todo' = (IF Ended = {} THEN {} ELSE tasks)
    /\ main' = (IF Ended = {} THEN "launch" ELSE "record")
    /\ UNCHANGED <<trainer, handler, tasks, throughputs, rows, cur>>

Recording == main \in {"record", "again"}

\* Task.record: are there two samples,
Look(j) ==
    /\ Recording /\ cur[1] = None /\ j \in todo
    /\ cur' = <<j, IF Len(throughputs[j]) > 1 THEN "save" ELSE "reset">>
    /\ UNCHANGED <<trainer, handler, tasks, throughputs, rows,
                   main, finished, flag, todo>>

\* Mutant of Save: the newest is averaged too.
SaveNewest(j) ==
    /\ cur = <<j, "save">> /\ cur' = <<j, "saved">>
    /\ rows' = [rows EXCEPT ![j] = Append(@, throughputs[j])]
    /\ UNCHANGED <<trainer, handler, tasks, throughputs, main, finished, flag, todo>>

\* then a row is written: mean(throughputs[-5:-1]), with Window for 5;
Slice(q) == SubSeq(q, IF Len(q) > Window THEN Len(q) - Window + 1 ELSE 1, Len(q) - 1)
Save(j) ==
    /\ cur = <<j, "save">> /\ cur' = <<j, "saved">>
    /\ rows' = [rows EXCEPT ![j] = Append(@, Slice(throughputs[j]))]
    /\ UNCHANGED <<trainer, handler, tasks, throughputs, main, finished, flag, todo>>

\* and the samples go, those that came after the row as well.
Reset(j) ==
    /\ cur \in {<<j, "reset">>, <<j, "saved">>} /\ cur' = <<None, "look">> /\ todo' = todo \ {j}
    /\ throughputs' = [throughputs EXCEPT ![j] = <<>>]
    /\ UNCHANGED <<trainer, handler, tasks, rows, main, finished, flag>>

EndRecord ==
    /\ Recording /\ cur[1] = None /\ todo = {}
    /\ main' = (IF main = "record" THEN "pop" ELSE "top")
    /\ UNCHANGED <<trainer, handler, tasks, throughputs, rows, finished, flag, todo, cur>>

Pop ==
    /\ main = "pop" /\ tasks' = tasks \ finished /\ main' = "launch"
    /\ finished' = {}
    /\ UNCHANGED <<trainer, handler, throughputs, rows, flag, todo, cur>>

\* A job the loop finds GPUs for; which, and when, is Scheduler's matter.
Launch(j) ==
    /\ main = "launch" /\ container[j] = "none"
    /\ container' = [container EXCEPT ![j] = "up"]
    /\ tasks' = tasks \cup {j} /\ flag' = TRUE
    /\ UNCHANGED <<sent, closing, gaveup, handler, throughputs, rows,
                   main, finished, todo, cur>>

\* Every task is recorded again when one ended or was started.
EndLaunch ==
    /\ main = "launch"
    /\ main' = (IF flag THEN "again" ELSE "top")
    /\ todo' = (IF flag THEN tasks ELSE {}) /\ flag' = FALSE
    /\ UNCHANGED <<trainer, handler, tasks, throughputs, rows, finished, cur>>
\* Worker.close, with the lock for both files' writers.
Close ==
    /\ main = "top" /\ AllDone /\ main' = "closed" /\ fp' = FALSE
    /\ UNCHANGED <<trainer, tasks, pc, late, throughputs, negative, rows,
                   finished, flag, todo, cur>>

-----------------------------------------------------------------------------
Handle(c) == Accept(c) \/ AddSample(c) \/ Stamp(c) \/ Write(c)

MainStep ==
    \/ Poll \/ EndRecord \/ Pop \/ EndLaunch \/ Close
    \/ \E j \in Job : Look(j) \/ Save(j) \/ Reset(j)

Next ==
    \/ \E j \in Job : Send(j) \/ Exit(j) \/ Launch(j)
    \/ \E c \in Call : Handle(c)
    \/ MainStep

Spec == Init /\ [][Next]_vars

\* The main thread gets its turns, and a container ends.
Fairness == WF_vars(MainStep) /\ \A j \in Job : WF_vars(Exit(j))

FairSpec == Spec /\ Fairness

-----------------------------------------------------------------------------
(* Properties.                                                             *)

Averaged(j) == UNION {Range(rows[j][r]) : r \in DOMAIN rows[j]}

\* A row averages something, and no sample is averaged twice, though
\* check_tasks and the loop record the same tasks one right after the other.
RowsApart(j) ==
    /\ \A r \in DOMAIN rows[j] : rows[j][r] # <<>>
    /\ \A r, s \in DOMAIN rows[j] :
          \A k \in DOMAIN rows[j][r], l \in DOMAIN rows[j][s] :
              rows[j][r][k] = rows[j][s][l] => r = s /\ k = l

\* The rest of a job that close() reports, over a span of its own, is in no
\* row, and no negative sample is, unless the trainer did not wait for an
\* answer or had to close again.
RowsTypical(j) ==
    \A n \in Averaged(j) :
        /\ closing[j] # 0 /\ n >= closing[j] =>
              j \in gaveup \/ sent[j] > closing[j]
        /\ <<j, n>> \in negative => j \in gaveup

\* A line of metrics is lost, and its handler fails after it counted the
\* iterations, only for a job that is gone.
LinesKept ==
    \A c \in Call : pc[c] = "failed" =>
        c[1] \notin tasks /\ container[c[1]] = "gone"

\* What is on file is right, whatever handlers and the main thread race to.
FilesSound ==
    /\ \A j \in Job : RowsApart(j) /\ RowsTypical(j)
    /\ LinesKept

\* A job that has two samples, and is not just past the look for them, gets
\* a row of them: at its end at the latest, before its task is popped.
Due(j) ==
    /\ container[j] = "up" /\ Len(throughputs[j]) > 1
    /\ cur \notin {<<j, "reset">>, <<j, "saved">>}
Recorded == \A j \in Job : Due(j) ~> cur = <<j, "saved">>

-----------------------------------------------------------------------------
(* What holds besides, for the proofs of RecordsProofs.                    *)

TypeOK ==
    /\ container \in [Job -> {"none", "up", "gone"}]
    /\ tasks \subseteq Job /\ finished \subseteq Job /\ todo \subseteq Job
    /\ gaveup \subseteq Job
    /\ sent \in [Job -> Nat] /\ closing \in [Job -> Nat]
    /\ pc \in [Call -> Open \cup {"none", "done", "failed"}]
    /\ late \subseteq Call /\ negative \subseteq Call
    /\ throughputs \in [Job -> Seq(Nat)] /\ rows \in [Job -> Seq(Seq(Nat))]
    /\ main \in {"top", "record", "pop", "launch", "again", "closed"}
    /\ flag \in BOOLEAN /\ fp \in BOOLEAN
    /\ cur \in (Job \cup {None}) \X {"look", "save", "saved", "reset"}

\* The file of metrics is closed when no container is left.
TasksUp ==
    /\ \A j \in Job : container[j] = "up" => j \in tasks
    /\ \A j \in finished : container[j] = "gone"
    /\ ~fp => main = "closed" /\ AllDone
    /\ \A c \in Call : pc[c] = "failed" => ~fp

\* A sample is of a handler that has added it, and is in one place, except
\* between the row and the reset.
Samples ==
    \A j \in Job :
        /\ \A k \in 1 .. Calls[j] : k > sent[j] => pc[<<j, k>>] = "none"
        /\ \A n \in Range(throughputs[j]) \cup Averaged(j) :
              /\ n \in 1 .. Calls[j]
              /\ pc[<<j, n>>] \in {"stamp", "write", "done", "failed"}
        /\ \A i, k \in DOMAIN throughputs[j] :
              throughputs[j][i] = throughputs[j][k] => i = k
        /\ cur # <<j, "saved">> => Range(throughputs[j]) \cap Averaged(j) = {}
        /\ cur = <<j, "save">> => Len(throughputs[j]) > 1

\* While a trainer waits for every answer its reports are handled in order.
InTurn ==
    \A j \in Job \ gaveup :
        /\ \A m, n \in 1 .. Calls[j] : m < n /\ n <= sent[j] => pc[<<j, m>>] \notin Open
        /\ \A i, k \in DOMAIN throughputs[j] : i < k => throughputs[j][i] < throughputs[j][k]
        /\ \A n \in 1 .. Calls[j] : <<j, n>> \notin late \cup negative

IInv == TypeOK /\ TasksUp /\ Samples /\ InTurn /\ FilesSound

=============================================================================
