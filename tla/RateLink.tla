------------------------------ MODULE RateLink ------------------------------
(***************************************************************************)
(* The link over which high-priority processes tell the low-priority ones  *)
(* of a GPU how fast they run: a Unix stream socket in a directory all     *)
(* containers mount.  A sender is a rate_watcher thread of                 *)
(* src/hijack/src/high_priority_hijack_call.c, a manager a limit_manager   *)
(* thread of low_priority_hijack_call.c.  What a manager makes of the      *)
(* samples is in LimitManager; here it is who is connected to whom, what   *)
(* is on the way, and which descriptors are open.                          *)
(*                                                                         *)
(* A process may run two such threads: two launching threads may both find *)
(* the device inactive.  It ends at any point, all its threads at once,    *)
(* or is ended by LOGGER(FATAL, ...), which exits.  SIGPIPE is ignored     *)
(* (Python ignores it): a write to a closed socket fails.                  *)
(***************************************************************************)
EXTENDS Integers, Sequences, FiniteSets

CONSTANTS
    Sender,     \* rate_watcher threads of high-priority processes
    Manager,    \* limit_manager threads of low-priority processes
    Process,    \* the processes
    Placements, \* which process a thread is of: functions to choose from
    None,       \* no thread
    FdLimit,    \* bound: descriptors the link may have open, by process
    Buffer      \* bound: unread values a connection holds

Thread == Sender \cup Manager

ASSUME LinkAssumption ==
    /\ IsFiniteSet(Sender) /\ IsFiniteSet(Manager)
    /\ Sender \cap Manager = {} /\ None \notin Thread
    /\ Placements \subseteq [Thread -> Process]
    /\ \A h \in Placements, s \in Sender, m \in Manager : h[s] # h[m]
    /\ FdLimit \in [Process -> Nat] /\ Buffer \in Nat \ {0}

VARIABLES
    host,    \* the process of each thread
    file,    \* the manager whose socket the path names, or None
    pc,      \* where a thread is
    peer,    \* of a sender: the manager its connection leads to
    data,    \* of a sender: what it wrote and nobody read yet
    conn,    \* of a manager: the sender of connfd
    queue,   \* of a manager: connections not yet accepted
    flag,    \* g_rate_control_flag of a process
    fds,     \* descriptors a process has open for connections
    lost,    \* history: those of them nothing refers to any more
    fatal,   \* history: the call whose failure ended a process, or "none"
    raced    \* history: managers that saw another bind between their unlink
             \* and their bind

chan  == <<peer, data, conn, queue>>
count == <<fds, lost>>
vars  == <<host, file, pc, peer, data, conn, queue, flag, fds, lost, fatal, raced>>

Of(p) == {t \in Thread : host[t] = p}
Dead(t) == pc[t] = "dead"

\* A process of a placement that runs neither kind has no part in anything.
Init ==
    /\ host \in Placements
    /\ file = None
    /\ pc = [t \in Thread |-> "off"]
    /\ peer = [s \in Sender |-> None] /\ data = [s \in Sender |-> <<>>]
    /\ conn = [m \in Manager |-> None] /\ queue = [m \in Manager |-> <<>>]
    /\ flag = [p \in Process |-> 0]
    /\ fds = [p \in Process |-> 0] /\ lost = [p \in Process |-> 0]
    /\ fatal = [p \in Process |-> "none"] /\ raced = {}

Goto(t, place) == pc' = [pc EXCEPT ![t] = place]

Leads(s, p) == peer[s] # None /\ host[peer[s]] = p

\* The process ends with all its threads and what the kernel kept for them:
\* its descriptors, the backlogs, values nobody can read now.  The socket
\* file stays, and so does what the process wrote to others.
Die(p) ==
    /\ pc' = [t \in Thread |-> IF host[t] = p THEN "dead" ELSE pc[t]]
    /\ conn' = [m \in Manager |-> IF host[m] = p THEN None ELSE conn[m]]
    /\ queue' = [m \in Manager |-> IF host[m] = p THEN <<>> ELSE queue[m]]
    /\ data' = [s \in Sender |-> IF Leads(s, p) THEN <<>> ELSE data[s]]
    /\ flag' = [flag EXCEPT ![p] = 0] /\ fds' = [fds EXCEPT ![p] = 0]
    /\ UNCHANGED <<host, file, peer, lost, raced>>

Killed(p) ==
    /\ \E t \in Of(p) : ~Dead(t)
    /\ Die(p) /\ UNCHANGED fatal

\* LOGGER(FATAL, ...) exits.  LOGGER of any level opens /tmp/cudalog and
\* writes to the stream without looking: without a descriptor that is fatal.
Abort(p, call) == Die(p) /\ fatal' = [fatal EXCEPT ![p] = call]
Spare(p) == fds[p] < FdLimit[p]

-----------------------------------------------------------------------------
(* The sender: rate_watcher, rio_writen and open_clientfd.                 *)

StartSender(s) ==
    /\ pc[s] = "off" /\ Goto(s, "open")
    /\ UNCHANGED <<host, file, chan, flag, count, fatal, raced>>

\* socket() fails when no descriptor is left.
NoSocket(s) ==
    /\ pc[s] = "open" /\ ~Spare(host[s])
    /\ Abort(host[s], "socket")

\* There is no file: the new descriptor is not closed.
Miss(s) ==
    /\ pc[s] = "open" /\ Spare(host[s]) /\ file = None
    /\ fds' = [fds EXCEPT ![host[s]] = @ + 1]
    /\ lost' = [lost EXCEPT ![host[s]] = @ + 1]
    /\ UNCHANGED <<host, file, pc, chan, flag, fatal, raced>>

\* Mutant of Refused: the descriptor is not closed here either.
RefusedLeaks(s) ==
    /\ pc[s] = "open" /\ Spare(host[s]) /\ file # None /\ Dead(file)
    /\ fds' = [fds EXCEPT ![host[s]] = @ + 1]
    /\ UNCHANGED <<host, file, pc, chan, flag, lost, fatal, raced>>

\* Nobody listens any more: the failure is logged with the descriptor still
\* open, which is then closed, and the sender sleeps 100 ms.
Refused(s) ==
    /\ pc[s] = "open" /\ Spare(host[s]) /\ file # None /\ Dead(file)
    /\ IF fds[host[s]] + 1 < FdLimit[host[s]] THEN UNCHANGED vars
                                              ELSE Abort(host[s], "log")

\* Mutant of Connect: after a reconnection the samples just go on.
ConnectResume(s) ==
    /\ pc[s] = "open" /\ Spare(host[s]) /\ file # None /\ ~Dead(file)
    /\ peer' = [peer EXCEPT ![s] = file]
    /\ data' = [data EXCEPT ![s] = <<>>]
    /\ queue' = [queue EXCEPT ![file] = Append(@, s)]
    /\ fds' = [fds EXCEPT ![host[s]] = @ + 1]
    /\ Goto(s, IF peer[s] = None THEN "first" ELSE "rates")
    /\ UNCHANGED <<host, file, conn, flag, lost, fatal, raced>>

\* The connection waits in the backlog until the manager accepts it, and
\* takes what is written to it meanwhile.
Connect(s) ==
    /\ pc[s] = "open" /\ Spare(host[s]) /\ file # None /\ ~Dead(file)
    /\ peer' = [peer EXCEPT ![s] = file]
    /\ data' = [data EXCEPT ![s] = <<>>]
    /\ queue' = [queue EXCEPT ![file] = Append(@, s)]
    /\ fds' = [fds EXCEPT ![host[s]] = @ + 1]
    /\ Goto(s, "first")
    /\ UNCHANGED <<host, file, conn, flag, lost, fatal, raced>>

\* max_rate comes first, before any sample.
SendMax(s) ==
    /\ pc[s] = "first" /\ ~Dead(peer[s])
    /\ data' = [data EXCEPT ![s] = Append(@, "max")]
    /\ Goto(s, "rates")
    /\ UNCHANGED <<host, file, peer, conn, queue, flag, count, fatal, raced>>

\* The peer ended in between: "continue" leaves the descriptor open.
MaxFails(s) ==
    /\ pc[s] = "first" /\ Dead(peer[s])
    /\ IF Spare(host[s])
         THEN /\ lost' = [lost EXCEPT ![host[s]] = @ + 1]
              /\ Goto(s, "open")
              /\ UNCHANGED <<host, file, chan, flag, fds, fatal, raced>>
         ELSE Abort(host[s], "log")

\* Mutant of SendRate: a full buffer counts as an error.
SendRateGivesUp(s) ==
    /\ pc[s] = "rates" /\ ~Dead(peer[s])
    /\ \/ /\ Len(data[s]) < Buffer
          /\ data' = [data EXCEPT ![s] = Append(@, "rate")]
          /\ UNCHANGED <<pc, fds>>
       \/ /\ Len(data[s]) = Buffer
          /\ fds' = [fds EXCEPT ![host[s]] = @ - 1]
          /\ Goto(s, "open") /\ UNCHANGED data
    /\ UNCHANGED <<host, file, peer, conn, queue, flag, lost, fatal, raced>>

\* A sample every 500 ms; write blocks while the buffer is full.
SendRate(s) ==
    /\ pc[s] = "rates" /\ ~Dead(peer[s]) /\ Len(data[s]) < Buffer
    /\ data' = [data EXCEPT ![s] = Append(@, "rate")]
    /\ UNCHANGED <<host, file, pc, peer, conn, queue, flag, count, fatal, raced>>

\* Mutants of RateFails: the sender ends with its session; it does not close.
RateFailsEnds(s) ==
    /\ pc[s] = "rates" /\ Dead(peer[s])
    /\ fds' = [fds EXCEPT ![host[s]] = @ - 1]
    /\ Goto(s, "over")
    /\ UNCHANGED <<host, file, chan, flag, lost, fatal, raced>>

RateFailsOpen(s) ==
    /\ pc[s] = "rates" /\ Dead(peer[s])
    /\ Goto(s, "open")
    /\ UNCHANGED <<host, file, chan, flag, fds, lost, fatal, raced>>

\* The peer ended: the session is closed and the sender starts again.
RateFails(s) ==
    /\ pc[s] = "rates" /\ Dead(peer[s])
    /\ IF Spare(host[s])
         THEN /\ fds' = [fds EXCEPT ![host[s]] = @ - 1]
              /\ Goto(s, "open")
              /\ UNCHANGED <<host, file, chan, flag, lost, fatal, raced>>
         ELSE Abort(host[s], "log")

-----------------------------------------------------------------------------
(* The manager: open_listenfd, then limit_manager's loop.                  *)

\* Mutant of Unlink: the file of a process that ended is left where it is.
UnlinkNot(m) ==
    /\ pc[m] = "off"
    /\ Goto(m, IF Spare(host[m]) THEN "bind" ELSE "nosocket")
    /\ UNCHANGED <<host, file, chan, flag, count, fatal, raced>>

\* The file is removed, whoever listens behind it, also when socket() found
\* no descriptor before: that is only printed.
Unlink(m) ==
    /\ pc[m] = "off" /\ file' = None
    /\ Goto(m, IF Spare(host[m]) THEN "bind" ELSE "nosocket")
    /\ UNCHANGED <<host, chan, flag, count, fatal, raced>>

\* Mutant of Bind: the path is free at any rate (say, a name of its own).
BindAlways(m) ==
    /\ pc[m] = "bind"
    /\ file' = m /\ Goto(m, "accept")
    /\ UNCHANGED <<host, chan, flag, count, fatal, raced>>

\* bind and listen; whatever fails there is only printed.
Bind(m) ==
    /\ pc[m] = "bind"
    /\ IF file = None
         THEN /\ file' = m /\ Goto(m, "accept")
              /\ raced' = raced \cup {n \in Manager \ {m} : pc[n] = "bind"}
         ELSE Goto(m, "unbound") /\ UNCHANGED <<file, raced>>
    /\ UNCHANGED <<host, chan, flag, count, fatal>>

\* accept fails on a socket that does not listen, and where there is no
\* descriptor, for the listening socket before or for the connection now.
AcceptFails(m) ==
    \/ pc[m] = "unbound" /\ Abort(host[m], "unbound")
    \/ pc[m] = "nosocket" /\ Abort(host[m], "descriptor")
    \/ /\ pc[m] = "accept" /\ queue[m] # <<>> /\ ~Spare(host[m])
       /\ Abort(host[m], "descriptor")

\* accept fails for a reason of the system's: a signal interrupts it, say.
AcceptErrs(m) ==
    /\ pc[m] = "accept"
    /\ Abort(host[m], "accept")

\* A connection is accepted, but its address cannot be translated.
NameFails(m) ==
    /\ pc[m] = "accept" /\ queue[m] # <<>> /\ Spare(host[m])
    /\ Abort(host[m], "getnameinfo")

Accept(m) ==
    /\ pc[m] = "accept" /\ queue[m] # <<>> /\ Spare(host[m])
    /\ conn' = [conn EXCEPT ![m] = Head(queue[m])]
    /\ queue' = [queue EXCEPT ![m] = Tail(@)]
    /\ fds' = [fds EXCEPT ![host[m]] = @ + 1]
    /\ Goto(m, "max")
    /\ UNCHANGED <<host, file, peer, data, flag, lost, fatal, raced>>

\* A session: until now no limit was in force, and the samples to come mean
\* something against this max_rate only.
ReadMax(m) ==
    /\ pc[m] = "max" /\ data[conn[m]] # <<>>
    /\ data' = [data EXCEPT ![conn[m]] = Tail(@)]
    /\ flag' = [flag EXCEPT ![host[m]] = 1]
    /\ Goto(m, "session")
    /\ UNCHANGED <<host, file, peer, conn, queue, count, fatal, raced>>

\* The peer went before it sent max_rate: "continue" leaves connfd open.
MaxMissing(m) ==
    /\ pc[m] = "max" /\ data[conn[m]] = <<>> /\ Dead(conn[m])
    /\ conn' = [conn EXCEPT ![m] = None]
    /\ lost' = [lost EXCEPT ![host[m]] = @ + 1]
    /\ Goto(m, "accept")
    /\ UNCHANGED <<host, file, peer, data, queue, flag, fds, fatal, raced>>

\* A sample, for profiling or for the limit.
ReadRate(m) ==
    /\ pc[m] = "session" /\ data[conn[m]] # <<>>
    /\ data' = [data EXCEPT ![conn[m]] = Tail(@)]
    /\ UNCHANGED <<host, file, pc, peer, conn, queue, flag, count, fatal, raced>>

\* Mutants of HangUp: the flag stays set; an end of file is read again.
HangUpLimited(m) ==
    /\ pc[m] = "session" /\ data[conn[m]] = <<>> /\ Dead(conn[m])
    /\ conn' = [conn EXCEPT ![m] = None]
    /\ fds' = [fds EXCEPT ![host[m]] = @ - 1]
    /\ Goto(m, "accept")
    /\ UNCHANGED <<host, file, peer, data, queue, flag, lost, fatal, raced>>

\* End of file: connfd is closed, and nothing limits the process any more.
HangUp(m) ==
    /\ pc[m] = "session" /\ data[conn[m]] = <<>> /\ Dead(conn[m])
    /\ conn' = [conn EXCEPT ![m] = None]
    /\ fds' = [fds EXCEPT ![host[m]] = @ - 1]
    /\ flag' = [flag EXCEPT ![host[m]] = 0]
    /\ Goto(m, "accept")
    /\ UNCHANGED <<host, file, peer, data, queue, lost, fatal, raced>>

\* A session is over, but close reports an error.
CloseFails(m) ==
    /\ pc[m] = "session" /\ data[conn[m]] = <<>> /\ Dead(conn[m])
    /\ Abort(host[m], "close")

-----------------------------------------------------------------------------
SenderStep(s) ==
    \/ NoSocket(s) \/ Miss(s) \/ Refused(s) \/ Connect(s)
    \/ SendMax(s) \/ MaxFails(s) \/ SendRate(s) \/ RateFails(s)

ManagerStep(m) ==
    \/ Bind(m) \/ AcceptFails(m) \/ Accept(m)
    \/ ReadMax(m) \/ MaxMissing(m) \/ ReadRate(m) \/ HangUp(m)

\* Calls the system may let fail at any time; the program then exits.
SystemFails(m) == AcceptErrs(m) \/ NameFails(m) \/ CloseFails(m)

Next ==
    \/ \E s \in Sender : StartSender(s) \/ SenderStep(s)
    \/ \E m \in Manager : Unlink(m) \/ ManagerStep(m) \/ SystemFails(m)
    \/ \E p \in Process : Killed(p)

Spec == Init /\ [][Next]_vars

\* The threads of a live process run; nobody has to start or to end, and no
\* call has to fail.
Fairness ==
    /\ \A s \in Sender : WF_vars(SenderStep(s))
    /\ \A m \in Manager : WF_vars(ManagerStep(m))

FairSpec == Spec /\ Fairness

-----------------------------------------------------------------------------
(* Properties.                                                             *)

SenderPc  == {"off", "open", "first", "rates", "dead"}
ManagerPc == {"off", "bind", "nosocket", "unbound", "accept", "max", "session", "dead"}
Calls == {"socket", "log", "descriptor", "unbound", "accept", "getnameinfo", "close"}

TypeOK ==
    /\ host \in Placements
    /\ file \in Manager \cup {None}
    /\ pc \in [Thread -> SenderPc \cup ManagerPc]
    /\ \A s \in Sender : pc[s] \in SenderPc
    /\ \A m \in Manager : pc[m] \in ManagerPc
    /\ peer \in [Sender -> Manager \cup {None}]
    /\ data \in [Sender -> Seq({"max", "rate"})]
    /\ conn \in [Manager -> Sender \cup {None}]
    /\ queue \in [Manager -> Seq(Sender)]
    /\ flag \in [Process -> {0, 1}]
    /\ fds \in [Process -> Nat] /\ lost \in [Process -> Nat]
    /\ fatal \in [Process -> Calls \cup {"none"}] /\ raced \subseteq Manager

Values(q) == {q[k] : k \in DOMAIN q}
Waits(s, m) == s \in Values(queue[m])
Talks(s, m) == pc[m] \in {"max", "session"} /\ conn[m] = s

\* The values on the wire are bare doubles: what one means depends on its
\* place.  The first value of every session is a max_rate and no other is,
\* whoever ended and reconnected before.
Framed ==
    \A s \in Sender, m \in Manager :
        /\ Talks(s, m) /\ pc[m] = "session" => "max" \notin Values(data[s])
        /\ /\ Waits(s, m) \/ (Talks(s, m) /\ pc[m] = "max")
           /\ data[s] # <<>>
           => Head(data[s]) = "max" /\ "max" \notin Values(Tail(data[s]))

\* No sender is heard by two managers, or waits with one twice:
\* its samples go to one process, in the order it took them.
OneManager ==
    \A s \in Sender, m \in Manager :
        Waits(s, m) \/ Talks(s, m) =>
            /\ peer[s] = m
            /\ ~(Waits(s, m) /\ Talks(s, m))
            /\ \A k, l \in DOMAIN queue[m] :
                  queue[m][k] = s /\ queue[m][l] = s => k = l

Open(p) == {t \in Of(p) : pc[t] \in {"first", "rates", "max", "session"}}

\* A live process has open the descriptors of its connections and those it
\* lost: retries against a socket nobody listens on, and sessions that came
\* to an end, leave none behind.
Balance ==
    \A p \in Process :
        (\E t \in Of(p) : ~Dead(t)) => fds[p] = lost[p] + Cardinality(Open(p))

\* Where nothing of the system's fails, the link ends a process only when
\* its descriptors ran out, the ones lost and one for each of its threads, or
\* when another manager bound the path between the unlink and the bind of one
\* of its own.
Short(p) == lost[p] + Cardinality(Of(p)) >= FdLimit[p]

FatalExplained ==
    \A p \in Process :
        /\ fatal[p] \in {"socket", "log", "descriptor"} => Short(p)
        /\ fatal[p] = "unbound" => \E m \in Manager : host[m] = p /\ m \in raced

Served(s) == peer[s] # None /\ pc[peer[s]] = "session" /\ conn[peer[s]] = s
Lone(m) == \A n \in Manager \ {m} : host[n] # host[m]

\* While a low-priority process listens, a high-priority one that stays, and
\* is the last, is served in the end: past dead peers, stale connections
\* before its own, and a socket file of a process that ended.  Its samples
\* then limit the process, unless two managers there undo each other's flag.
Serves ==
    \A s \in Sender :
        (/\ <>[](pc[s] \notin {"off", "dead"})
         /\ <>[](file # None /\ ~Dead(file))
         /\ <>[](\A t \in Sender \ {s} : pc[t] \in {"off", "dead"})) =>
            <>[](Served(s) /\ (Lone(peer[s]) => flag[host[peer[s]]] = 1))

\* Nobody is limited for the sake of nobody: when no high-priority process
\* is left, every low-priority one is free of the limit in the end, however
\* many connections of dead peers its manager finds waiting.
Freed ==
    <>[](\A s \in Sender : pc[s] \in {"off", "dead"}) =>
        <>[](\A m \in Manager : Dead(m) \/ flag[host[m]] = 0)

-----------------------------------------------------------------------------
(* What holds besides, for the proofs of RateLinkProofs.                   *)

\* A manager has connections only while it listens; the file names one that
\* bound.
ManagerPlace ==
    \A m \in Manager :
        /\ pc[m] \in {"off", "bind", "nosocket", "unbound", "dead"} => queue[m] = <<>>
        /\ pc[m] \in {"max", "session"} => conn[m] \in Sender
        /\ file = m => pc[m] \notin {"off", "bind", "nosocket", "unbound"}

\* Nobody holds a connection of a sender that has none; a new one is empty
\* and no session yet; one written to and not yet read is not empty.
SenderPlace ==
    \A s \in Sender :
        /\ pc[s] \in {"off", "open"} =>
              \A m \in Manager : ~Waits(s, m) /\ ~Talks(s, m)
        /\ pc[s] \in {"first", "rates"} => peer[s] # None
        /\ pc[s] = "first" =>
              /\ data[s] = <<>>
              /\ \A m \in Manager : Talks(s, m) => pc[m] = "max"
        /\ pc[s] = "rates" =>
              \A m \in Manager :
                  Waits(s, m) \/ (Talks(s, m) /\ pc[m] = "max") => data[s] # <<>>

\* A manager that finds the path taken, or found it so, was raced; one
\* without a socket is in a process short of descriptors.
Doomed ==
    \A m \in Manager :
        /\ pc[m] = "bind" /\ file # None => m \in raced
        /\ pc[m] = "unbound" => m \in raced
        /\ pc[m] = "nosocket" => Short(host[m])

IInv ==
    /\ TypeOK /\ ManagerPlace /\ SenderPlace
    /\ OneManager /\ Framed /\ Balance /\ FatalExplained /\ Doomed

-----------------------------------------------------------------------------
\* What the two shared jobs of one trace are told: both use the same mounts,
\* so that neither keeps the other from its socket.
NoneAborted == \A p \in Process : fatal[p] # "unbound"

=============================================================================
