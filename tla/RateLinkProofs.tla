--------------------------- MODULE RateLinkProofs ---------------------------
(***************************************************************************)
(* RateLink keeps IInv: for any number of senders, managers and processes, *)
(* and any way of placing the threads.                                     *)
(***************************************************************************)
EXTENDS RateLink, FiniteSetTheorems, TLAPS

-----------------------------------------------------------------------------
(* Sequences: what is in a queue after one operation on it.                *)

LEMMA ValuesOfEmpty == Values(<<>>) = {}
BY DEF Values

LEMMA AppendFacts ==
    ASSUME NEW S, NEW q \in Seq(S), NEW e
    PROVE  /\ Len(q) \in Nat /\ DOMAIN q = 1 .. Len(q)
           /\ DOMAIN Append(q, e) = 1 .. (Len(q) + 1)
           /\ \A k \in 1 .. Len(q) : Append(q, e)[k] = q[k]
           /\ Append(q, e)[Len(q) + 1] = e
OBVIOUS

LEMMA ValuesOfAppend ==
    ASSUME NEW S, NEW q \in Seq(S), NEW e
    PROVE  Values(Append(q, e)) = Values(q) \cup {e}
<1>1. Len(q) \in Nat /\ DOMAIN q = 1 .. Len(q)
  OBVIOUS
<1>2. /\ DOMAIN Append(q, e) = 1 .. (Len(q) + 1)
      /\ \A k \in 1 .. Len(q) : Append(q, e)[k] = q[k]
      /\ Append(q, e)[Len(q) + 1] = e
  OBVIOUS
<1> QED
  BY <1>1, <1>2 DEF Values

LEMMA ValuesOfTail ==
    ASSUME NEW S, NEW q \in Seq(S), q # <<>>
    PROVE  /\ Head(q) \in S /\ Tail(q) \in Seq(S)
           /\ Values(q) = {Head(q)} \cup Values(Tail(q))
<1>1. Len(q) \in Nat \ {0} /\ DOMAIN q = 1 .. Len(q)
  OBVIOUS
<1>2. /\ Tail(q) \in Seq(S) /\ DOMAIN Tail(q) = 1 .. (Len(q) - 1)
      /\ \A k \in 1 .. (Len(q) - 1) : Tail(q)[k] = q[k + 1]
      /\ Head(q) = q[1]
  OBVIOUS
<1>3. ASSUME NEW k \in DOMAIN q PROVE q[k] \in {Head(q)} \cup Values(Tail(q))
  <2>1. CASE k = 1
    BY <1>2, <2>1
  <2>2. CASE k # 1
    <3>1. k - 1 \in DOMAIN Tail(q) /\ Tail(q)[k - 1] = q[k]
      BY <1>1, <1>2, <2>2
    <3> QED
      BY <3>1 DEF Values
  <2> QED
    BY <2>1, <2>2
<1>4. ASSUME NEW k \in DOMAIN Tail(q) PROVE Tail(q)[k] \in Values(q)
  <2>1. k + 1 \in DOMAIN q /\ q[k + 1] = Tail(q)[k]
    BY <1>1, <1>2
  <2> QED
    BY <2>1 DEF Values
<1>5. Head(q) \in Values(q) /\ Head(q) \in S
  BY <1>1, <1>2 DEF Values
<1> QED
  BY <1>2, <1>3, <1>4, <1>5 DEF Values

Distinct(q) == \A k, l \in DOMAIN q : q[k] = q[l] => k = l

LEMMA DistinctAppend ==
    ASSUME NEW S, NEW q \in Seq(S), NEW e, Distinct(q), e \notin Values(q)
    PROVE  Distinct(Append(q, e))
<1>1. Len(q) \in Nat /\ DOMAIN q = 1 .. Len(q)
  OBVIOUS
<1>2. /\ DOMAIN Append(q, e) = 1 .. (Len(q) + 1)
      /\ \A k \in 1 .. Len(q) : Append(q, e)[k] = q[k]
      /\ Append(q, e)[Len(q) + 1] = e
  OBVIOUS
<1> QED
  BY <1>1, <1>2 DEF Values, Distinct

LEMMA DistinctTail ==
    ASSUME NEW S, NEW q \in Seq(S), q # <<>>, Distinct(q)
    PROVE  Distinct(Tail(q)) /\ Head(q) \notin Values(Tail(q))
<1>1. Len(q) \in Nat \ {0} /\ DOMAIN q = 1 .. Len(q)
  OBVIOUS
<1>2. /\ DOMAIN Tail(q) = 1 .. (Len(q) - 1)
      /\ \A k \in 1 .. (Len(q) - 1) : Tail(q)[k] = q[k + 1]
      /\ Head(q) = q[1]
  OBVIOUS
<1>3. ASSUME NEW k \in DOMAIN Tail(q) PROVE Tail(q)[k] # Head(q)
  BY <1>1, <1>2 DEF Distinct
<1>4. ASSUME NEW k \in DOMAIN Tail(q), NEW l \in DOMAIN Tail(q), Tail(q)[k] = Tail(q)[l]
      PROVE  k = l
  <2>1. k + 1 \in DOMAIN q /\ l + 1 \in DOMAIN q /\ q[k + 1] = q[l + 1]
    BY <1>1, <1>2, <1>4
  <2> QED
    BY <2>1, <1>1, <1>2 DEF Distinct
<1> QED
  BY <1>3, <1>4 DEF Values, Distinct

LEMMA HeadTailOfAppend ==
    ASSUME NEW S, NEW q \in Seq(S), NEW e \in S, q # <<>>
    PROVE  /\ Head(Append(q, e)) = Head(q)
           /\ Values(Tail(Append(q, e))) \subseteq Values(Tail(q)) \cup {e}
<1>1. Len(q) \in Nat \ {0} /\ DOMAIN q = 1 .. Len(q)
  OBVIOUS
<1>2. /\ DOMAIN Tail(q) = 1 .. (Len(q) - 1)
      /\ \A k \in 1 .. (Len(q) - 1) : Tail(q)[k] = q[k + 1]
  OBVIOUS
<1>3. /\ DOMAIN Tail(Append(q, e)) = 1 .. Len(q)
      /\ \A k \in 1 .. Len(q) : Tail(Append(q, e))[k] = Append(q, e)[k + 1]
      /\ \A k \in 1 .. Len(q) : Append(q, e)[k] = q[k]
      /\ Append(q, e)[Len(q) + 1] = e /\ Head(Append(q, e)) = q[1] /\ Head(q) = q[1]
  OBVIOUS
<1>4. ASSUME NEW k \in 1 .. Len(q)
      PROVE  Tail(Append(q, e))[k] \in Values(Tail(q)) \cup {e}
  <2>1. CASE k = Len(q)
    BY <1>3, <1>4, <2>1
  <2>2. CASE k # Len(q)
    <3>1. k \in 1 .. (Len(q) - 1) /\ k + 1 \in 1 .. Len(q)
      <4>1. ASSUME NEW n \in Nat, k \in 1 .. n, k # n
            PROVE  k \in 1 .. (n - 1) /\ k + 1 \in 1 .. n
        BY <4>1
      <4> QED
        BY <1>1, <2>2, <4>1
    <3>2. k \in DOMAIN Tail(q) /\ Tail(q)[k] = q[k + 1]
      BY <3>1, <1>2
    <3>3. Tail(Append(q, e))[k] = q[k + 1]
      BY <3>1, <1>3
    <3> QED
      BY <3>2, <3>3 DEF Values
  <2> QED
    BY <2>1, <2>2
<1> QED
  BY <1>3, <1>4 DEF Values

-----------------------------------------------------------------------------
(* Init, and the steps but for the descriptors.                            *)

\* What does not count descriptors.
Shape == ManagerPlace /\ SenderPlace /\ OneManager /\ Framed

LEMMA InitInv == Init => IInv
<1> SUFFICES ASSUME Init PROVE IInv
  OBVIOUS
<1>1. TypeOK
  BY LinkAssumption DEF Init, TypeOK, Thread, SenderPc, ManagerPc, Calls
<1>2. \A s \in Sender, m \in Manager : ~Waits(s, m) /\ ~Talks(s, m)
  BY ValuesOfEmpty DEF Init, Waits, Talks, Thread
<1>3. ManagerPlace /\ SenderPlace /\ OneManager /\ Framed
  BY <1>2, LinkAssumption DEF Init, ManagerPlace, SenderPlace, OneManager, Framed, Thread
<1>4. \A p \in Process : Open(p) = {}
  BY DEF Init, Open, Of
<1>5. Cardinality({}) = 0
  BY FS_EmptySet
<1>6. Balance
  <2> SUFFICES ASSUME NEW p \in Process PROVE fds[p] = lost[p] + Cardinality(Open(p))
    BY DEF Balance
  <2>1. Cardinality(Open(p)) = 0
    BY <1>4, <1>5
  <2>2. fds[p] = 0 /\ lost[p] = 0
    BY DEF Init
  <2> QED
    BY <2>1, <2>2
<1>7. FatalExplained /\ Doomed
  BY LinkAssumption DEF Init, FatalExplained, Doomed, Thread
<1> QED
  BY <1>1, <1>3, <1>6, <1>7 DEF IInv

\* The end of a process, whatever ended it.
LEMMA DieType ==
    ASSUME TypeOK, NEW p \in Process, Die(p),
           fatal' \in [Process -> Calls \cup {"none"}]
    PROVE  TypeOK'
<1>1. pc' \in [Thread -> SenderPc \cup ManagerPc]
  BY DEF TypeOK, Die, SenderPc, ManagerPc
<1>2. /\ \A s \in Sender : pc'[s] \in SenderPc
      /\ \A m \in Manager : pc'[m] \in ManagerPc
  BY DEF TypeOK, Die, SenderPc, ManagerPc, Thread
<1>3. data' \in [Sender -> Seq({"max", "rate"})] /\ queue' \in [Manager -> Seq(Sender)]
  BY DEF TypeOK, Die
<1>4. conn' \in [Manager -> Sender \cup {None}]
  BY DEF TypeOK, Die
<1>5. flag' \in [Process -> {0, 1}] /\ fds' \in [Process -> Nat]
  BY DEF TypeOK, Die
<1>6. UNCHANGED <<host, file, peer, lost, raced>>
  BY DEF Die
<1> QED
  BY <1>1, <1>2, <1>3, <1>4, <1>5, <1>6 DEF TypeOK

LEMMA DieHolds ==
    ASSUME TypeOK, NEW p \in Process, Die(p), NEW s \in Sender, NEW m \in Manager
    PROVE  /\ Waits(s, m)' => Waits(s, m) /\ queue'[m] = queue[m]
           /\ Talks(s, m)' => Talks(s, m)
           /\ (Waits(s, m) \/ Talks(s, m))' => host[m] # p /\ pc'[m] = pc[m]
<1>1. CASE host[m] = p
  <2>1. queue'[m] = <<>> /\ pc'[m] = "dead"
    BY <1>1 DEF TypeOK, Die, Thread
  <2> QED
    BY <2>1, ValuesOfEmpty DEF Waits, Talks
<1>2. CASE host[m] # p
  <2>1. queue'[m] = queue[m] /\ pc'[m] = pc[m] /\ conn'[m] = conn[m]
    BY <1>2 DEF TypeOK, Die, Thread
  <2> QED
    BY <2>1, <1>2 DEF Waits, Talks
<1> QED
  BY <1>1, <1>2

LEMMA DieShape ==
    ASSUME TypeOK, Shape, NEW p \in Process, Die(p)
    PROVE  Shape'
<1> USE DEF Shape
<1>1. ManagerPlace'
  BY LinkAssumption DEF ManagerPlace, TypeOK, Die, Thread
<1>2. SenderPlace'
  <2> SUFFICES ASSUME NEW s \in Sender
               PROVE  /\ pc'[s] \in {"off", "open"} =>
                            \A m \in Manager : ~Waits(s, m)' /\ ~Talks(s, m)'
                      /\ pc'[s] \in {"first", "rates"} => peer'[s] # None
                      /\ pc'[s] = "first" =>
                            /\ data'[s] = <<>>
                            /\ \A m \in Manager : Talks(s, m)' => pc'[m] = "max"
                      /\ pc'[s] = "rates" => \A m \in Manager :
                            (Waits(s, m) \/ (Talks(s, m) /\ pc[m] = "max"))' => data'[s] # <<>>
    BY DEF SenderPlace
  <2>1. pc'[s] # "dead" => pc'[s] = pc[s]
    BY DEF Die, Thread
  <2>2. data'[s] \in {<<>>, data[s]} /\ peer'[s] = peer[s]
    BY DEF Die, TypeOK
  <2>3. ASSUME NEW m \in Manager, (Waits(s, m) \/ Talks(s, m))'
        PROVE  data'[s] = data[s] /\ pc'[m] = pc[m]
    <3>1. peer[s] = m /\ host[m] # p /\ pc'[m] = pc[m]
      BY <2>3, DieHolds DEF OneManager
    <3> QED
      BY <3>1, LinkAssumption DEF Die, Leads, TypeOK
  <2>4. pc'[s] = "rates" => \A m \in Manager :
            (Waits(s, m) \/ (Talks(s, m) /\ pc[m] = "max"))' => data'[s] # <<>>
    BY <2>1, <2>3, DieHolds DEF SenderPlace
  <2>5. pc'[s] = "first" => \A m \in Manager : Talks(s, m)' => pc'[m] = "max"
    BY <2>1, <2>3, DieHolds DEF SenderPlace
  <2> QED
    BY <2>1, <2>2, <2>4, <2>5, DieHolds DEF SenderPlace
<1>3. OneManager'
  <2> SUFFICES ASSUME NEW s \in Sender, NEW m \in Manager, (Waits(s, m) \/ Talks(s, m))'
               PROVE  /\ peer'[s] = m
                      /\ ~(Waits(s, m)' /\ Talks(s, m)')
                      /\ \A k, l \in DOMAIN queue'[m] :
                            queue'[m][k] = s /\ queue'[m][l] = s => k = l
    BY DEF OneManager
  <2>1. host[m] # p /\ queue'[m] = queue[m] /\ peer' = peer
    BY DieHolds DEF Die, TypeOK
  <2> QED
    BY <2>1, DieHolds DEF OneManager
<1>4. Framed'
  <2> SUFFICES ASSUME NEW s \in Sender, NEW m \in Manager, (Waits(s, m) \/ Talks(s, m))'
               PROVE  (/\ Talks(s, m) /\ pc[m] = "session" => "max" \notin Values(data[s])
                       /\ /\ Waits(s, m) \/ (Talks(s, m) /\ pc[m] = "max")
                          /\ data[s] # <<>>
                          => Head(data[s]) = "max" /\ "max" \notin Values(Tail(data[s])))'
    BY DEF Framed
  <2>1. peer[s] = m /\ host[m] # p /\ pc'[m] = pc[m]
    BY DieHolds DEF OneManager
  <2>2. data'[s] = data[s]
    BY <2>1, LinkAssumption DEF Die, Leads, TypeOK
  <2> QED
    BY <2>1, <2>2, DieHolds DEF Framed
<1> QED
  BY <1>1, <1>2, <1>3, <1>4


-----------------------------------------------------------------------------
(* Types of the other steps.                                               *)

LEMMA PlaceType ==
    ASSUME TypeOK, NEW t \in Thread, NEW place, Goto(t, place),
           t \in Sender => place \in SenderPc,
           t \in Manager => place \in ManagerPc
    PROVE  /\ pc' \in [Thread -> SenderPc \cup ManagerPc]
           /\ \A s \in Sender : pc'[s] \in SenderPc
           /\ \A m \in Manager : pc'[m] \in ManagerPc
           /\ pc'[t] = place /\ \A u \in Thread \ {t} : pc'[u] = pc[u]
BY DEF TypeOK, Goto, Thread

LEMMA ThreadIn ==
    /\ \A s \in Sender : s \in Thread /\ s \notin Manager
    /\ \A m \in Manager : m \in Thread /\ m \notin Sender
BY LinkAssumption DEF Thread

\* A thread with a connection has a descriptor open for it.
LEMMA OpenFinite ==
    ASSUME NEW p \in Process
    PROVE  IsFiniteSet(Of(p)) /\ IsFiniteSet(Open(p)) /\ Open(p) \subseteq Of(p)
<1>1. IsFiniteSet(Thread)
  BY LinkAssumption, FS_Union DEF Thread
<1>2. Of(p) \in SUBSET Thread /\ Open(p) \in SUBSET Of(p)
  BY DEF Of, Open
<1> QED
  BY <1>1, <1>2, FS_Subset

LEMMA OpenCounted ==
    ASSUME TypeOK, Balance, NEW t \in Thread,
           pc[t] \in {"first", "rates", "max", "session"}
    PROVE  fds[host[t]] \in Nat \ {0}
<1> DEFINE p == host[t]
<1>1. p \in Process
  BY LinkAssumption DEF TypeOK
<1>2. t \in Open(p) /\ t \in Of(p) /\ ~Dead(t)
  BY DEF Open, Of, Dead
<1>3. fds[p] = lost[p] + Cardinality(Open(p))
  BY <1>1, <1>2 DEF Balance
<1>4. Cardinality(Open(p)) \in Nat \ {0}
  <2>1. IsFiniteSet(Open(p)) /\ Open(p) # {}
    BY <1>1, <1>2, OpenFinite
  <2> QED
    BY <2>1, FS_EmptySet, FS_CardinalityType
<1>5. lost[p] \in Nat
  BY <1>1 DEF TypeOK
<1> QED
  BY <1>3, <1>4, <1>5

LEMMA SenderType ==
    ASSUME TypeOK, Balance, NEW s \in Sender,
           \/ StartSender(s) \/ Miss(s) \/ Connect(s) \/ SendMax(s)
           \/ MaxFails(s) \/ SendRate(s) \/ RateFails(s)
           \/ Refused(s) \/ NoSocket(s)
    PROVE  TypeOK'
<1>0. s \in Thread /\ s \notin Manager /\ host[s] \in Process
  BY ThreadIn, LinkAssumption DEF TypeOK
<1>a. fatal' = [fatal EXCEPT ![host[s]] = "socket"] \/ fatal' = [fatal EXCEPT ![host[s]] = "log"]
      => fatal' \in [Process -> Calls \cup {"none"}]
  BY DEF TypeOK, Calls
<1>1. CASE StartSender(s)
  BY <1>0, <1>1, PlaceType DEF StartSender, TypeOK, SenderPc, chan, count
<1>2. CASE NoSocket(s)
  BY <1>0, <1>a, <1>2, DieType DEF NoSocket, Abort
<1>3. CASE Miss(s)
  BY <1>0, <1>3 DEF Miss, TypeOK, chan, count
<1>4. CASE Refused(s)
  <2>1. CASE UNCHANGED vars
    BY <2>1 DEF vars, TypeOK
  <2>2. CASE Abort(host[s], "log")
    BY <1>0, <1>a, <2>2, DieType DEF Abort
  <2> QED
    BY <1>4, <2>1, <2>2 DEF Refused
<1>5. CASE Connect(s)
  <2>1. file \in Manager
    BY <1>5 DEF Connect, TypeOK
  <2>2. queue' \in [Manager -> Seq(Sender)] /\ peer' \in [Sender -> Manager \cup {None}]
    BY <1>5, <2>1 DEF Connect, TypeOK
  <2>3. data' \in [Sender -> Seq({"max", "rate"})] /\ fds' \in [Process -> Nat]
    BY <1>0, <1>5 DEF Connect, TypeOK
  <2>4. Goto(s, "first") /\ UNCHANGED <<host, file, conn, flag, lost, fatal, raced>>
    BY <1>5 DEF Connect
  <2> QED
    BY <1>0, <2>2, <2>3, <2>4, PlaceType DEF TypeOK, SenderPc
<1>6. CASE SendMax(s)
  <2>1. data' \in [Sender -> Seq({"max", "rate"})]
    BY <1>6 DEF SendMax, TypeOK
  <2> QED
    BY <1>0, <1>6, <2>1, PlaceType DEF SendMax, TypeOK, SenderPc, count
<1>7. CASE MaxFails(s)
  <2>1. CASE Spare(host[s])
    <3>1. Goto(s, "open") /\ UNCHANGED <<host, file, chan, flag, fds, fatal, raced>>
      BY <1>7, <2>1 DEF MaxFails
    <3>2. lost' \in [Process -> Nat]
      <4>1. lost' = [lost EXCEPT ![host[s]] = @ + 1] /\ lost \in [Process -> Nat]
        BY <1>7, <2>1 DEF MaxFails, TypeOK
      <4> QED
        BY <1>0, <4>1
    <3> QED
      BY <1>0, <3>1, <3>2, PlaceType DEF TypeOK, SenderPc, chan
  <2>2. CASE ~Spare(host[s])
    BY <1>0, <1>a, <1>7, <2>2, DieType DEF MaxFails, Abort
  <2> QED
    BY <2>1, <2>2
<1>8. CASE SendRate(s)
  <2>1. data' \in [Sender -> Seq({"max", "rate"})]
    BY <1>8 DEF SendRate, TypeOK
  <2> QED
    BY <1>8, <2>1 DEF SendRate, TypeOK, count
<1>9. CASE RateFails(s)
  <2>1. CASE Spare(host[s])
    <3>1. fds' \in [Process -> Nat]
      <4>1. fds[host[s]] \in Nat \ {0}
        BY <1>0, <1>9, OpenCounted DEF RateFails
      <4>2. fds' = [fds EXCEPT ![host[s]] = @ - 1]
        BY <1>9, <2>1 DEF RateFails
      <4>3. fds \in [Process -> Nat]
        BY DEF TypeOK
      <4>4. fds[host[s]] - 1 \in Nat
        BY <4>1
      <4>5. fds' = [p \in Process |-> IF p = host[s] THEN fds[host[s]] - 1 ELSE fds[p]]
        BY <4>2, <4>3
      <4> QED
        BY <4>3, <4>4, <4>5
    <3> QED
      BY <1>0, <1>9, <2>1, <3>1, PlaceType DEF RateFails, TypeOK, SenderPc, chan
  <2>2. CASE ~Spare(host[s])
    BY <1>0, <1>a, <1>9, <2>2, DieType DEF RateFails, Abort
  <2> QED
    BY <2>1, <2>2
<1> QED
  BY <1>1, <1>2, <1>3, <1>4, <1>5, <1>6, <1>7, <1>8, <1>9

LEMMA ManagerType ==
    ASSUME TypeOK, Balance, ManagerPlace, NEW m \in Manager,
           Unlink(m) \/ ManagerStep(m) \/ SystemFails(m)
    PROVE  TypeOK'
<1>0. m \in Thread /\ m \notin Sender /\ host[m] \in Process
  BY ThreadIn, LinkAssumption DEF TypeOK
<1>c. pc[m] \in {"max", "session"} => conn[m] \in Sender
  BY DEF ManagerPlace
<1>1. CASE Unlink(m)
  BY <1>0, <1>1, PlaceType DEF Unlink, TypeOK, ManagerPc, chan, count
<1>2. CASE Bind(m)
  <2>1. raced' \subseteq Manager /\ file' \in Manager \cup {None}
    BY <1>2 DEF Bind, TypeOK
  <2>2. Goto(m, "accept") \/ Goto(m, "unbound")
    BY <1>2 DEF Bind
  <2> QED
    BY <1>0, <1>2, <2>1, <2>2, PlaceType DEF Bind, TypeOK, ManagerPc, chan, count
<1>3. CASE AcceptFails(m) \/ SystemFails(m)
  <2>1. \E call \in Calls : Abort(host[m], call)
    BY <1>3 DEF AcceptFails, SystemFails, AcceptErrs, NameFails, CloseFails, Calls
  <2>2. Die(host[m]) /\ fatal' \in [Process -> Calls \cup {"none"}]
    BY <2>1 DEF Abort, TypeOK
  <2> QED
    BY <1>0, <2>2, DieType
<1>4. CASE Accept(m)
  <2>1. Head(queue[m]) \in Sender /\ Tail(queue[m]) \in Seq(Sender)
    BY <1>4, ValuesOfTail DEF Accept, TypeOK
  <2>2. conn' \in [Manager -> Sender \cup {None}] /\ queue' \in [Manager -> Seq(Sender)]
    BY <1>4, <2>1 DEF Accept, TypeOK
  <2>3. fds' \in [Process -> Nat]
    BY <1>0, <1>4 DEF Accept, TypeOK
  <2> QED
    BY <1>0, <1>4, <2>2, <2>3, PlaceType DEF Accept, TypeOK, ManagerPc
<1>5. CASE ReadMax(m)
  <2>1. data' \in [Sender -> Seq({"max", "rate"})]
    BY <1>c, <1>5, ValuesOfTail DEF ReadMax, TypeOK
  <2> QED
    BY <1>0, <1>5, <2>1, PlaceType DEF ReadMax, TypeOK, ManagerPc, count
<1>6. CASE MaxMissing(m)
  BY <1>0, <1>6, PlaceType DEF MaxMissing, TypeOK, ManagerPc
<1>7. CASE ReadRate(m)
  <2>1. data' \in [Sender -> Seq({"max", "rate"})]
    BY <1>c, <1>7, ValuesOfTail DEF ReadRate, TypeOK
  <2> QED
    BY <1>7, <2>1 DEF ReadRate, TypeOK, count
<1>8. CASE HangUp(m)
  <2>1. fds' \in [Process -> Nat]
    BY <1>0, <1>8, OpenCounted DEF HangUp, TypeOK
  <2> QED
    BY <1>0, <1>8, <2>1, PlaceType DEF HangUp, TypeOK, ManagerPc
<1> QED
  BY <1>1, <1>2, <1>3, <1>4, <1>5, <1>6, <1>7, <1>8 DEF ManagerStep


-----------------------------------------------------------------------------
(* Shape of the other steps.                                               *)

\* What a step leaves alone holds as before.
LEMMA HoldsKept ==
    ASSUME conn' = conn, queue' = queue, \A m \in Manager : pc'[m] = pc[m]
    PROVE  \A s \in Sender, m \in Manager :
              (Waits(s, m)' <=> Waits(s, m)) /\ (Talks(s, m)' <=> Talks(s, m))
BY DEF Waits, Talks

LEMMA ShapeKept ==
    ASSUME Shape, UNCHANGED <<file, pc, chan>>
    PROVE  Shape'
<1>1. \A s \in Sender, m \in Manager :
          (Waits(s, m)' <=> Waits(s, m)) /\ (Talks(s, m)' <=> Talks(s, m))
  BY HoldsKept DEF chan
<1>2. ManagerPlace' /\ SenderPlace'
  BY <1>1 DEF Shape, ManagerPlace, SenderPlace, chan
<1>3. OneManager' /\ Framed'
  BY <1>1 DEF Shape, OneManager, Framed, chan
<1> QED
  BY <1>2, <1>3 DEF Shape

\* A sender moves, and perhaps appends to its data; managers stay.
LEMMA SenderMoves ==
    ASSUME TypeOK, Shape, NEW s \in Sender, NEW place \in SenderPc, Goto(s, place),
           UNCHANGED <<file, conn, queue, peer>>,
           \A t \in Sender \ {s} : data'[t] = data[t],
           place \in {"off", "open"} =>
              \A m \in Manager : ~Waits(s, m) /\ ~Talks(s, m),
           place \in {"first", "rates"} => peer[s] # None,
           place # "first",
           place = "rates" => data'[s] # <<>>,
           \A m \in Manager :
              /\ Talks(s, m) /\ pc[m] = "session" => "max" \notin Values(data'[s])
              /\ Waits(s, m) \/ (Talks(s, m) /\ pc[m] = "max") =>
                    /\ Head(data'[s]) = "max"
                    /\ "max" \notin Values(Tail(data'[s]))
    PROVE  Shape'
<1>1. /\ \A m \in Manager : pc'[m] = pc[m]
      /\ \A t \in Sender \ {s} : pc'[t] = pc[t]
      /\ pc'[s] = place
  BY ThreadIn DEF Goto, TypeOK
<1>2. \A t \in Sender, m \in Manager :
          (Waits(t, m)' <=> Waits(t, m)) /\ (Talks(t, m)' <=> Talks(t, m))
  BY <1>1, HoldsKept
<1>3. ManagerPlace'
  BY <1>1 DEF Shape, ManagerPlace
<1>4. SenderPlace'
  BY <1>1, <1>2 DEF Shape, SenderPlace
<1>5. OneManager'
  BY <1>2 DEF Shape, OneManager
<1>6. Framed'
  BY <1>1, <1>2 DEF Shape, Framed
<1> QED
  BY <1>3, <1>4, <1>5, <1>6 DEF Shape

\* A sender whose peer ended, or that has none, is held by nobody.
LEMMA NotHeld ==
    ASSUME TypeOK, Shape, NEW s \in Sender,
           pc[s] \in {"off", "open"} \/ Dead(peer[s])
    PROVE  \A m \in Manager : ~Waits(s, m) /\ ~Talks(s, m)
<1>1. CASE pc[s] \in {"off", "open"}
  BY <1>1 DEF Shape, SenderPlace
<1>2. CASE Dead(peer[s])
  <2> SUFFICES ASSUME NEW m \in Manager, Waits(s, m) \/ Talks(s, m) PROVE FALSE
    OBVIOUS
  <2>1. peer[s] = m
    BY DEF Shape, OneManager
  <2>2. pc[m] = "dead" /\ queue[m] = <<>>
    BY <1>2, <2>1 DEF Dead, Shape, ManagerPlace
  <2> QED
    BY <2>2, ValuesOfEmpty DEF Waits, Talks
<1> QED
  BY <1>1, <1>2

LEMMA ConnectShape ==
    ASSUME TypeOK, Shape, NEW s \in Sender, Connect(s)
    PROVE  Shape'
<1>1. /\ \A m \in Manager : pc'[m] = pc[m]
      /\ \A t \in Sender \ {s} : pc'[t] = pc[t]
      /\ pc'[s] = "first" /\ pc[s] = "open"
  BY ThreadIn DEF Connect, Goto, TypeOK
<1>2. /\ file \in Manager /\ file' = file /\ conn' = conn
      /\ peer'[s] = file /\ data'[s] = <<>>
      /\ \A t \in Sender \ {s} : peer'[t] = peer[t] /\ data'[t] = data[t]
      /\ queue'[file] = Append(queue[file], s)
      /\ \A m \in Manager \ {file} : queue'[m] = queue[m]
      /\ pc[file] \in ManagerPc \ {"off", "bind", "nosocket", "unbound", "dead"}
  BY DEF Connect, TypeOK, Dead, Shape, ManagerPlace
<1>3. \A m \in Manager : ~Waits(s, m) /\ ~Talks(s, m)
  BY <1>1, NotHeld
<1>4. \A t \in Sender, m \in Manager : Talks(t, m)' <=> Talks(t, m)
  BY <1>1, <1>2 DEF Talks
<1>5. \A t \in Sender, m \in Manager :
          Waits(t, m)' <=> Waits(t, m) \/ (t = s /\ m = file)
  <2>1. Values(Append(queue[file], s)) = Values(queue[file]) \cup {s}
    BY <1>2, ValuesOfAppend DEF TypeOK
  <2> QED
    BY <1>2, <2>1 DEF Waits
<1>6. ManagerPlace'
  BY <1>1, <1>2 DEF Shape, ManagerPlace
<1>7. SenderPlace'
  <2>1. None \notin Manager
    BY LinkAssumption DEF Thread
  <2> QED
    BY <1>1, <1>2, <1>3, <1>4, <1>5, <2>1 DEF Shape, SenderPlace
<1>8. OneManager'
  <2> SUFFICES ASSUME NEW t \in Sender, NEW m \in Manager, Waits(t, m)' \/ Talks(t, m)'
               PROVE  /\ peer'[t] = m
                      /\ ~(Waits(t, m)' /\ Talks(t, m)')
                      /\ \A k, l \in DOMAIN queue'[m] :
                            queue'[m][k] = t /\ queue'[m][l] = t => k = l
    BY DEF OneManager
  <2>1. CASE m # file
    BY <1>2, <1>3, <1>4, <1>5, <2>1 DEF Shape, OneManager
  <2>2. CASE m = file
    <3>1. /\ Len(queue[m]) \in Nat /\ DOMAIN queue[m] = 1 .. Len(queue[m])
          /\ DOMAIN queue'[m] = 1 .. (Len(queue[m]) + 1)
          /\ \A k \in 1 .. Len(queue[m]) : queue'[m][k] = queue[m][k]
          /\ queue'[m][Len(queue[m]) + 1] = s
      <4>1. queue[m] \in Seq(Sender) /\ queue'[m] = Append(queue[m], s)
        BY <1>2, <2>2 DEF TypeOK
      <4> QED
        BY <4>1, AppendFacts
    <3>2. CASE t = s
      <4>1. \A k \in 1 .. Len(queue[m]) : queue[m][k] # s
        BY <1>3, <3>1 DEF Waits, Values
      <4>2. \A k, l \in DOMAIN queue'[m] :
                queue'[m][k] = t /\ queue'[m][l] = t => k = l
        BY <3>1, <3>2, <4>1
      <4> QED
        BY <1>2, <1>3, <1>4, <2>2, <3>2, <4>2
    <3>3. CASE t # s
      <4>1. Waits(t, m) \/ Talks(t, m)
        BY <1>4, <1>5, <3>3
      <4>2. \A k, l \in 1 .. Len(queue[m]) : queue[m][k] = t /\ queue[m][l] = t => k = l
        BY <3>1, <4>1 DEF Shape, OneManager
      <4>3. \A k, l \in DOMAIN queue'[m] :
                queue'[m][k] = t /\ queue'[m][l] = t => k = l
        BY <3>1, <3>3, <4>2
      <4> QED
        BY <1>2, <1>4, <1>5, <3>3, <4>1, <4>3 DEF Shape, OneManager
    <3> QED
      BY <3>2, <3>3
  <2> QED
    BY <2>1, <2>2
<1>9. Framed'
  BY <1>1, <1>2, <1>3, <1>4, <1>5 DEF Shape, Framed
<1> QED
  BY <1>6, <1>7, <1>8, <1>9 DEF Shape

LEMMA SenderShape ==
    ASSUME TypeOK, Shape, NEW s \in Sender, StartSender(s) \/ SenderStep(s)
    PROVE  Shape'
<1>0. s \in Thread /\ host[s] \in Process
  BY ThreadIn, LinkAssumption DEF TypeOK
<1>1. CASE StartSender(s)
  <2>1. pc[s] = "off"
    BY <1>1 DEF StartSender
  <2> QED
    BY <1>1, <2>1, NotHeld, SenderMoves DEF StartSender, SenderPc, chan
<1>2. CASE NoSocket(s)
  BY <1>0, <1>2, DieShape DEF NoSocket, Abort
<1>3. CASE Miss(s)
  BY <1>3, ShapeKept DEF Miss
<1>4. CASE Refused(s)
  BY <1>0, <1>4, ShapeKept, DieShape DEF Refused, Abort, vars, chan
<1>5. CASE Connect(s)
  BY <1>5, ConnectShape
<1>6. CASE SendMax(s)
  <2>1. /\ pc[s] = "first" /\ data[s] = <<>> /\ peer[s] # None
        /\ \A m \in Manager : Talks(s, m) => pc[m] = "max"
    BY <1>6 DEF SendMax, Shape, SenderPlace
  <2>2. /\ data'[s] = <<"max">>
        /\ \A t \in Sender \ {s} : data'[t] = data[t]
    BY <1>6, <2>1 DEF SendMax, TypeOK
  <2>3. /\ data'[s] # <<>> /\ Head(data'[s]) = "max" /\ Tail(data'[s]) = <<>>
    BY <2>2
  <2>4. "max" \notin Values(Tail(data'[s]))
    BY <2>3, ValuesOfEmpty
  <2> QED
    BY <1>6, <2>1, <2>2, <2>3, <2>4, SenderMoves DEF SendMax, SenderPc
<1>7. CASE MaxFails(s)
  <2>1. CASE Spare(host[s])
    BY <1>7, <2>1, NotHeld, SenderMoves DEF MaxFails, SenderPc, chan
  <2>2. CASE ~Spare(host[s])
    BY <1>0, <1>7, <2>2, DieShape DEF MaxFails, Abort
  <2> QED
    BY <2>1, <2>2
<1>8. CASE SendRate(s)
  <2>1. data[s] \in Seq({"max", "rate"})
    BY DEF TypeOK
  <2>2. /\ data'[s] = Append(data[s], "rate") /\ pc[s] = "rates" /\ pc' = pc
        /\ \A t \in Sender \ {s} : data'[t] = data[t]
    BY <1>8 DEF SendRate, TypeOK
  <2>3. Values(data'[s]) = Values(data[s]) \cup {"rate"} /\ data'[s] # <<>>
    BY <2>1, <2>2, ValuesOfAppend
  <2>4. data[s] # <<>> =>
           /\ Head(data'[s]) = Head(data[s])
           /\ Values(Tail(data'[s])) \subseteq Values(Tail(data[s])) \cup {"rate"}
    BY <2>1, <2>2, HeadTailOfAppend
  <2>5. Goto(s, "rates")
    BY <1>0, <2>2 DEF Goto, TypeOK
  <2>6. \A m \in Manager :
           /\ Talks(s, m) /\ pc[m] = "session" => "max" \notin Values(data'[s])
           /\ Waits(s, m) \/ (Talks(s, m) /\ pc[m] = "max") =>
                 /\ Head(data'[s]) = "max"
                 /\ "max" \notin Values(Tail(data'[s]))
    BY <2>2, <2>3, <2>4 DEF Shape, SenderPlace, Framed
  <2>7. peer[s] # None /\ UNCHANGED <<file, conn, queue, peer>>
    BY <1>8, <2>2 DEF Shape, SenderPlace, SendRate
  <2> QED
    BY <2>2, <2>3, <2>5, <2>6, <2>7, SenderMoves DEF SenderPc
<1>9. CASE RateFails(s)
  <2>1. CASE Spare(host[s])
    BY <1>9, <2>1, NotHeld, SenderMoves DEF RateFails, SenderPc, chan
  <2>2. CASE ~Spare(host[s])
    BY <1>0, <1>9, <2>2, DieShape DEF RateFails, Abort
  <2> QED
    BY <2>1, <2>2
<1> QED
  BY <1>1, <1>2, <1>3, <1>4, <1>5, <1>6, <1>7, <1>8, <1>9 DEF SenderStep

\* A manager moves without a change of queues or data.
LEMMA ManagerMoves ==
    ASSUME TypeOK, Shape, NEW m \in Manager, NEW place, Goto(m, place),
           UNCHANGED <<peer, data, queue>>,
           \A n \in Manager \ {m} : conn'[n] = conn[n],
           \A s \in Sender : ~Talks(s, m),
           place \in {"bind", "nosocket", "unbound", "accept"},
           place \in {"bind", "nosocket", "unbound"} => queue[m] = <<>>,
           \/ file' = file /\ (file = m => place = "accept")
           \/ file' = None
           \/ file' = m /\ place = "accept"
    PROVE  Shape'
<1>1. /\ \A t \in Sender : pc'[t] = pc[t]
      /\ \A n \in Manager \ {m} : pc'[n] = pc[n]
      /\ pc'[m] = place
  BY ThreadIn DEF Goto, TypeOK
<1>2. \A s \in Sender, n \in Manager : Waits(s, n)' <=> Waits(s, n)
  BY DEF Waits
<1>3. \A s \in Sender, n \in Manager : Talks(s, n)' => Talks(s, n) /\ n # m
  BY <1>1 DEF Talks
<1>4. \A s \in Sender, n \in Manager \ {m} : Talks(s, n)' <=> Talks(s, n)
  BY <1>1 DEF Talks
<1>5. ManagerPlace'
  <2>1. None # m
    BY ThreadIn, LinkAssumption
  <2> QED
    BY <1>1, <2>1, ThreadIn, LinkAssumption DEF Shape, ManagerPlace
<1>6. SenderPlace'
  BY <1>1, <1>2, <1>3 DEF Shape, SenderPlace
<1>7. OneManager'
  BY <1>2, <1>3 DEF Shape, OneManager
<1>8. Framed'
  BY <1>1, <1>2, <1>3 DEF Shape, Framed
<1> QED
  BY <1>5, <1>6, <1>7, <1>8 DEF Shape

LEMMA AcceptShape ==
    ASSUME TypeOK, Shape, NEW m \in Manager, Accept(m)
    PROVE  Shape'
<1> DEFINE c == Head(queue[m])
<1>1. /\ \A t \in Sender : pc'[t] = pc[t]
      /\ \A n \in Manager \ {m} : pc'[n] = pc[n]
      /\ pc'[m] = "max" /\ pc[m] = "accept"
  BY ThreadIn DEF Accept, Goto, TypeOK
<1>2. /\ file' = file /\ peer' = peer /\ data' = data
      /\ conn'[m] = c /\ queue'[m] = Tail(queue[m])
      /\ \A n \in Manager \ {m} : conn'[n] = conn[n] /\ queue'[n] = queue[n]
      /\ queue[m] \in Seq(Sender) /\ queue[m] # <<>>
  BY DEF Accept, TypeOK
<1>3. /\ c \in Sender
      /\ Values(queue[m]) = {c} \cup Values(Tail(queue[m]))
  BY <1>2, ValuesOfTail
<1>4. Waits(c, m)
  BY <1>3 DEF Waits
<1>5. Distinct(queue[m])
  <2> SUFFICES ASSUME NEW k \in DOMAIN queue[m], NEW l \in DOMAIN queue[m],
                      queue[m][k] = queue[m][l]
               PROVE  k = l
    BY DEF Distinct
  <2>1. queue[m][k] \in Sender /\ Waits(queue[m][k], m)
    BY <1>2 DEF Waits, Values
  <2> QED
    BY <2>1 DEF Shape, OneManager
<1>6. Distinct(Tail(queue[m])) /\ c \notin Values(Tail(queue[m]))
  BY <1>2, <1>5, DistinctTail
<1>7. \A s \in Sender, n \in Manager : Waits(s, n)' <=> (Waits(s, n) /\ ~(s = c /\ n = m))
  <2>1. \A s \in Sender : Waits(s, m)' <=> (Waits(s, m) /\ s # c)
    BY <1>2, <1>3, <1>6 DEF Waits
  <2>2. \A s \in Sender, n \in Manager \ {m} : Waits(s, n)' <=> Waits(s, n)
    BY <1>2 DEF Waits
  <2> QED
    BY <2>1, <2>2
<1>8. \A s \in Sender, n \in Manager :
          Talks(s, n)' <=> Talks(s, n) \/ (s = c /\ n = m)
  BY <1>1, <1>2 DEF Talks
<1>9. \A s \in Sender : ~Talks(s, m)
  BY <1>1 DEF Talks
<1> HIDE DEF c
<1>10. ManagerPlace'
  BY <1>1, <1>2, <1>3 DEF Shape, ManagerPlace
<1>11. SenderPlace'
  BY <1>1, <1>2, <1>4, <1>7, <1>8, <1>9 DEF Shape, SenderPlace
<1>12. OneManager'
  <2> SUFFICES ASSUME NEW s \in Sender, NEW n \in Manager, Waits(s, n)' \/ Talks(s, n)'
               PROVE  /\ peer'[s] = n
                      /\ ~(Waits(s, n)' /\ Talks(s, n)')
                      /\ \A k, l \in DOMAIN queue'[n] :
                            queue'[n][k] = s /\ queue'[n][l] = s => k = l
    BY DEF OneManager
  <2>1. Waits(s, n) \/ Talks(s, n)
    BY <1>4, <1>7, <1>8
  <2>2. peer'[s] = n /\ ~(Waits(s, n)' /\ Talks(s, n)')
    BY <1>2, <1>7, <1>8, <1>9, <2>1 DEF Shape, OneManager
  <2>3. CASE n = m
    <3>1. Distinct(queue'[n])
      BY <1>2, <1>6, <2>3
    <3> QED
      BY <2>2, <3>1 DEF Distinct
  <2>4. CASE n # m
    BY <1>2, <2>1, <2>2, <2>4 DEF Shape, OneManager
  <2> QED
    BY <2>3, <2>4
<1>13. Framed'
  BY <1>1, <1>2, <1>4, <1>7, <1>8, <1>9 DEF Shape, Framed
<1> QED
  BY <1>10, <1>11, <1>12, <1>13 DEF Shape

\* A value is read; the first one makes it a session.
LEMMA ReadShape ==
    ASSUME TypeOK, Shape, NEW m \in Manager, ReadMax(m) \/ ReadRate(m)
    PROVE  Shape'
<1> DEFINE c == conn[m]
<1>1. /\ pc[m] \in {"max", "session"} /\ pc'[m] = "session"
      /\ \A t \in Sender : pc'[t] = pc[t]
      /\ \A n \in Manager \ {m} : pc'[n] = pc[n]
  BY ThreadIn DEF ReadMax, ReadRate, Goto, TypeOK
<1>2. c \in Sender /\ Talks(c, m)
  BY <1>1 DEF Shape, ManagerPlace, Talks
<1>3. /\ file' = file /\ peer' = peer /\ conn' = conn /\ queue' = queue
      /\ data[c] \in Seq({"max", "rate"}) /\ data[c] # <<>>
      /\ data'[c] = Tail(data[c])
      /\ \A t \in Sender \ {c} : data'[t] = data[t]
  BY <1>2 DEF ReadMax, ReadRate, TypeOK
<1>4. "max" \notin Values(data'[c])
  <2>1. Values(data[c]) = {Head(data[c])} \cup Values(Tail(data[c]))
    BY <1>3, ValuesOfTail
  <2>2. CASE pc[m] = "max"
    BY <1>2, <1>3, <2>2 DEF Shape, Framed
  <2>3. CASE pc[m] = "session"
    BY <1>2, <1>3, <2>1, <2>3 DEF Shape, Framed
  <2> QED
    BY <1>1, <2>2, <2>3
<1>5. \A s \in Sender, n \in Manager :
          (Waits(s, n)' <=> Waits(s, n)) /\ (Talks(s, n)' <=> Talks(s, n))
  BY <1>1, <1>3 DEF Waits, Talks
<1>6. \A n \in Manager : Waits(c, n) \/ Talks(c, n) => n = m /\ ~Waits(c, n)
  BY <1>2 DEF Shape, OneManager
<1>7. \A s \in Sender : Talks(s, m) => s = c
  BY DEF Talks
<1>8. pc[c] # "first"
  BY <1>2, <1>3 DEF Shape, SenderPlace
<1> HIDE DEF c
<1>9. ManagerPlace'
  BY <1>1, <1>3 DEF Shape, ManagerPlace
<1>10. SenderPlace'
  <2> SUFFICES ASSUME NEW s \in Sender
               PROVE  /\ pc'[s] \in {"off", "open"} =>
                            \A n \in Manager : ~Waits(s, n)' /\ ~Talks(s, n)'
                      /\ pc'[s] \in {"first", "rates"} => peer'[s] # None
                      /\ pc'[s] = "first" =>
                            /\ data'[s] = <<>>
                            /\ \A n \in Manager : Talks(s, n)' => pc'[n] = "max"
                      /\ pc'[s] = "rates" => \A n \in Manager :
                            (Waits(s, n) \/ (Talks(s, n) /\ pc[n] = "max"))' => data'[s] # <<>>
    BY DEF SenderPlace
  <2>1. CASE s = c
    BY <1>1, <1>3, <1>5, <1>6, <1>8, <2>1 DEF Shape, SenderPlace
  <2>2. CASE s # c
    BY <1>1, <1>3, <1>5, <1>7, <2>2 DEF Shape, SenderPlace
  <2> QED
    BY <2>1, <2>2
<1>11. OneManager'
  BY <1>3, <1>5 DEF Shape, OneManager
<1>12. Framed'
  BY <1>1, <1>3, <1>4, <1>5, <1>6, <1>7 DEF Shape, Framed
<1> QED
  BY <1>9, <1>10, <1>11, <1>12 DEF Shape

LEMMA ManagerShape ==
    ASSUME TypeOK, Shape, NEW m \in Manager,
           Unlink(m) \/ ManagerStep(m) \/ SystemFails(m)
    PROVE  Shape'
<1>0. m \in Thread /\ host[m] \in Process
  BY ThreadIn, LinkAssumption DEF TypeOK
<1>t. pc[m] \notin {"max", "session"} => \A s \in Sender : ~Talks(s, m)
  BY DEF Talks
<1>q. pc[m] \in {"off", "bind"} => queue[m] = <<>> /\ file # m
  BY DEF Shape, ManagerPlace
<1>1. CASE Unlink(m)
  <2>1. /\ pc[m] = "off" /\ file' = None
        /\ Goto(m, "bind") \/ Goto(m, "nosocket")
        /\ UNCHANGED <<peer, data, conn, queue>>
    BY <1>1 DEF Unlink, chan
  <2> QED
    BY <2>1, <1>t, <1>q, ManagerMoves
<1>2. CASE Bind(m)
  <2>1. pc[m] = "bind" /\ UNCHANGED <<peer, data, conn, queue>>
    BY <1>2 DEF Bind, chan
  <2>2. CASE file = None
    BY <1>2, <2>1, <2>2, <1>t, <1>q, ManagerMoves DEF Bind
  <2>3. CASE file # None
    BY <1>2, <2>1, <2>3, <1>t, <1>q, ManagerMoves DEF Bind
  <2> QED
    BY <2>2, <2>3
<1>3. CASE AcceptFails(m) \/ SystemFails(m)
  <2>1. Die(host[m])
    BY <1>3 DEF AcceptFails, SystemFails, AcceptErrs, NameFails, CloseFails, Abort
  <2> QED
    BY <1>0, <2>1, DieShape
<1>4. CASE Accept(m)
  BY <1>4, AcceptShape
<1>5. CASE ReadMax(m) \/ ReadRate(m)
  BY <1>5, ReadShape
<1>6. CASE MaxMissing(m) \/ HangUp(m)
  <2> DEFINE c == conn[m]
  <2>1. /\ pc'[m] = "accept" /\ pc[m] \in {"max", "session"}
        /\ \A t \in Sender : pc'[t] = pc[t]
        /\ \A n \in Manager \ {m} : pc'[n] = pc[n]
    BY <1>6, ThreadIn DEF MaxMissing, HangUp, Goto, TypeOK
  <2>2. /\ UNCHANGED <<file, peer, data, queue>>
        /\ \A n \in Manager \ {m} : conn'[n] = conn[n]
    BY <1>6 DEF MaxMissing, HangUp, TypeOK
  <2>3. \A s \in Sender, n \in Manager : Waits(s, n)' <=> Waits(s, n)
    BY <2>2 DEF Waits
  <2>4. \A s \in Sender, n \in Manager : Talks(s, n)' <=> (Talks(s, n) /\ n # m)
    BY <2>1, <2>2 DEF Talks
  <2>5. ManagerPlace' /\ SenderPlace'
    BY <2>1, <2>2, <2>3, <2>4 DEF Shape, ManagerPlace, SenderPlace
  <2>6. OneManager' /\ Framed'
    BY <2>1, <2>2, <2>3, <2>4 DEF Shape, OneManager, Framed
  <2> QED
    BY <2>5, <2>6 DEF Shape
<1> QED
  BY <1>1, <1>2, <1>3, <1>4, <1>5, <1>6 DEF ManagerStep


-----------------------------------------------------------------------------
(* Descriptors.                                                            *)

Connected == {"first", "rates", "max", "session"}
Holds(place) == IF place \in Connected THEN 1 ELSE 0

\* One thread moves: what its process has open beyond the lost ones changes
\* as the thread comes to have a connection or ceases to.
LEMMA BalanceMoves ==
    ASSUME TypeOK, TypeOK', Balance, NEW t \in Thread, ~Dead(t), host' = host,
           \A u \in Thread \ {t} : pc'[u] = pc[u],
           \A q \in Process \ {host[t]} : fds'[q] = fds[q] /\ lost'[q] = lost[q],
           fds'[host[t]] - lost'[host[t]] =
               fds[host[t]] - lost[host[t]] + Holds(pc'[t]) - Holds(pc[t])
    PROVE  Balance'
<1> SUFFICES ASSUME NEW p \in Process, NEW w \in Thread, host[w] = p, pc'[w] # "dead"
             PROVE  fds'[p] = lost'[p] + Cardinality(Open(p)')
  BY DEF Balance, Of, Dead
<1>1. Open(p) = {u \in Of(p) : pc[u] \in Connected}
      /\ Open(p)' = {u \in Of(p) : pc'[u] \in Connected}
  BY DEF Open, Of, Connected
<1>2. IsFiniteSet(Open(p)) /\ Cardinality(Open(p)) \in Nat
  BY OpenFinite, FS_CardinalityType
<1>3. /\ fds[p] \in Nat /\ lost[p] \in Nat /\ fds'[p] \in Nat /\ lost'[p] \in Nat
      /\ host[t] \in Process
  BY LinkAssumption DEF TypeOK
<1>4. CASE p # host[t]
  <2>1. t \notin Of(p) /\ w # t
    BY <1>4 DEF Of
  <2>2. Open(p)' = Open(p)
    BY <1>1, <2>1 DEF Of
  <2>3. fds[p] = lost[p] + Cardinality(Open(p))
    BY <2>1 DEF Balance, Of, Dead
  <2> QED
    BY <1>4, <2>2, <2>3
<1>5. CASE p = host[t]
  <2>1. fds[p] = lost[p] + Cardinality(Open(p)) /\ t \in Of(p)
    BY <1>5 DEF Balance, Of
  <2>2. Cardinality(Open(p)') = Cardinality(Open(p)) + Holds(pc'[t]) - Holds(pc[t])
    <3>1. CASE pc[t] \in Connected /\ pc'[t] \in Connected
      <4>1. Open(p)' = Open(p)
        BY <1>1, <3>1 DEF Of
      <4>2. Holds(pc'[t]) = 1 /\ Holds(pc[t]) = 1
        BY <3>1 DEF Holds
      <4> QED
        BY <1>2, <4>1, <4>2
    <3>2. CASE pc[t] \notin Connected /\ pc'[t] \notin Connected
      <4>1. Open(p)' = Open(p)
        BY <1>1, <3>2 DEF Of
      <4>2. Holds(pc'[t]) = 0 /\ Holds(pc[t]) = 0
        BY <3>2 DEF Holds
      <4> QED
        BY <1>2, <4>1, <4>2
    <3>3. CASE pc[t] \notin Connected /\ pc'[t] \in Connected
      <4>1. Open(p)' = Open(p) \cup {t} /\ t \notin Open(p)
        BY <1>1, <2>1, <3>3 DEF Of
      <4>2. Holds(pc'[t]) = 1 /\ Holds(pc[t]) = 0
        BY <3>3 DEF Holds
      <4>3. Cardinality(Open(p) \cup {t}) = Cardinality(Open(p)) + 1
        BY <1>2, <4>1, FS_AddElement
      <4> QED
        BY <1>2, <4>1, <4>2, <4>3
    <3>4. CASE pc[t] \in Connected /\ pc'[t] \notin Connected
      <4>1. Open(p)' = Open(p) \ {t} /\ t \in Open(p)
        BY <1>1, <2>1, <3>4 DEF Of
      <4>2. Holds(pc'[t]) = 0 /\ Holds(pc[t]) = 1
        BY <3>4 DEF Holds
      <4>3. Cardinality(Open(p) \ {t}) = Cardinality(Open(p)) - 1
        BY <1>2, <4>1, FS_RemoveElement
      <4> QED
        BY <1>2, <4>1, <4>2, <4>3
    <3> QED
      BY <3>1, <3>2, <3>3, <3>4
  <2>3. Holds(pc'[t]) \in {0, 1} /\ Holds(pc[t]) \in {0, 1}
    BY DEF Holds
  <2>4. fds'[p] - lost'[p] = fds[p] - lost[p] + Holds(pc'[t]) - Holds(pc[t])
    BY <1>5
  <2> QED
    BY <1>2, <1>3, <2>1, <2>2, <2>3, <2>4
<1> QED
  BY <1>4, <1>5

\* A thread without a connection moves on without one.
LEMMA BalanceAside ==
    ASSUME TypeOK, TypeOK', Balance, NEW t \in Thread, NEW place, Goto(t, place),
           ~Dead(t), pc[t] \notin Connected, place \notin Connected,
           host' = host, fds' = fds, lost' = lost
    PROVE  Balance'
<1>1. pc' = [pc EXCEPT ![t] = place] /\ DOMAIN pc = Thread
  BY DEF Goto, TypeOK
<1>2. pc'[t] = place /\ \A u \in Thread \ {t} : pc'[u] = pc[u]
  BY <1>1
<1>3. Holds(pc'[t]) = 0 /\ Holds(pc[t]) = 0
  BY <1>2 DEF Holds
<1>4. host[t] \in Process /\ fds[host[t]] \in Nat /\ lost[host[t]] \in Nat
  BY LinkAssumption DEF TypeOK
<1>5. fds'[host[t]] - lost'[host[t]] =
          fds[host[t]] - lost[host[t]] + Holds(pc'[t]) - Holds(pc[t])
  BY <1>3, <1>4
<1> QED
  BY <1>2, <1>5, BalanceMoves

LEMMA BalanceKept ==
    ASSUME Balance, UNCHANGED <<host, pc, fds, lost>>
    PROVE  Balance'
BY DEF Balance, Open, Of, Dead

LEMMA DieBalance ==
    ASSUME TypeOK, Balance, NEW p \in Process, Die(p)
    PROVE  Balance'
<1> SUFFICES ASSUME NEW q \in Process, NEW w \in Thread, host[w] = q, pc'[w] # "dead"
             PROVE  fds'[q] = lost'[q] + Cardinality(Open(q)')
  BY DEF Balance, Of, Dead, Die
<1>1. q # p /\ pc[w] # "dead"
  BY DEF Die
<1>2. fds'[q] = fds[q] /\ lost' = lost
  BY <1>1 DEF Die, TypeOK
<1>3. Open(q)' = Open(q)
  BY <1>1 DEF Open, Of, Die
<1>4. fds[q] = lost[q] + Cardinality(Open(q))
  BY <1>1 DEF Balance, Of, Dead
<1> QED
  BY <1>2, <1>3, <1>4

LEMMA SenderBalance ==
    ASSUME TypeOK, TypeOK', Balance, NEW s \in Sender, StartSender(s) \/ SenderStep(s)
    PROVE  Balance'
<1>0. s \in Thread /\ host[s] \in Process
  BY ThreadIn, LinkAssumption DEF TypeOK
<1>n. /\ fds \in [Process -> Nat] /\ lost \in [Process -> Nat]
      /\ pc \in [Thread -> SenderPc \cup ManagerPc]
  BY DEF TypeOK
<1>1. CASE StartSender(s)
  <2>1. /\ pc[s] = "off" /\ Goto(s, "open")
        /\ host' = host /\ fds' = fds /\ lost' = lost
    BY <1>1 DEF StartSender, count
  <2> QED
    BY <1>0, <1>n, <2>1, BalanceAside DEF Dead, Connected
<1>2. CASE NoSocket(s)
  BY <1>0, <1>2, DieBalance DEF NoSocket, Abort
<1>3. CASE Miss(s)
  BY <1>0, <1>n, <1>3, BalanceMoves DEF Miss, Dead, Holds, Connected
<1>4. CASE Refused(s)
  BY <1>0, <1>4, BalanceKept, DieBalance DEF Refused, Abort, vars
<1>5. CASE Connect(s)
  <2>1. /\ pc[s] = "open" /\ Goto(s, "first") /\ host' = host /\ lost' = lost
        /\ fds' = [fds EXCEPT ![host[s]] = @ + 1]
    BY <1>5 DEF Connect
  <2> QED
    BY <1>0, <1>n, <2>1, BalanceMoves DEF Goto, Dead, Holds, Connected
<1>6. CASE SendMax(s)
  BY <1>0, <1>n, <1>6, BalanceMoves DEF SendMax, Goto, Dead, Holds, Connected, count
<1>7. CASE MaxFails(s)
  <2>1. CASE Spare(host[s])
    <3>1. /\ pc[s] = "first" /\ Goto(s, "open") /\ host' = host /\ fds' = fds
          /\ lost' = [lost EXCEPT ![host[s]] = @ + 1]
      BY <1>7, <2>1 DEF MaxFails
    <3> QED
      BY <1>0, <1>n, <3>1, BalanceMoves DEF Goto, Dead, Holds, Connected
  <2>2. CASE ~Spare(host[s])
    BY <1>0, <1>7, <2>2, DieBalance DEF MaxFails, Abort
  <2> QED
    BY <2>1, <2>2
<1>8. CASE SendRate(s)
  BY <1>8, BalanceKept DEF SendRate, count
<1>9. CASE RateFails(s)
  <2>1. CASE Spare(host[s])
    <3>1. /\ pc[s] = "rates" /\ Goto(s, "open") /\ host' = host /\ lost' = lost
          /\ fds' = [fds EXCEPT ![host[s]] = @ - 1]
      BY <1>9, <2>1 DEF RateFails
    <3> QED
      BY <1>0, <1>n, <3>1, BalanceMoves DEF Goto, Dead, Holds, Connected
  <2>2. CASE ~Spare(host[s])
    BY <1>0, <1>9, <2>2, DieBalance DEF RateFails, Abort
  <2> QED
    BY <2>1, <2>2
<1> QED
  BY <1>1, <1>2, <1>3, <1>4, <1>5, <1>6, <1>7, <1>8, <1>9 DEF SenderStep

LEMMA ManagerBalance ==
    ASSUME TypeOK, TypeOK', Balance, NEW m \in Manager,
           Unlink(m) \/ ManagerStep(m) \/ SystemFails(m)
    PROVE  Balance'
<1>0. m \in Thread /\ host[m] \in Process
  BY ThreadIn, LinkAssumption DEF TypeOK
<1>n. /\ fds \in [Process -> Nat] /\ lost \in [Process -> Nat]
      /\ pc \in [Thread -> SenderPc \cup ManagerPc]
  BY DEF TypeOK
<1>1. CASE Unlink(m)
  <2>1. pc[m] = "off" /\ host' = host /\ fds' = fds /\ lost' = lost
    BY <1>1 DEF Unlink, count
  <2>2. Goto(m, "bind") \/ Goto(m, "nosocket")
    BY <1>1 DEF Unlink
  <2> QED
    BY <1>0, <1>n, <2>1, <2>2, BalanceAside DEF Dead, Connected
<1>2. CASE Bind(m)
  <2>1. pc[m] = "bind" /\ host' = host /\ fds' = fds /\ lost' = lost
    BY <1>2 DEF Bind, count
  <2>2. Goto(m, "accept") \/ Goto(m, "unbound")
    BY <1>2 DEF Bind
  <2> QED
    BY <1>0, <1>n, <2>1, <2>2, BalanceAside DEF Dead, Connected
<1>3. CASE AcceptFails(m) \/ SystemFails(m)
  <2>1. Die(host[m])
    BY <1>3 DEF AcceptFails, SystemFails, AcceptErrs, NameFails, CloseFails, Abort
  <2> QED
    BY <1>0, <2>1, DieBalance
<1>4. CASE Accept(m)
  <2>1. /\ pc[m] = "accept" /\ Goto(m, "max") /\ host' = host /\ lost' = lost
        /\ fds' = [fds EXCEPT ![host[m]] = @ + 1]
    BY <1>4 DEF Accept
  <2> QED
    BY <1>0, <1>n, <2>1, BalanceMoves DEF Goto, Dead, Holds, Connected
<1>5. CASE ReadMax(m)
  <2>1. /\ pc[m] = "max" /\ Goto(m, "session")
        /\ host' = host /\ fds' = fds /\ lost' = lost
    BY <1>5 DEF ReadMax, count
  <2>2. pc'[m] = "session" /\ \A u \in Thread \ {m} : pc'[u] = pc[u]
    BY <1>0, <1>n, <2>1 DEF Goto
  <2>3. Holds(pc'[m]) = 1 /\ Holds(pc[m]) = 1
    BY <2>1, <2>2 DEF Holds, Connected
  <2>4. fds[host[m]] \in Nat /\ lost[host[m]] \in Nat
    BY <1>0, <1>n
  <2>5. fds'[host[m]] - lost'[host[m]] =
            fds[host[m]] - lost[host[m]] + Holds(pc'[m]) - Holds(pc[m])
    BY <2>1, <2>3, <2>4
  <2> QED
    BY <1>0, <2>1, <2>2, <2>5, BalanceMoves DEF Dead
<1>6. CASE MaxMissing(m)
  <2>1. /\ pc[m] = "max" /\ Goto(m, "accept") /\ host' = host /\ fds' = fds
        /\ lost' = [lost EXCEPT ![host[m]] = @ + 1]
    BY <1>6 DEF MaxMissing
  <2> QED
    BY <1>0, <1>n, <2>1, BalanceMoves DEF Goto, Dead, Holds, Connected
<1>7. CASE ReadRate(m)
  BY <1>7, BalanceKept DEF ReadRate, count
<1>8. CASE HangUp(m)
  <2>1. /\ pc[m] = "session" /\ Goto(m, "accept") /\ host' = host /\ lost' = lost
        /\ fds' = [fds EXCEPT ![host[m]] = @ - 1]
    BY <1>8 DEF HangUp
  <2> QED
    BY <1>0, <1>n, <2>1, BalanceMoves DEF Goto, Dead, Holds, Connected
<1> QED
  BY <1>1, <1>2, <1>3, <1>4, <1>5, <1>6, <1>7, <1>8 DEF ManagerStep

-----------------------------------------------------------------------------
(* What ends a process.                                                    *)

\* Once short of descriptors, always: those lost are never won back.
LEMMA ShortKept ==
    ASSUME TypeOK, TypeOK', host' = host, NEW p \in Process, lost'[p] >= lost[p], Short(p)
    PROVE  Short(p)'
<1>1. Cardinality(Of(p)) \in Nat /\ Of(p)' = Of(p)
  BY OpenFinite, FS_CardinalityType DEF Of
<1>2. lost[p] \in Nat /\ lost'[p] \in Nat /\ FdLimit[p] \in Nat
  BY LinkAssumption DEF TypeOK
<1> QED
  BY <1>1, <1>2 DEF Short

\* A step that ends no process keeps what was established of those ended.
LEMMA FatalKept ==
    ASSUME TypeOK, TypeOK', FatalExplained, UNCHANGED <<host, fatal>>,
           \A p \in Process : lost'[p] >= lost[p],
           raced \subseteq raced'
    PROVE  FatalExplained'
<1>1. \A p \in Process : Short(p) => Short(p)'
  BY ShortKept
<1> QED
  BY <1>1 DEF FatalExplained

\* No manager comes to be doomed by a step that leaves each where it was or
\* takes it elsewhere, and puts no file in the path.
LEMMA DoomedKept ==
    ASSUME TypeOK, TypeOK', Doomed, host' = host,
           \A p \in Process : lost'[p] >= lost[p],
           raced \subseteq raced', file' \in {file, None},
           \A n \in Manager : pc'[n] = pc[n] \/ pc'[n] \notin {"bind", "unbound", "nosocket"}
    PROVE  Doomed'
<1>1. \A p \in Process : Short(p) => Short(p)'
  BY ShortKept
<1>2. \A n \in Manager : host[n] \in Process
  BY ThreadIn, LinkAssumption DEF TypeOK
<1> QED
  BY <1>1, <1>2 DEF Doomed

\* An end is explained when the one call that caused it is.
LEMMA FatalAdded ==
    ASSUME TypeOK, TypeOK', FatalExplained, Doomed, NEW p \in Process, Die(p),
           NEW call, fatal' = [fatal EXCEPT ![p] = call],
           call \in {"socket", "log", "descriptor"} => Short(p),
           call = "unbound" => \E m \in Manager : host[m] = p /\ m \in raced
    PROVE  FatalExplained' /\ Doomed'
<1>1. UNCHANGED <<host, file, lost, raced>>
  BY DEF Die
<1>2. \A q \in Process : lost'[q] >= lost[q]
  BY <1>1 DEF TypeOK
<1>3. \A q \in Process : Short(q) => Short(q)'
  BY <1>1, <1>2, ShortKept
<1>4. FatalExplained'
  <2> SUFFICES ASSUME NEW q \in Process
               PROVE  /\ fatal'[q] \in {"socket", "log", "descriptor"} => Short(q)'
                      /\ fatal'[q] = "unbound" =>
                            \E m \in Manager : host'[m] = q /\ m \in raced'
    BY DEF FatalExplained
  <2>1. fatal'[q] = IF q = p THEN call ELSE fatal[q]
    BY DEF TypeOK
  <2> QED
    BY <1>1, <1>3, <2>1 DEF FatalExplained
<1>5. \A n \in Manager : pc'[n] = pc[n] \/ pc'[n] = "dead"
  BY ThreadIn DEF Die
<1>6. Doomed'
  BY <1>1, <1>2, <1>5, DoomedKept
<1> QED
  BY <1>4, <1>6

\* A live process without a spare descriptor has lost all but one for each
\* of its threads; with one thread that has none, one less suffices.
LEMMA NoSpare ==
    ASSUME TypeOK, Balance, NEW t \in Thread, ~Dead(t)
    PROVE  /\ ~Spare(host[t]) => Short(host[t])
           /\ fds[host[t]] + 1 >= FdLimit[host[t]] /\ pc[t] \notin Connected =>
                 Short(host[t])
<1> PICK p \in Process : host[t] = p
  BY LinkAssumption DEF TypeOK
<1>1. fds[p] = lost[p] + Cardinality(Open(p)) /\ t \in Of(p)
  BY DEF Balance, Of
<1>2. /\ IsFiniteSet(Of(p)) /\ Open(p) \in SUBSET Of(p)
      /\ Open(p) \cup {t} \in SUBSET Of(p)
  BY <1>1, OpenFinite DEF Open
<1>3. /\ IsFiniteSet(Open(p)) /\ Cardinality(Open(p)) <= Cardinality(Of(p))
      /\ Cardinality(Open(p) \cup {t}) <= Cardinality(Of(p))
  BY <1>2, FS_Subset
<1>4. Cardinality(Open(p)) \in Nat /\ Cardinality(Of(p)) \in Nat
  BY <1>2, <1>3, FS_CardinalityType
<1>5. fds[p] \in Nat /\ lost[p] \in Nat /\ FdLimit[p] \in Nat
  BY LinkAssumption DEF TypeOK
<1>6. ~Spare(p) => Short(p)
  BY <1>1, <1>3, <1>4, <1>5 DEF Spare, Short
<1>7. ASSUME fds[p] + 1 >= FdLimit[p], pc[t] \notin Connected
      PROVE  Short(p)
  <2>1. t \notin Open(p)
    BY <1>7 DEF Open, Connected
  <2>2. Cardinality(Open(p) \cup {t}) = Cardinality(Open(p)) + 1
    BY <1>3, <2>1, FS_AddElement
  <2> QED
    BY <1>1, <1>3, <1>4, <1>5, <1>7, <2>2 DEF Short
<1> QED
  BY <1>6, <1>7

LEMMA SenderFatal ==
    ASSUME TypeOK, TypeOK', Balance, FatalExplained, Doomed,
           NEW s \in Sender, StartSender(s) \/ SenderStep(s)
    PROVE  FatalExplained' /\ Doomed'
<1>0. s \in Thread /\ host[s] \in Process
  BY ThreadIn, LinkAssumption DEF TypeOK
<1>n. /\ fds \in [Process -> Nat] /\ lost \in [Process -> Nat]
      /\ pc \in [Thread -> SenderPc \cup ManagerPc]
      /\ FdLimit[host[s]] \in Nat /\ fds[host[s]] \in Nat
  BY <1>0, LinkAssumption DEF TypeOK
<1>k. ASSUME NEW place, Goto(s, place) PROVE \A n \in Manager : pc'[n] = pc[n]
  BY <1>k, <1>n, ThreadIn DEF Goto
<1>1. CASE StartSender(s) \/ Connect(s) \/ SendMax(s) \/ SendRate(s)
  <2>1. UNCHANGED <<host, file, fatal, lost, raced>> /\ \A n \in Manager : pc'[n] = pc[n]
    BY <1>1, <1>k DEF StartSender, Connect, SendMax, SendRate, count
  <2> QED
    BY <1>n, <2>1, FatalKept, DoomedKept
<1>2. CASE NoSocket(s)
  BY <1>0, <1>2, NoSpare, FatalAdded DEF NoSocket, Abort, Dead
<1>3. CASE Miss(s)
  <2>1. /\ UNCHANGED <<host, file, fatal, pc, raced>>
        /\ lost' = [lost EXCEPT ![host[s]] = @ + 1]
    BY <1>3 DEF Miss
  <2>2. \A p \in Process : lost'[p] >= lost[p]
    BY <1>n, <2>1
  <2> QED
    BY <2>1, <2>2, FatalKept, DoomedKept
<1>4. CASE Refused(s)
  <2>1. CASE fds[host[s]] + 1 < FdLimit[host[s]]
    <3>1. UNCHANGED <<host, file, fatal, pc, lost, raced>>
      BY <1>4, <2>1 DEF Refused, vars
    <3> QED
      BY <1>n, <3>1, FatalKept, DoomedKept
  <2>2. CASE ~(fds[host[s]] + 1 < FdLimit[host[s]])
    <3>1. pc[s] = "open" /\ Abort(host[s], "log")
      BY <1>4, <2>2 DEF Refused
    <3>2. fds[host[s]] + 1 >= FdLimit[host[s]]
      BY <1>n, <2>2
    <3> QED
      BY <1>0, <3>1, <3>2, NoSpare, FatalAdded DEF Abort, Dead, Connected
  <2> QED
    BY <2>1, <2>2
<1>5. CASE MaxFails(s)
  <2>1. CASE Spare(host[s])
    <3>1. /\ UNCHANGED <<host, file, fatal, raced>> /\ Goto(s, "open")
          /\ lost' = [lost EXCEPT ![host[s]] = @ + 1]
      BY <1>5, <2>1 DEF MaxFails
    <3>2. \A p \in Process : lost'[p] >= lost[p]
      BY <1>n, <3>1
    <3> QED
      BY <1>k, <3>1, <3>2, FatalKept, DoomedKept
  <2>2. CASE ~Spare(host[s])
    BY <1>0, <1>5, <2>2, NoSpare, FatalAdded DEF MaxFails, Abort, Dead
  <2> QED
    BY <2>1, <2>2
<1>6. CASE RateFails(s)
  <2>1. CASE Spare(host[s])
    <3>1. UNCHANGED <<host, file, fatal, lost, raced>> /\ Goto(s, "open")
      BY <1>6, <2>1 DEF RateFails
    <3> QED
      BY <1>k, <1>n, <3>1, FatalKept, DoomedKept
  <2>2. CASE ~Spare(host[s])
    BY <1>0, <1>6, <2>2, NoSpare, FatalAdded DEF RateFails, Abort, Dead
  <2> QED
    BY <2>1, <2>2
<1> QED
  BY <1>1, <1>2, <1>3, <1>4, <1>5, <1>6 DEF SenderStep

LEMMA ManagerFatal ==
    ASSUME TypeOK, TypeOK', Balance, FatalExplained, Doomed, NEW m \in Manager,
           Unlink(m) \/ ManagerStep(m) \/ SystemFails(m)
    PROVE  FatalExplained' /\ Doomed'
<1>0. m \in Thread /\ host[m] \in Process
  BY ThreadIn, LinkAssumption DEF TypeOK
<1>n. /\ fds \in [Process -> Nat] /\ lost \in [Process -> Nat]
      /\ pc \in [Thread -> SenderPc \cup ManagerPc]
  BY DEF TypeOK
<1>k. ASSUME NEW place, Goto(m, place)
      PROVE  pc'[m] = place /\ \A n \in Manager \ {m} : pc'[n] = pc[n]
  BY <1>k, <1>n, ThreadIn DEF Goto
<1>1. CASE AcceptFails(m)
  <2>1. CASE pc[m] = "unbound" /\ Abort(host[m], "unbound")
    BY <1>0, <2>1, FatalAdded DEF Abort, Doomed
  <2>2. CASE pc[m] = "nosocket" /\ Abort(host[m], "descriptor")
    BY <1>0, <2>2, FatalAdded DEF Abort, Doomed
  <2>3. CASE pc[m] = "accept" /\ ~Spare(host[m]) /\ Abort(host[m], "descriptor")
    BY <1>0, <2>3, NoSpare, FatalAdded DEF Abort, Dead
  <2> QED
    BY <1>1, <2>1, <2>2, <2>3 DEF AcceptFails
<1>2. CASE SystemFails(m)
  <2>1. \E call \in {"accept", "getnameinfo", "close"} : Abort(host[m], call)
    BY <1>2 DEF SystemFails, AcceptErrs, NameFails, CloseFails
  <2> QED
    BY <1>0, <2>1, FatalAdded DEF Abort
<1>3. CASE Unlink(m)
  <2>1. UNCHANGED <<host, fatal, lost, raced>> /\ pc[m] = "off" /\ file' = None
    BY <1>3 DEF Unlink, count
  <2>2. FatalExplained' /\ \A p \in Process : Short(p) => Short(p)'
    BY <1>n, <2>1, FatalKept, ShortKept
  <2>3. Doomed'
    <3> SUFFICES ASSUME NEW n \in Manager
                 PROVE  /\ pc'[n] = "unbound" => n \in raced'
                        /\ pc'[n] = "nosocket" => Short(host[n])'
      BY <2>1 DEF Doomed
    <3>1. CASE n = m
      <4>1. Goto(m, IF Spare(host[m]) THEN "bind" ELSE "nosocket")
        BY <1>3 DEF Unlink
      <4>2. pc'[m] = "nosocket" => Short(host[m])
        BY <1>0, <1>k, <2>1, <4>1, NoSpare DEF Dead
      <4>3. pc'[m] # "unbound"
        BY <1>k, <4>1
      <4> QED
        BY <1>0, <2>1, <2>2, <3>1, <4>2, <4>3
    <3>2. CASE n # m
      <4>1. pc'[n] = pc[n] /\ host[n] \in Process
        BY <1>3, <1>k, <3>2, ThreadIn, LinkAssumption DEF Unlink, TypeOK
      <4> QED
        BY <2>1, <2>2, <4>1 DEF Doomed
    <3> QED
      BY <3>1, <3>2
  <2> QED
    BY <2>2, <2>3
<1>4. CASE Bind(m)
  <2>1. /\ UNCHANGED <<host, fatal, lost>> /\ pc[m] = "bind"
        /\ raced \subseteq raced'
    BY <1>4 DEF Bind, count
  <2>2. FatalExplained' /\ \A p \in Process : Short(p) => Short(p)'
    BY <1>n, <2>1, FatalKept, ShortKept
  <2>3. \A n \in Manager : host[n] \in Process
    BY ThreadIn, LinkAssumption DEF TypeOK
  <2>4. CASE file = None
    <3>1. /\ pc'[m] = "accept" /\ \A n \in Manager \ {m} : pc'[n] = pc[n]
          /\ raced' = raced \cup {n \in Manager \ {m} : pc[n] = "bind"}
      BY <1>4, <1>k, <2>4 DEF Bind
    <3> QED
      BY <2>1, <2>2, <2>3, <3>1 DEF Doomed
  <2>5. CASE file # None
    <3>1. /\ pc'[m] = "unbound" /\ \A n \in Manager \ {m} : pc'[n] = pc[n]
          /\ raced' = raced /\ file' = file
      BY <1>4, <1>k, <2>5 DEF Bind
    <3>2. m \in raced
      BY <2>1, <2>5 DEF Doomed
    <3> QED
      BY <2>1, <2>2, <2>3, <3>1, <3>2 DEF Doomed
  <2> QED
    BY <2>4, <2>5
<1>5. CASE Accept(m) \/ ReadMax(m) \/ HangUp(m)
  <2>1. UNCHANGED <<host, file, fatal, lost, raced>>
    BY <1>5 DEF Accept, ReadMax, HangUp, count
  <2>2. Goto(m, "max") \/ Goto(m, "session") \/ Goto(m, "accept")
    BY <1>5 DEF Accept, ReadMax, HangUp
  <2>3. \A n \in Manager : pc'[n] = pc[n] \/ pc'[n] \notin {"bind", "unbound", "nosocket"}
    BY <1>k, <2>2
  <2> QED
    BY <1>n, <2>1, <2>3, FatalKept, DoomedKept
<1>6. CASE ReadRate(m)
  <2>1. UNCHANGED <<host, file, fatal, lost, pc, raced>>
    BY <1>6 DEF ReadRate, count
  <2> QED
    BY <1>n, <2>1, FatalKept, DoomedKept
<1>7. CASE MaxMissing(m)
  <2>1. /\ UNCHANGED <<host, file, fatal, raced>> /\ Goto(m, "accept")
        /\ lost' = [lost EXCEPT ![host[m]] = @ + 1]
    BY <1>7 DEF MaxMissing
  <2>2. \A p \in Process : lost'[p] >= lost[p]
    BY <1>n, <2>1
  <2>3. \A n \in Manager : pc'[n] = pc[n] \/ pc'[n] \notin {"bind", "unbound", "nosocket"}
    BY <1>k, <2>1
  <2> QED
    BY <2>1, <2>2, <2>3, FatalKept, DoomedKept
<1> QED
  BY <1>1, <1>2, <1>3, <1>4, <1>5, <1>6, <1>7 DEF ManagerStep

-----------------------------------------------------------------------------
(* The invariant, and what follows from it.                                *)

LEMMA KilledInv ==
    ASSUME IInv, NEW p \in Process, Killed(p)
    PROVE  IInv'
<1>1. /\ Die(p) /\ fatal' = fatal
      /\ TypeOK /\ Shape /\ Balance /\ FatalExplained /\ Doomed
  BY DEF Killed, IInv, Shape
<1>2. TypeOK'
  BY <1>1, DieType DEF TypeOK
<1>3. Shape' /\ Balance'
  BY <1>1, DieShape, DieBalance
<1>4. /\ UNCHANGED <<host, file, lost, raced>> /\ lost \in [Process -> Nat]
      /\ \A n \in Manager : pc'[n] = pc[n] \/ pc'[n] = "dead"
  BY <1>1, ThreadIn DEF Die, TypeOK
<1>5. FatalExplained' /\ Doomed'
  BY <1>1, <1>2, <1>4, FatalKept, DoomedKept
<1> QED
  BY <1>2, <1>3, <1>5 DEF IInv, Shape

\* IInv is inductive: it holds after any step from a state where it holds.
LEMMA StepInv == IInv /\ [Next]_vars => IInv'
<1> SUFFICES ASSUME IInv, [Next]_vars PROVE IInv'
  OBVIOUS
<1>0. TypeOK /\ Shape /\ Balance /\ FatalExplained /\ Doomed
  BY DEF IInv, Shape
<1>1. ASSUME NEW s \in Sender, StartSender(s) \/ SenderStep(s) PROVE IInv'
  <2>1. TypeOK'
    BY <1>0, <1>1, SenderType DEF SenderStep
  <2> QED
    BY <1>0, <1>1, <2>1, SenderShape, SenderBalance, SenderFatal DEF IInv, Shape
<1>2. ASSUME NEW m \in Manager, Unlink(m) \/ ManagerStep(m) \/ SystemFails(m)
      PROVE  IInv'
  <2>1. ManagerPlace
    BY <1>0 DEF Shape
  <2>2. TypeOK'
    BY <1>0, <1>2, <2>1, ManagerType
  <2> QED
    BY <1>0, <1>2, <2>1, <2>2, ManagerShape, ManagerBalance, ManagerFatal
    DEF IInv, Shape
<1>3. ASSUME NEW p \in Process, Killed(p) PROVE IInv'
  BY <1>3, KilledInv
<1>4. CASE UNCHANGED vars
  <2>1. TypeOK' /\ Balance'
    BY <1>0, <1>4 DEF vars, count, chan, TypeOK, Balance, Dead, Of, Open
  <2>3. FatalExplained'
    BY <1>0, <1>4 DEF vars, count, chan, FatalExplained, Short, Of
  <2>4. Doomed'
    <3>1. UNCHANGED <<host, file, lost, raced, pc>> /\ lost \in [Process -> Nat]
      BY <1>0, <1>4 DEF vars, count, TypeOK
    <3>2. \A p \in Process : lost'[p] >= lost[p]
      BY <3>1
    <3> QED
      BY <1>0, <2>1, <3>1, <3>2, DoomedKept
  <2>2. Shape'
    BY <1>0, <1>4, ShapeKept DEF vars, chan
  <2> QED
    BY <2>1, <2>2, <2>3, <2>4 DEF IInv, Shape
<1> QED
  BY <1>1, <1>2, <1>3, <1>4 DEF Next

\* In every behaviour of the link the whole invariant holds at every state,
\* for any senders, managers, processes and ways to place the threads.
THEOREM Invariance == Spec => []IInv
BY InitInv, StepInv, PTL DEF Spec

\* The type invariant: places and descriptors stay in their ranges; no
\* count of descriptors ever goes below zero.
THEOREM TypeCorrect == Spec => []TypeOK
<1>1. IInv => TypeOK
  BY DEF IInv
<1> QED
  BY <1>1, Invariance, PTL

\* Framing: rate_watcher and limit_manager exchange untagged doubles, and
\* still no sample is ever taken for a max_rate nor a max_rate for a sample.
THEOREM FramedAlways == Spec => []Framed
<1>1. IInv => Framed
  BY DEF IInv
<1> QED
  BY <1>1, Invariance, PTL

\* A sender is in at most one place: one backlog, once, or one session.
THEOREM OneManagerAlways == Spec => []OneManager
<1>1. IInv => OneManager
  BY DEF IInv
<1> QED
  BY <1>1, Invariance, PTL

\* Descriptors: the open ones of a live process are its connections and the
\* ones the code's "continue" paths lost.
THEOREM BalanceAlways == Spec => []Balance
<1>1. IInv => Balance
  BY DEF IInv
<1> QED
  BY <1>1, Invariance, PTL

\* The ends of a process that the link itself brings about: it wants a
\* descriptor only where those lost and one for each thread reach the limit,
\* and its accept meets a socket that does not listen only where another
\* manager bound the path between the unlink and the bind of one of its own.
THEOREM FatalExplainedAlways == Spec => []FatalExplained
<1>1. IInv => FatalExplained
  BY DEF IInv
<1> QED
  BY <1>1, Invariance, PTL

=============================================================================
