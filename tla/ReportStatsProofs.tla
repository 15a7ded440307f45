------------------------- MODULE ReportStatsProofs --------------------------
(***************************************************************************)
(* No trained iteration is lost on its way to the worker, for every set of *)
(* jobs, number of iterations, number of retries and size of the pool.     *)
(*                                                                         *)
(* NoIterationLost alone is not inductive: when a call is acknowledged the *)
(* trainer forgets its count, which is right only because the call carried *)
(* all of it and had been applied.  WaitedCall says so of the one call a   *)
(* trainer waits for; calls it gave up on can only add to the count.       *)
(*                                                                         *)
(* ExactAccounting says by how much: by the sum over the calls applied and *)
(* not acknowledged, which gains the call a handler applies and loses the  *)
(* one whose answer arrives (FiniteSums).                                  *)
(***************************************************************************)
EXTENDS ReportStats, FiniteSums, TLAPS

USE DEF Busy, Applied

\* What a handler may do: count more, never less, and turn a waited call into
\* an applied one only when its iterations have been counted.
LEMMA HandlerKeeps ==
    ASSUME IInv, UNCHANGED trainer,
           fin' \in [Job -> Nat], \A i \in Job : fin'[i] >= fin[i],
           \A i \in Job :
              /\ Len(calls'[i]) = Len(calls[i])
              /\ \A h \in 1 .. Len(calls[i]) :
                    /\ calls'[i][h].n = calls[i][h].n
                    /\ calls'[i][h].st \in Applied =>
                          \/ calls[i][h].st \in Applied
                          \/ fin'[i] >= fin[i] + calls[i][h].n
    PROVE  TriesLeft' /\ WaitedCall' /\ NoIterationLost'
<1>1. TriesLeft'
  BY DEF IInv, TriesLeft, trainer
<1>2. NoIterationLost'
  BY DEF IInv, TypeOK, NoIterationLost, trainer
<1>3. ASSUME NEW i \in Job, Waiting(i)'
      PROVE  /\ calls'[i] # <<>>
             /\ calls'[i][Len(calls'[i])].n = unreported'[i]
             /\ calls'[i][Len(calls'[i])].st \in Applied => fin'[i] >= done'[i]
  <2> DEFINE last == Len(calls[i])
  <2>1. /\ calls[i] \in Seq(CallRecord) /\ calls[i] # <<>>
        /\ calls[i][last].n = unreported[i]
        /\ calls[i][last].st \in Applied => fin[i] >= done[i]
    BY <1>3 DEF IInv, TypeOK, WaitedCall, Waiting, Last, trainer
  <2>2. last \in 1 .. Len(calls[i]) /\ Len(calls'[i]) = last
    BY <2>1
  <2>3. /\ fin[i] + unreported[i] >= done[i]
        /\ fin[i] \in Nat /\ unreported[i] \in Nat /\ done[i] \in Nat
    BY DEF IInv, TypeOK, NoIterationLost
  <2>4. calls'[i] # <<>>
    BY <2>1, <2>2
  <2>5. calls'[i][last].n = unreported'[i]
    BY <2>1, <2>2 DEF trainer
  <2>6. calls'[i][last].st \in Applied => fin'[i] >= done'[i]
    <3>1. done'[i] = done[i] /\ fin'[i] \in Nat /\ fin'[i] >= fin[i]
      BY DEF trainer
    <3>2. CASE calls[i][last].st \in Applied
      BY <2>1, <2>3, <3>1, <3>2
    <3>3. CASE fin'[i] >= fin[i] + calls[i][last].n
      <4>1. fin'[i] >= fin[i] + unreported[i]
        BY <2>1, <3>3
      <4> QED BY <2>3, <3>1, <4>1
    <3> QED BY <2>2, <3>2, <3>3
  <2> QED BY <2>2, <2>4, <2>5, <2>6
<1>4. WaitedCall'
  BY <1>3 DEF WaitedCall, Last
<1> QED BY <1>1, <1>2, <1>4

-----------------------------------------------------------------------------

LEMMA InitInv == ASSUME Init PROVE IInv
<1> USE ReportAssumption DEF Init
<1>1. TypeOK
  <2>1. \A j \in Job : <<>> \in Seq(CallRecord)
    OBVIOUS
  <2>2. calls \in [Job -> Seq(CallRecord)]
    BY <2>1
  <2> QED BY <2>2 DEF TypeOK
<1>2. TriesLeft /\ WaitedCall
  BY DEF TriesLeft, WaitedCall, Waiting
<1>3. NoIterationLost
  BY DEF NoIterationLost
<1> QED BY <1>1, <1>2, <1>3 DEF IInv

\* A handler that replaces its record by one with the same request.
LEMMA ReplaceInv ==
    ASSUME IInv, NEW j \in Job, NEW k \in Ids(j), NEW c \in CallRecord,
           calls' = [calls EXCEPT ![j][k] = c], c.n = calls[j][k].n,
           fin' \in [Job -> Nat], \A i \in Job : fin'[i] >= fin[i],
           c.st \in Applied => \/ calls[j][k].st \in Applied
                              \/ fin'[j] >= fin[j] + c.n,
           UNCHANGED <<trainer, main>>,
           order' \in Seq(Job), tput' \in [Job -> Nat]
    PROVE  IInv'
<1> HIDE DEF Applied
<1>1. calls \in [Job -> Seq(CallRecord)]
  BY DEF IInv, TypeOK
<1>2. calls[j] \in Seq(CallRecord) /\ k \in 1 .. Len(calls[j])
  BY <1>1 DEF Ids
<1> DEFINE s == [calls[j] EXCEPT ![k] = c]
<1>3. /\ s \in Seq(CallRecord) /\ Len(s) = Len(calls[j])
      /\ s[k] = c /\ \A h \in 1 .. Len(s) : h # k => s[h] = calls[j][h]
  BY <1>2
<1>4. calls' = [calls EXCEPT ![j] = s]
  OBVIOUS
<1> HIDE DEF s
<1>5. calls' \in [Job -> Seq(CallRecord)] /\ calls'[j] = s
      /\ \A i \in Job : i # j => calls'[i] = calls[i]
  BY <1>1, <1>3, <1>4
<1>6. TypeOK'
  BY <1>5 DEF IInv, TypeOK, trainer, main
<1>7. ASSUME NEW i \in Job
      PROVE  /\ Len(calls'[i]) = Len(calls[i])
             /\ \A h \in 1 .. Len(calls[i]) :
                   /\ calls'[i][h].n = calls[i][h].n
                   /\ calls'[i][h].st \in Applied =>
                         \/ calls[i][h].st \in Applied
                         \/ fin'[i] >= fin[i] + calls[i][h].n
  <2>1. CASE i # j
    BY <1>5, <2>1
  <2>2. CASE i = j
    <3>1. ASSUME NEW h \in 1 .. Len(calls[j])
          PROVE  /\ s[h].n = calls[j][h].n
                 /\ s[h].st \in Applied =>
                       \/ calls[j][h].st \in Applied
                       \/ fin'[j] >= fin[j] + calls[j][h].n
      <4>1. CASE h = k
        BY <1>3, <4>1
      <4>2. CASE h # k
        BY <1>3, <4>2
      <4> QED BY <4>1, <4>2
    <3> QED BY <1>3, <1>5, <2>2, <3>1
  <2> QED BY <2>1, <2>2
<1>8. UNCHANGED trainer
  OBVIOUS
<1>9. TriesLeft' /\ WaitedCall' /\ NoIterationLost'
  BY <1>7, <1>8, HandlerKeeps
<1> QED BY <1>6, <1>9 DEF IInv

\* A handler that moves on without counting.
LEMMA GotoInv ==
    ASSUME IInv, NEW j \in Job, NEW k \in Ids(j),
           NEW st \in {"net", "refused"} \cup Busy \cup Applied, Goto(j, k, st),
           st \in Applied => calls[j][k].st \in Applied,
           UNCHANGED <<trainer, main, fin>>,
           order' \in Seq(Job), tput' \in [Job -> Nat]
    PROVE  IInv'
<1> DEFINE c == IF st \in Busy THEN [calls[j][k] EXCEPT !.st = st]
                               ELSE [Call(calls[j][k].n) EXCEPT !.st = st]
<1>1. fin \in [Job -> Nat] /\ calls \in [Job -> Seq(CallRecord)]
  BY DEF IInv, TypeOK
<1>2. calls[j] \in Seq(CallRecord) /\ k \in 1 .. Len(calls[j])
  BY <1>1 DEF Ids
<1>3. calls[j][k] \in CallRecord
  BY <1>2
<1>4. c \in CallRecord /\ c.n = calls[j][k].n /\ c.st = st
  <2>1. Call(calls[j][k].n) \in CallRecord /\ Call(calls[j][k].n).n = calls[j][k].n
    BY <1>3 DEF Call, CallRecord
  <2> HIDE DEF Call
  <2>2. ASSUME NEW r \in CallRecord
        PROVE  /\ [r EXCEPT !.st = st] \in CallRecord
               /\ [r EXCEPT !.st = st].n = r.n /\ [r EXCEPT !.st = st].st = st
    BY DEF CallRecord
  <2> QED BY <1>3, <2>1, <2>2
<1>5. calls' = [calls EXCEPT ![j][k] = c]
  BY DEF Goto
<1> HIDE DEF c
<1>6. fin' \in [Job -> Nat] /\ \A i \in Job : fin'[i] >= fin[i]
  BY <1>1
<1>7. UNCHANGED <<trainer, main>>
  OBVIOUS
<1> QED BY <1>4, <1>5, <1>6, <1>7, ReplaceInv

\* The steps of a handler.
LEMMA HandleInv ==
    ASSUME IInv, NEW j \in Job, NEW k \in Ids(j), Handle(j, k)
    PROVE  IInv'
<1>a. calls[j] \in Seq(CallRecord) /\ k \in 1 .. Len(calls[j])
  BY DEF IInv, TypeOK, Ids
<1>b. calls[j][k] \in CallRecord
  BY <1>a
<1>c. /\ calls[j][k].n \in Nat /\ calls[j][k].tp \in Nat
      /\ calls[j][k].at \in Nat /\ calls[j][k].size \in Nat
      /\ calls[j][k].seen \in Seq(Job \X Nat)
  BY <1>b DEF CallRecord
<1>0. fin \in [Job -> Nat] /\ order \in Seq(Job) /\ tput \in [Job -> Nat]
  BY DEF IInv, TypeOK
<1>1. CASE Accept(j, k)
  <2>1. PICK st \in {"update", "refused"} : Goto(j, k, st)
    BY <1>1 DEF Accept
  <2>2. UNCHANGED <<trainer, main, fin, reports>>
    BY <1>1 DEF Accept
  <2> QED BY <1>0, <2>1, <2>2, GotoInv DEF reports
<1>2. CASE Update(j, k)
  <2>1. PICK tp \in Rates[j] :
           calls' = [calls EXCEPT ![j][k].st = "publish",
                                  ![j][k].tp = IF calls[j][k].n = 0 THEN 0 ELSE tp]
    BY <1>2 DEF Update
  <2> DEFINE t == IF calls[j][k].n = 0 THEN 0 ELSE tp
             c == [[calls[j][k] EXCEPT !.st = "publish"] EXCEPT !.tp = t]
  <2>2. t \in Nat
    BY ReportAssumption
  <2> HIDE DEF t
  <2>3. c \in CallRecord /\ c.n = calls[j][k].n
    BY <1>b, <2>2 DEF CallRecord
  <2>4. calls' = [calls EXCEPT ![j][k] = c]
    BY <1>a, <1>b, <2>1 DEF t, CallRecord
  <2>5. fin' = [fin EXCEPT ![j] = @ + calls[j][k].n] /\ calls[j][k].n \in Nat
    BY <1>c, <1>2 DEF Update
  <2>6. /\ fin' \in [Job -> Nat] /\ \A i \in Job : fin'[i] >= fin[i]
        /\ fin'[j] >= fin[j] + c.n
    BY <1>0, <2>3, <2>5
  <2>7. UNCHANGED <<trainer, main, reports>>
    BY <1>2 DEF Update
  <2> HIDE DEF c
  <2> QED BY <1>0, <2>3, <2>4, <2>6, <2>7, ReplaceInv DEF reports
<1>3. CASE Publish(j, k)
  <2>1. calls[j][k].tp \in Nat /\ calls[j][k].st = "publish"
    BY <1>c, <1>3 DEF Publish
  <2>2. order' \in Seq(Job) /\ tput' \in [Job -> Nat]
    BY <1>0, <1>3, <2>1 DEF Publish
  <2>3. PICK st \in {"scan", "ok"} : Goto(j, k, st)
    BY <1>3 DEF Publish
  <2>4. UNCHANGED <<trainer, main, fin>>
    BY <1>3 DEF Publish
  <2> QED BY <2>1, <2>2, <2>3, <2>4, GotoInv
<1>4. CASE ScanStep(j, k)
  <2> DEFINE size == IF calls[j][k].at = 0 THEN Len(order) ELSE calls[j][k].size
             r == order[calls[j][k].at + 1]
  <2>0. UNCHANGED <<trainer, main, fin, reports>> /\ calls[j][k].st = "scan"
    BY <1>4 DEF ScanStep
  <2>1. CASE Goto(j, k, "raised")
    BY <1>0, <2>0, <2>1, GotoInv DEF reports
  <2>2. CASE /\ size = Len(order) /\ calls[j][k].at < size
             /\ \E keep \in BOOLEAN : calls' = [calls EXCEPT ![j][k] =
                   [calls[j][k] EXCEPT !.size = size, !.at = @ + 1,
                       !.seen = IF keep THEN Append(@, <<r, tput[r]>>) ELSE @]]
    <3>1. PICK keep \in BOOLEAN : calls' = [calls EXCEPT ![j][k] =
                   [calls[j][k] EXCEPT !.size = size, !.at = @ + 1,
                       !.seen = IF keep THEN Append(@, <<r, tput[r]>>) ELSE @]]
      BY <2>2
    <3> DEFINE c == [calls[j][k] EXCEPT !.size = size, !.at = @ + 1,
                       !.seen = IF keep THEN Append(@, <<r, tput[r]>>) ELSE @]
    <3>2. size \in Nat /\ calls[j][k].at \in Nat /\ r \in Job
      <4>1. calls[j][k].at \in Nat /\ Len(order) \in Nat
        BY <1>0, <1>c
      <4>2. calls[j][k].at + 1 \in 1 .. Len(order)
        BY <2>2, <4>1
      <4>3. r \in Job
        BY <1>0, <4>2
      <4> QED BY <2>2, <4>1, <4>3
    <3>3. /\ calls[j][k].seen \in Seq(Job \X Nat)
          /\ Append(calls[j][k].seen, <<r, tput[r]>>) \in Seq(Job \X Nat)
      <4>1. calls[j][k].seen \in Seq(Job \X Nat) /\ <<r, tput[r]>> \in Job \X Nat
        BY <1>0, <1>c, <3>2
      <4> HIDE DEF r
      <4> QED BY <4>1
    <3> HIDE DEF size, r
    <3>4. c \in CallRecord /\ c.n = calls[j][k].n /\ c.st = "scan"
      <4> DEFINE seen == IF keep THEN Append(calls[j][k].seen, <<r, tput[r]>>)
                                 ELSE calls[j][k].seen
      <4>1. seen \in Seq(Job \X Nat)
        BY <3>3
      <4>2. c = [calls[j][k] EXCEPT !.size = size, !.at = calls[j][k].at + 1, !.seen = seen]
        OBVIOUS
      <4> HIDE DEF c, seen
      <4>4. calls[j][k].at + 1 \in Nat
        BY <3>2
      <4> DEFINE n == calls[j][k].at + 1
                 rec == calls[j][k]
      <4>5. c = [rec EXCEPT !.size = size, !.at = n, !.seen = seen]
        BY <4>2
      <4>6. rec \in CallRecord /\ n \in Nat /\ size \in Nat /\ rec.st = "scan"
        BY <1>b, <2>0, <3>2, <4>4
      <4>7. c \in CallRecord /\ c.n = rec.n /\ c.st = rec.st
        <5> DEFINE S == Seq(Job \X Nat)
        <5>1. /\ seen \in S
              /\ CallRecord = [st : {"net", "refused"} \cup Busy \cup Applied,
                               n : Nat, tp : Nat, size : Nat, at : Nat, seen : S]
          BY <4>1 DEF CallRecord
        <5> HIDE DEF S, n, rec
        <5> QED BY <4>5, <4>6, <5>1
      <4> QED BY <4>6, <4>7
    <3>5. calls' = [calls EXCEPT ![j][k] = c]
      BY <3>1
    <3> HIDE DEF c
    <3>6. fin' \in [Job -> Nat] /\ \A i \in Job : fin'[i] >= fin[i]
      BY <1>0, <2>0
    <3> QED BY <1>0, <2>0, <3>4, <3>5, <3>6, ReplaceInv DEF reports
  <2> QED BY <1>4, <2>1, <2>2 DEF ScanStep
<1>5. CASE Decide(j, k)
  <2>1. PICK st \in {"sleep", "ok"} : Goto(j, k, st)
    BY <1>5 DEF Decide
  <2>2. UNCHANGED <<trainer, main, fin, reports>> /\ calls[j][k].st = "scan"
    BY <1>5 DEF Decide
  <2> QED BY <1>0, <2>1, <2>2, GotoInv DEF reports
<1>6. CASE Wake(j, k)
  BY <1>0, <1>6, GotoInv DEF Wake, reports
<1> QED BY <1>1, <1>2, <1>3, <1>4, <1>5, <1>6 DEF Handle

-----------------------------------------------------------------------------

\* A trainer that sends a report.
LEMMA SendTyped ==
    ASSUME NEW j \in Job, NEW n \in Nat, calls \in [Job -> Seq(CallRecord)], Send(j, n)
    PROVE  /\ calls' \in [Job -> Seq(CallRecord)]
           /\ \A i \in Job : i # j => calls'[i] = calls[i]
           /\ calls'[j] # <<>>
           /\ calls'[j][Len(calls'[j])].n = n
           /\ calls'[j][Len(calls'[j])].st = "net"
<1>1. Call(n) \in CallRecord /\ Call(n).n = n /\ Call(n).st = "net"
  BY DEF Call, CallRecord
<1>2. calls[j] \in Seq(CallRecord)
  OBVIOUS
<1> HIDE DEF Call
<1> DEFINE s == Append(calls[j], Call(n))
<1>3. s \in Seq(CallRecord) /\ s # <<>> /\ s[Len(s)] = Call(n)
  BY <1>1, <1>2
<1>4. calls' = [calls EXCEPT ![j] = s]
  BY DEF Send
<1> HIDE DEF s
<1> QED BY <1>1, <1>3, <1>4

\* The steps of a trainer.
LEMMA TrainerInv ==
    ASSUME IInv, NEW j \in Job, TrainerStep(j) \/ Die(j)
    PROVE  IInv'
<1>0. TypeOK /\ TriesLeft /\ WaitedCall /\ NoIterationLost
  BY DEF IInv
<1>t. /\ fin \in [Job -> Nat] /\ done \in [Job -> 0 .. Iters]
      /\ unreported \in [Job -> Nat] /\ tries \in [Job -> Nat]
      /\ calls \in [Job -> Seq(CallRecord)] /\ DOMAIN phase = Job
      /\ \A i \in Job : tries[i] <= CloseTries[i]
  BY <1>0 DEF TypeOK
<1>i. Iters \in Nat /\ CloseTries \in [Job -> Nat \ {0}]
  BY ReportAssumption
<1>1. CASE Record(j)
  <2>1. /\ done[j] \in Nat /\ done[j] < Iters /\ phase[j] = "train"
        /\ done' = [done EXCEPT ![j] = @ + 1]
        /\ unreported' = [unreported EXCEPT ![j] = @ + 1]
        /\ UNCHANGED <<tries, main, fin, reports>>
    BY <1>1, <1>t, <1>i DEF Record
  <2>2. done' \in [Job -> 0 .. Iters] /\ unreported' \in [Job -> Nat]
    BY <1>t, <1>i, <2>1
  <2>3. NoIterationLost'
    BY <1>0, <1>t, <2>1 DEF NoIterationLost
  <2>4. CASE UNCHANGED <<phase, calls>>
    <3>1. TypeOK'
      BY <1>0, <2>1, <2>2, <2>4 DEF TypeOK, main, reports
    <3>2. TriesLeft' /\ WaitedCall'
      BY <1>0, <1>t, <2>1, <2>4 DEF TriesLeft, WaitedCall, Waiting, Last
    <3> QED BY <2>3, <3>1, <3>2 DEF IInv
  <2>5. CASE Send(j, unreported[j] + 1) /\ phase' = [phase EXCEPT ![j] = "report"]
    <3>0. unreported[j] + 1 \in Nat /\ unreported'[j] = unreported[j] + 1
      BY <1>t, <2>1
    <3>1. TypeOK'
      BY <1>0, <1>t, <2>1, <2>2, <2>5, <3>0, SendTyped DEF TypeOK, main, reports
    <3>2. TriesLeft'
      BY <1>0, <1>t, <2>1, <2>5 DEF TriesLeft
    <3>3. WaitedCall'
      <4>1. /\ \A i \in Job : i # j => calls'[i] = calls[i]
            /\ calls'[j] # <<>>
            /\ calls'[j][Len(calls'[j])].n = unreported[j] + 1
            /\ calls'[j][Len(calls'[j])].st = "net"
        BY <1>t, <2>5, <3>0, SendTyped
      <4>2. \A i \in Job : i # j => /\ phase'[i] = phase[i] /\ fin'[i] = fin[i]
                                   /\ unreported'[i] = unreported[i] /\ done'[i] = done[i]
        BY <1>t, <2>1, <2>5
      <4> QED BY <1>0, <3>0, <4>1, <4>2 DEF WaitedCall, Waiting, Last
    <3> QED BY <2>3, <3>1, <3>2, <3>3 DEF IInv
  <2> QED BY <1>1, <2>4, <2>5 DEF Record
<1>2. CASE Close(j)
  <2>1. /\ Send(j, unreported[j]) /\ phase' = [phase EXCEPT ![j] = "closing"]
        /\ UNCHANGED <<done, unreported, main, fin, reports>>
        /\ \/ tries' = [tries EXCEPT ![j] = CloseTries[j]]
           \/ phase[j] = "backoff" /\ tries' = tries
    BY <1>2 DEF Close
  <2>2. unreported[j] \in Nat
    BY <1>t
  <2>3. tries' \in [Job -> Nat] /\ \A i \in Job : tries'[i] <= CloseTries[i]
    <3>1. CASE tries' = tries
      BY <1>t, <3>1
    <3>2. CASE tries' = [tries EXCEPT ![j] = CloseTries[j]]
      <4>1. CloseTries[j] \in Nat /\ tries' \in [Job -> Nat]
        BY <1>t, <1>i, <3>2
      <4>2. tries'[j] = CloseTries[j] /\ \A i \in Job : i # j => tries'[i] = tries[i]
        BY <1>t, <3>2
      <4>3. ASSUME NEW i \in Job PROVE tries'[i] <= CloseTries[i]
        <5>1. CASE i = j
          BY <4>1, <4>2, <5>1
        <5>2. CASE i # j
          BY <1>t, <4>2, <5>2
        <5> QED BY <5>1, <5>2
      <4> QED BY <4>1, <4>3
    <3> QED BY <2>1, <3>1, <3>2
  <2>4. TypeOK'
    BY <1>0, <1>t, <2>1, <2>2, <2>3, SendTyped DEF TypeOK, main, reports
  <2>5. TriesLeft'
    BY <1>0, <1>t, <1>i, <2>1 DEF TriesLeft
  <2>6. WaitedCall'
    BY <1>0, <1>t, <2>1, <2>2, SendTyped DEF WaitedCall, Waiting, Last
  <2>7. NoIterationLost'
    BY <1>0, <2>1 DEF NoIterationLost
  <2> QED BY <2>4, <2>5, <2>6, <2>7 DEF IInv
<1>3. CASE Acknowledged(j)
  <2>1. /\ Waiting(j) /\ calls[j][Last(j)].st = "ok"
        /\ unreported' = [unreported EXCEPT ![j] = 0]
        /\ phase' = [phase EXCEPT ![j] = IF @ = "report" THEN "train" ELSE "leaving"]
        /\ UNCHANGED <<done, tries, main, fin, reports>>
    BY <1>3 DEF Acknowledged
  <2>2. calls[j] \in Seq(CallRecord) /\ calls[j] # <<>> /\ fin[j] >= done[j]
    BY <1>0, <1>t, <2>1 DEF WaitedCall
  <2> DEFINE s == [calls[j] EXCEPT ![Last(j)] = [calls[j][Last(j)] EXCEPT !.st = "acked"]]
  <2>3. s \in Seq(CallRecord)
    <3>1. Last(j) \in 1 .. Len(calls[j]) /\ calls[j][Last(j)] \in CallRecord
      BY <2>2 DEF Last
    <3>2. [calls[j][Last(j)] EXCEPT !.st = "acked"] \in CallRecord
      BY <3>1 DEF CallRecord
    <3> QED BY <2>2, <3>1, <3>2
  <2>4. calls' = [calls EXCEPT ![j] = s]
    BY <1>3 DEF Acknowledged
  <2> HIDE DEF s
  <2>5. calls' \in [Job -> Seq(CallRecord)] /\ \A i \in Job : i # j => calls'[i] = calls[i]
    BY <1>t, <2>3, <2>4
  <2>6. TypeOK'
    BY <1>0, <2>1, <2>5 DEF TypeOK, main, reports
  <2>7. TriesLeft'
    BY <1>0, <1>t, <2>1 DEF TriesLeft
  <2>8. WaitedCall'
    BY <1>0, <1>t, <2>1, <2>5 DEF WaitedCall, Waiting, Last
  <2>9. NoIterationLost'
    BY <1>0, <1>t, <2>1, <2>2 DEF NoIterationLost
  <2> QED BY <2>6, <2>7, <2>8, <2>9 DEF IInv
<1>4. CASE Failed(j)
  <2>1. /\ UNCHANGED <<done, unreported, calls, main, fin, reports>>
        /\ \/ /\ phase[j] = "report" /\ phase' = [phase EXCEPT ![j] = "train"]
              /\ tries' = tries
           \/ /\ phase[j] = "closing" /\ tries' = [tries EXCEPT ![j] = @ - 1]
              /\ phase' = [phase EXCEPT ![j] = IF tries[j] > 1 THEN "backoff" ELSE "leaving"]
    BY <1>4 DEF Failed
  <2>2. phase[j] = "closing" => tries[j] > 0
    BY <1>0 DEF TriesLeft
  <2>3. tries' \in [Job -> Nat] /\ \A i \in Job : tries'[i] <= CloseTries[i]
    <3>1. CASE tries' = tries
      BY <1>t, <3>1
    <3>2. CASE tries' = [tries EXCEPT ![j] = @ - 1] /\ tries[j] > 0
      <4>1. tries[j] \in Nat /\ tries[j] - 1 \in Nat /\ CloseTries[j] \in Nat
        BY <1>t, <1>i, <3>2
      <4>2. tries'[j] = tries[j] - 1 /\ \A i \in Job : i # j => tries'[i] = tries[i]
        BY <1>t, <3>2
      <4>3. tries'[j] <= CloseTries[j]
        BY <1>t, <4>1, <4>2
      <4>4. tries' \in [Job -> Nat]
        BY <1>t, <3>2, <4>1
      <4> QED BY <1>t, <4>2, <4>3, <4>4
    <3> QED BY <2>1, <2>2, <3>1, <3>2
  <2>4. TypeOK'
    BY <1>0, <2>1, <2>3 DEF TypeOK, main, reports
  <2>5. TriesLeft'
    BY <1>0, <1>t, <1>i, <2>1 DEF TriesLeft
  <2>6. WaitedCall' /\ NoIterationLost'
    BY <1>0, <1>t, <2>1 DEF WaitedCall, Waiting, Last, NoIterationLost
  <2> QED BY <2>4, <2>5, <2>6 DEF IInv
<1>5. CASE Exit(j) \/ Die(j)
  <2>1. /\ phase' = [phase EXCEPT ![j] = "gone"]
        /\ UNCHANGED <<done, unreported, tries, calls, tasks, fin, reaping, reports>>
        /\ \/ container' = [container EXCEPT ![j] = "zero"]
           \/ container' = [container EXCEPT ![j] = "nonzero"]
    BY <1>5 DEF Exit, Die
  <2>2. TypeOK'
    BY <1>0, <2>1 DEF TypeOK, reports
  <2>3. TriesLeft' /\ WaitedCall' /\ NoIterationLost'
    BY <1>0, <1>t, <2>1 DEF TriesLeft, WaitedCall, Waiting, Last, NoIterationLost
  <2> QED BY <2>2, <2>3 DEF IInv
<1> QED BY <1>1, <1>2, <1>3, <1>4, <1>5 DEF TrainerStep

\* The steps of the main loop: only Observe touches a count, and it sets it
\* to all the iterations there are.
LEMMA MainInv == ASSUME IInv, MainStep PROVE IInv'
<1>0. TypeOK /\ TriesLeft /\ WaitedCall /\ NoIterationLost
  BY DEF IInv
<1>t. /\ fin \in [Job -> Nat] /\ done \in [Job -> 0 .. Iters]
      /\ unreported \in [Job -> Nat] /\ DOMAIN phase = Job /\ Iters \in Nat
  BY <1>0, ReportAssumption DEF TypeOK
<1>1. CASE Reap
  BY <1>0, <1>1 DEF IInv, Reap, TypeOK, TriesLeft, WaitedCall, Waiting, Last,
                    NoIterationLost, trainer, reports
<1>2. ASSUME NEW j \in Job, Register(j) PROVE IInv'
  BY <1>0, <1>2 DEF IInv, Register, TypeOK, TriesLeft, WaitedCall, Waiting, Last,
                    NoIterationLost, trainer, reports
<1>3. ASSUME NEW j \in Job, Run(j) PROVE IInv'
  <2>1. TypeOK'
    BY <1>0, <1>3 DEF Run, TypeOK, reports
  <2>2. TriesLeft' /\ WaitedCall' /\ NoIterationLost'
    BY <1>0, <1>t, <1>3 DEF Run, TriesLeft, WaitedCall, Waiting, Last, NoIterationLost
  <2> QED BY <2>1, <2>2 DEF IInv
<1>4. ASSUME NEW j \in Job, Observe(j) PROVE IInv'
  <2>1. /\ UNCHANGED <<trainer, calls, container, tasks, reports>>
        /\ reaping' = reaping \cup {j}
        /\ fin' = [fin EXCEPT ![j] = IF container[j] = "zero" THEN Iters ELSE @]
    BY <1>4 DEF Observe
  <2>2. /\ fin' \in [Job -> Nat]
        /\ \A i \in Job : fin'[i] = fin[i] \/ fin'[i] >= done[i]
    BY <1>t, <2>1
  <2>3. TypeOK'
    BY <1>0, <1>4, <2>1, <2>2 DEF TypeOK, trainer, reports
  <2>4. TriesLeft'
    BY <1>0, <2>1 DEF TriesLeft, trainer
  <2>5. WaitedCall'
    BY <1>0, <2>1, <2>2 DEF WaitedCall, Waiting, Last, trainer
  <2>6. NoIterationLost'
    BY <1>0, <1>t, <2>1, <2>2 DEF NoIterationLost, trainer
  <2> QED BY <2>3, <2>4, <2>5, <2>6 DEF IInv
<1> QED BY <1>1, <1>2, <1>3, <1>4 DEF MainStep

-----------------------------------------------------------------------------

\* The inductive invariant of the report path, in every reachable state.
THEOREM Invariance == Spec => []IInv
<1>1. Init => IInv
  BY InitInv
<1>2. IInv /\ [Next]_vars => IInv'
  <2> SUFFICES ASSUME IInv, [Next]_vars PROVE IInv'
    OBVIOUS
  <2>1. CASE UNCHANGED vars
    BY <2>1 DEF vars, IInv, TypeOK, TriesLeft, WaitedCall, Waiting, Last, NoIterationLost
  <2>2. CASE \E j \in Job : TrainerStep(j) \/ Die(j)
    BY <2>2, TrainerInv
  <2>3. CASE \E j \in Job : \E k \in Ids(j) : Handle(j, k)
    BY <2>3, HandleInv
  <2>4. CASE MainStep
    BY <2>4, MainInv
  <2> QED BY <2>1, <2>2, <2>3, <2>4 DEF Next, Finished
<1> QED BY <1>1, <1>2, PTL DEF Spec

\* Types, for every trace and pool.
THEOREM TypeCorrect == Spec => []TypeOK
<1>1. IInv => TypeOK
  BY DEF IInv
<1> QED BY <1>1, Invariance, PTL

\* No trained iteration is lost by record(), close() and the RPC between
\* them and Task.update, whatever the network, the pool and the exits do.
THEOREM NothingLost == Spec => []NoIterationLost
<1>1. IInv => NoIterationLost
  BY DEF IInv
<1> QED BY <1>1, Invariance, PTL

-----------------------------------------------------------------------------
(* Refusals.  That a refused call is of a dead container is not inductive  *)
(* either: it needs that _tasks holds every container that is up, and that *)
(* no call is there before it is, which is Lifecycle.                      *)

\* What may become of the calls in a step that sends none: one record is
\* replaced, by a refusal only out of _tasks.
Replaced(j, k) ==
    \E c : calls' = [calls EXCEPT ![j][k] = c] /\ (c.st = "refused" => j \notin tasks)

\* A handler keeps the request; what it counts in fin is what makes the call
\* one that was applied.
Counted(st) == st \in Applied \ {"acked"}
Handled(j, k, c) ==
    /\ calls' = [calls EXCEPT ![j][k] = c]
    /\ c.n = calls[j][k].n
    /\ c.st = "refused" => j \notin tasks
    /\ \/ fin' = fin /\ (Counted(c.st) <=> Counted(calls[j][k].st))
       \/ /\ fin' = [fin EXCEPT ![j] = @ + calls[j][k].n]
          /\ Counted(c.st) /\ ~Counted(calls[j][k].st)

LEMMA ReplaceRefused ==
    ASSUME calls \in [Job -> Seq(CallRecord)], NEW j \in Job, NEW k \in Ids(j), Replaced(j, k)
    PROVE  \A i \in Job :
              /\ (calls[i] = <<>>) => (calls'[i] = <<>>)
              /\ \A h \in Ids(i)' : /\ h \in Ids(i)
                                    /\ calls'[i][h].st = "refused" =>
                                         calls[i][h].st = "refused" \/ (i = j /\ j \notin tasks)
<1>1. calls[j] \in Seq(CallRecord) /\ k \in 1 .. Len(calls[j])
  BY DEF Ids
<1>c. PICK c : calls' = [calls EXCEPT ![j][k] = c] /\ (c.st = "refused" => j \notin tasks)
  BY DEF Replaced
<1> DEFINE s == [calls[j] EXCEPT ![k] = c]
<1>2. /\ DOMAIN s = DOMAIN calls[j] /\ s[k] = c
      /\ \A h \in DOMAIN s : h # k => s[h] = calls[j][h]
  BY <1>1
<1>3. calls' = [calls EXCEPT ![j] = s]
  BY <1>c
<1> HIDE DEF s
<1>4. calls'[j] = s /\ \A i \in Job : i # j => calls'[i] = calls[i]
  BY <1>3
<1>5. calls[j] # <<>>
  BY <1>1
<1>6. ASSUME NEW h \in Ids(j)'
      PROVE  h \in Ids(j) /\ (calls'[j][h].st = "refused" =>
                calls[j][h].st = "refused" \/ j \notin tasks)
  <2>1. h \in DOMAIN s /\ h \in Ids(j)
    BY <1>2, <1>4, <1>6 DEF Ids
  <2> QED BY <1>c, <1>2, <1>4, <2>1
<1> QED BY <1>4, <1>5, <1>6 DEF Ids

LEMMA HandleReplaces ==
    ASSUME TypeOK, NEW j \in Job, NEW k \in Ids(j), Handle(j, k)
    PROVE  UNCHANGED <<trainer, main>> /\ \E c : Handled(j, k, c)
<1>1. calls[j] \in Seq(CallRecord) /\ k \in 1 .. Len(calls[j])
  BY DEF TypeOK, Ids
<1>2. calls[j][k] \in CallRecord
  BY <1>1
<1>3. UNCHANGED <<trainer, main>>
  BY DEF Handle, Accept, Update, Publish, ScanStep, Decide, Wake, main
<1>4. ASSUME NEW st \in {"net", "refused"} \cup Busy \cup Applied, Goto(j, k, st),
             st = "refused" => j \notin tasks, fin' = fin,
             Counted(st) <=> Counted(calls[j][k].st)
      PROVE  \E c : Handled(j, k, c)
  <2> DEFINE c == IF st \in Busy THEN [calls[j][k] EXCEPT !.st = st]
                                 ELSE [Call(calls[j][k].n) EXCEPT !.st = st]
  <2>1. c.st = st /\ c.n = calls[j][k].n
    BY <1>2 DEF Call, CallRecord
  <2>2. calls' = [calls EXCEPT ![j][k] = c]
    BY <1>4 DEF Goto
  <2> HIDE DEF c, Counted
  <2> QED BY <1>4, <2>1, <2>2 DEF Handled
<1>5. CASE Accept(j, k)
  <2>1. /\ Goto(j, k, IF j \in tasks THEN "update" ELSE "refused")
        /\ fin' = fin /\ calls[j][k].st = "net"
    BY <1>5 DEF Accept
  <2>2. PICK st \in {"update", "refused"} : Goto(j, k, st) /\ (st = "refused" => j \notin tasks)
    BY <2>1
  <2>3. Counted(st) <=> Counted(calls[j][k].st)
    BY <2>1 DEF Counted
  <2>4. \E c : Handled(j, k, c)
    BY <1>4, <2>1, <2>2, <2>3
  <2> QED BY <1>3, <2>4
<1>6. CASE Update(j, k)
  <2>1. PICK tp \in Rates[j] :
           calls' = [calls EXCEPT ![j][k].st = "publish",
                                  ![j][k].tp = IF calls[j][k].n = 0 THEN 0 ELSE tp]
    BY <1>6 DEF Update
  <2> DEFINE t == IF calls[j][k].n = 0 THEN 0 ELSE tp
             c == [[calls[j][k] EXCEPT !.st = "publish"] EXCEPT !.tp = t]
  <2> HIDE DEF t
  <2>2. c.st = "publish" /\ c.n = calls[j][k].n
    BY <1>2 DEF CallRecord
  <2>3. calls' = [calls EXCEPT ![j][k] = c]
    BY <1>1, <1>2, <2>1 DEF CallRecord, t
  <2> HIDE DEF c
  <2>4. /\ fin' = [fin EXCEPT ![j] = @ + calls[j][k].n]
        /\ Counted(c.st) /\ ~Counted(calls[j][k].st)
    BY <1>6, <2>2 DEF Update, Counted
  <2> QED BY <1>3, <2>2, <2>3, <2>4 DEF Handled
<1>7. CASE Publish(j, k) \/ Decide(j, k) \/ Wake(j, k)
  <2>1. PICK st \in {"scan", "ok", "sleep"} : Goto(j, k, st)
    BY <1>7 DEF Publish, Decide, Wake
  <2>2. fin' = fin /\ calls[j][k].st \in {"publish", "scan", "sleep"}
    BY <1>7 DEF Publish, Decide, Wake
  <2>3. Counted(st) /\ Counted(calls[j][k].st)
    BY <2>2 DEF Counted
  <2>4. st \in {"net", "refused"} \cup Busy \cup Applied /\ st # "refused"
    OBVIOUS
  <2>5. \E c : Handled(j, k, c)
    BY <1>4, <2>1, <2>2, <2>3, <2>4
  <2> QED BY <1>3, <2>5
<1>8. CASE ScanStep(j, k)
  <2>0. fin' = fin /\ calls[j][k].st = "scan"
    BY <1>8 DEF ScanStep
  <2>1. CASE Goto(j, k, "raised")
    <3>1. "raised" \in {"net", "refused"} \cup Busy \cup Applied /\ "raised" # "refused"
      OBVIOUS
    <3>2. Counted("raised") /\ Counted(calls[j][k].st)
      BY <2>0 DEF Counted
    <3>3. \E c : Handled(j, k, c)
      BY <1>4, <2>0, <2>1, <3>1, <3>2
    <3> QED BY <1>3, <3>3
  <2>2. CASE ~Goto(j, k, "raised")
    <3> DEFINE size == IF calls[j][k].at = 0 THEN Len(order) ELSE calls[j][k].size
               r == order[calls[j][k].at + 1]
    <3>1. \E keep \in BOOLEAN : calls' = [calls EXCEPT ![j][k] =
                [calls[j][k] EXCEPT !.size = size, !.at = @ + 1,
                    !.seen = IF keep THEN Append(@, <<r, tput[r]>>) ELSE @]]
      BY <1>8, <2>2 DEF ScanStep
    <3> HIDE DEF size, r
    <3>2. PICK keep \in BOOLEAN : calls' = [calls EXCEPT ![j][k] =
                [calls[j][k] EXCEPT !.size = size, !.at = @ + 1,
                    !.seen = IF keep THEN Append(@, <<r, tput[r]>>) ELSE @]]
      BY <3>1
    <3> DEFINE c == [calls[j][k] EXCEPT !.size = size, !.at = @ + 1,
                        !.seen = IF keep THEN Append(@, <<r, tput[r]>>) ELSE @]
    <3>3. c.st = "scan" /\ c.n = calls[j][k].n
      BY <1>2, <2>0 DEF CallRecord
    <3>4. calls' = [calls EXCEPT ![j][k] = c]
      BY <3>2
    <3> HIDE DEF c
    <3> QED BY <1>3, <2>0, <3>3, <3>4 DEF Handled
  <2> QED BY <2>1, <2>2
<1> QED BY <1>3, <1>5, <1>6, <1>7, <1>8 DEF Handle

\* A step that replaces a call, of a job whose container was started.
LEMMA ReplacedKeeps ==
    ASSUME TypeOK, Lifecycle, RefusedOnlyAfterExit, NEW j \in Job, NEW k \in Ids(j),
           Replaced(j, k), UNCHANGED <<container, tasks, reaping>>, phase[j] # "none" \/ phase' = phase,
           \A i \in Job : i # j => phase'[i] = phase[i]
    PROVE  Lifecycle' /\ RefusedOnlyAfterExit'
<1>1. calls \in [Job -> Seq(CallRecord)]
  BY DEF TypeOK
<1>2. \A i \in Job :
         /\ (calls[i] = <<>>) => (calls'[i] = <<>>)
         /\ \A h \in Ids(i)' : /\ h \in Ids(i)
                               /\ calls'[i][h].st = "refused" =>
                                    calls[i][h].st = "refused" \/ (i = j /\ j \notin tasks)
  BY <1>1, ReplaceRefused
<1>3. container[j] # "none"
  <2>1. calls[j] # <<>>
    BY <1>1 DEF Ids
  <2> QED BY <2>1 DEF Lifecycle
<1>4. j \notin tasks => container[j] # "up"
  BY DEF Lifecycle
<1>5. Lifecycle'
  BY <1>2, <1>3 DEF Lifecycle
<1>6. RefusedOnlyAfterExit'
  BY <1>2, <1>3, <1>4 DEF RefusedOnlyAfterExit
<1> QED BY <1>5, <1>6

\* A step that sends a call, of a job whose trainer has begun.
LEMMA SendKeeps ==
    ASSUME TypeOK, Lifecycle, RefusedOnlyAfterExit, NEW j \in Job, NEW n \in Nat,
           Send(j, n), UNCHANGED <<container, tasks, reaping>>, phase[j] # "none",
           \A i \in Job : i # j => phase'[i] = phase[i]
    PROVE  Lifecycle' /\ RefusedOnlyAfterExit'
<1> DEFINE s == Append(calls[j], Call(n))
<1>1. calls \in [Job -> Seq(CallRecord)] /\ calls[j] \in Seq(CallRecord)
  BY DEF TypeOK
<1>2. Call(n).st = "net"
  BY DEF Call
<1> HIDE DEF Call
<1>3. \A h \in DOMAIN s : s[h] = Call(n) \/ (h \in DOMAIN calls[j] /\ s[h] = calls[j][h])
  BY <1>1
<1>4. calls' = [calls EXCEPT ![j] = s]
  BY DEF Send
<1> HIDE DEF s
<1>5. calls'[j] = s /\ \A i \in Job : i # j => calls'[i] = calls[i]
  BY <1>1, <1>4
<1>6. Lifecycle'
  BY <1>5 DEF Lifecycle
<1>7. ASSUME NEW i \in Job, NEW h \in Ids(i)', calls'[i][h].st = "refused"
      PROVE  container'[i] \notin {"none", "up"}
  <2>1. h \in Ids(i) /\ calls[i][h].st = "refused"
    BY <1>2, <1>3, <1>5, <1>7 DEF Ids
  <2> QED BY <2>1 DEF RefusedOnlyAfterExit
<1>8. RefusedOnlyAfterExit'
  BY <1>7 DEF RefusedOnlyAfterExit
<1> QED BY <1>6, <1>8

LEMMA RefusedStep ==
    ASSUME IInv, Lifecycle, RefusedOnlyAfterExit, [Next]_vars
    PROVE  Lifecycle' /\ RefusedOnlyAfterExit'
<1>0. /\ TypeOK /\ DOMAIN phase = Job /\ DOMAIN container = Job
      /\ calls \in [Job -> Seq(CallRecord)]
  BY DEF IInv, TypeOK
<1>1. CASE UNCHANGED vars
  BY <1>1 DEF vars, Lifecycle, RefusedOnlyAfterExit, Ids
<1>2. ASSUME NEW j \in Job, Record(j) \/ Close(j)
      PROVE  Lifecycle' /\ RefusedOnlyAfterExit'
  <2>1. /\ UNCHANGED <<container, tasks, reaping>> /\ phase[j] # "none"
        /\ \A i \in Job : i # j => phase'[i] = phase[i]
    BY <1>0, <1>2 DEF Record, Close, main
  <2>2. unreported[j] \in Nat /\ unreported[j] + 1 \in Nat
    BY <1>0 DEF TypeOK
  <2>3. (\E n \in Nat : Send(j, n)) \/ UNCHANGED <<phase, calls>>
    BY <1>2, <2>2 DEF Record, Close
  <2>4. CASE UNCHANGED <<phase, calls>>
    BY <2>1, <2>4 DEF Lifecycle, RefusedOnlyAfterExit, Ids
  <2> QED BY <1>0, <2>1, <2>3, <2>4, SendKeeps
<1>3. ASSUME NEW j \in Job, Acknowledged(j)
      PROVE  Lifecycle' /\ RefusedOnlyAfterExit'
  <2>1. /\ Waiting(j) /\ UNCHANGED <<container, tasks, reaping>>
        /\ \A i \in Job : i # j => phase'[i] = phase[i]
    BY <1>0, <1>3 DEF Acknowledged, main
  <2>2. Last(j) \in Ids(j) /\ calls[j][Last(j)] \in CallRecord
    <3>1. calls[j] \in Seq(CallRecord) /\ calls[j] # <<>>
      BY <1>0, <2>1 DEF IInv, WaitedCall
    <3> QED BY <3>1 DEF Last, Ids
  <2> DEFINE c == [calls[j][Last(j)] EXCEPT !.st = "acked"]
  <2>3. c.st = "acked"
    BY <2>2 DEF CallRecord
  <2>4. calls' = [calls EXCEPT ![j][Last(j)] = c]
    BY <1>3 DEF Acknowledged
  <2> HIDE DEF c
  <2>5. Replaced(j, Last(j)) /\ phase[j] # "none"
    BY <2>1, <2>3, <2>4 DEF Replaced, Waiting
  <2> QED BY <1>0, <2>1, <2>2, <2>5, ReplacedKeeps
<1>4. ASSUME NEW j \in Job, Failed(j)
      PROVE  Lifecycle' /\ RefusedOnlyAfterExit'
  BY <1>0, <1>4 DEF Failed, Waiting, main, Lifecycle, RefusedOnlyAfterExit, Ids
<1>5. ASSUME NEW j \in Job, Exit(j) \/ Die(j)
      PROVE  Lifecycle' /\ RefusedOnlyAfterExit'
  BY <1>0, <1>5 DEF Exit, Die, Lifecycle, RefusedOnlyAfterExit, Ids
<1>6. ASSUME NEW j \in Job, NEW k \in Ids(j), Handle(j, k)
      PROVE  Lifecycle' /\ RefusedOnlyAfterExit'
  <2>1. UNCHANGED <<trainer, main>> /\ Replaced(j, k)
    BY <1>0, <1>6, HandleReplaces DEF Handled, Replaced
  <2>2. UNCHANGED <<phase, container, tasks, reaping>>
    BY <2>1 DEF trainer, main
  <2> QED BY <1>0, <2>1, <2>2, ReplacedKeeps
<1>7. CASE Reap
  BY <1>7 DEF Reap, trainer, Lifecycle, RefusedOnlyAfterExit, Ids
<1>8. ASSUME NEW j \in Job, Register(j) \/ Observe(j)
      PROVE  Lifecycle' /\ RefusedOnlyAfterExit'
  BY <1>8 DEF Register, Observe, trainer, Lifecycle, RefusedOnlyAfterExit, Ids
<1>9. ASSUME NEW j \in Job, Run(j)
      PROVE  Lifecycle' /\ RefusedOnlyAfterExit'
  BY <1>0, <1>9 DEF Run, Launching, Lifecycle, RefusedOnlyAfterExit, Ids
<1> QED BY <1>1, <1>2, <1>3, <1>4, <1>5, <1>6, <1>7, <1>8, <1>9
        DEF Next, TrainerStep, MainStep, Finished

LEMMA Containers == Spec => [](Lifecycle /\ RefusedOnlyAfterExit)
<1>1. Init => Lifecycle /\ RefusedOnlyAfterExit
  BY DEF Init, Lifecycle, RefusedOnlyAfterExit, Ids
<1>2. /\ IInv /\ Lifecycle /\ RefusedOnlyAfterExit /\ [Next]_vars
      => Lifecycle' /\ RefusedOnlyAfterExit'
  BY RefusedStep
<1> QED BY <1>1, <1>2, Invariance, PTL DEF Spec

\* The assertion on _tasks, line 258, fails only for a call whose container
\* ended: however the loop, the exits and the pool are timed.
THEOREM OnlyDeadRefused == Spec => []RefusedOnlyAfterExit
BY Containers, PTL

-----------------------------------------------------------------------------
(* The account.  The sum over a job's calls changes only with the record   *)
(* a step replaces, and by its request: each lemma below is about the      *)
(* sequence of calls of one job, before and after.                         *)

Settled(s) == {h \in DOMAIN s : Counted(s[h].st)}
Total(s) == SumFunctionOnSet([h \in DOMAIN s |-> s[h].n], Settled(s))

LEMMA SettledFinite ==
    ASSUME NEW s \in Seq(CallRecord)
    PROVE  /\ IsFiniteSet(Settled(s)) /\ Settled(s) \subseteq DOMAIN s
           /\ \A h \in Settled(s) : [i \in DOMAIN s |-> s[i].n][h] \in Nat
<1>1. DOMAIN s = 1 .. Len(s) /\ Len(s) \in Nat /\ IsFiniteSet(1 .. Len(s))
  BY FS_Interval
<1>2. \A h \in DOMAIN s : s[h].n \in Nat
  <2>1. \A h \in DOMAIN s : s[h] \in CallRecord
    BY <1>1
  <2> QED BY <2>1 DEF CallRecord
<1>3. Settled(s) \in SUBSET DOMAIN s
  BY DEF Settled
<1>4. IsFiniteSet(Settled(s))
  BY <1>1, <1>3, FS_Subset
<1> QED BY <1>2, <1>3, <1>4

LEMMA TotalType == ASSUME NEW s \in Seq(CallRecord) PROVE Total(s) \in Nat
BY SettledFinite, SumType DEF Total

\* The calls that count are the same, with the same requests.
LEMMA TotalSame ==
    ASSUME NEW s \in Seq(CallRecord), NEW t \in Seq(CallRecord), Settled(t) = Settled(s),
           \A h \in Settled(s) : t[h].n = s[h].n
    PROVE  Total(t) = Total(s)
<1> DEFINE f == [h \in DOMAIN s |-> s[h].n]
           g == [h \in DOMAIN t |-> t[h].n]
<1>1. IsFiniteSet(Settled(s)) /\ \A h \in Settled(s) : f[h] \in Nat /\ g[h] = f[h]
  BY SettledFinite
<1> HIDE DEF f, g
<1>2. SumFunctionOnSet(g, Settled(s)) = SumFunctionOnSet(f, Settled(s))
  BY <1>1, SumSame
<1> QED BY <1>2 DEF Total, f, g

\* One call more counts.
LEMMA TotalMore ==
    ASSUME NEW s \in Seq(CallRecord), NEW t \in Seq(CallRecord), NEW k \in Settled(t),
           Settled(s) = Settled(t) \ {k}, \A h \in Settled(s) : t[h].n = s[h].n
    PROVE  Total(t) = Total(s) + t[k].n
<1> DEFINE f == [h \in DOMAIN s |-> s[h].n]
           g == [h \in DOMAIN t |-> t[h].n]
<1>1. IsFiniteSet(Settled(t)) /\ \A h \in Settled(t) : g[h] \in Nat
  BY SettledFinite
<1>2. g[k] = t[k].n /\ k \in DOMAIN t
  BY SettledFinite
<1>3. IsFiniteSet(Settled(s)) /\ \A h \in Settled(s) : f[h] \in Nat /\ g[h] = f[h]
  BY SettledFinite
<1> HIDE DEF f, g
<1>4. /\ SumFunctionOnSet(g, Settled(t)) = g[k] + SumFunctionOnSet(g, Settled(t) \ {k})
      /\ SumFunctionOnSet(g, Settled(t) \ {k}) \in Nat
  BY <1>1, SumRemove
<1>5. SumFunctionOnSet(g, Settled(s)) = SumFunctionOnSet(f, Settled(s))
  BY <1>3, SumSame
<1>6. g[k] \in Nat
  BY <1>1
<1>7. Total(t) = g[k] + Total(s) /\ Total(s) \in Nat
  BY <1>4, <1>5 DEF Total, f, g
<1> QED BY <1>2, <1>6, <1>7

LEMMA TotalSent ==
    ASSUME NEW s \in Seq(CallRecord), NEW n \in Nat
    PROVE  Append(s, Call(n)) \in Seq(CallRecord) /\ Total(Append(s, Call(n))) = Total(s)
<1> DEFINE t == Append(s, Call(n))
<1>1. Call(n) \in CallRecord /\ ~Counted(Call(n).st)
  BY DEF Call, CallRecord, Counted
<1> HIDE DEF Call
<1>2. /\ t \in Seq(CallRecord) /\ DOMAIN t = DOMAIN s \cup {Len(s) + 1}
      /\ t[Len(s) + 1] = Call(n) /\ \A h \in DOMAIN s : t[h] = s[h]
  BY <1>1
<1> HIDE DEF t
<1>3. Settled(t) = Settled(s) /\ \A h \in Settled(s) : t[h].n = s[h].n
  BY <1>1, <1>2 DEF Settled
<1>4. Total(t) = Total(s)
  BY <1>2, <1>3, TotalSame
<1> QED BY <1>2, <1>4 DEF t

\* One record is replaced, with the same request.
LEMMA TotalReplaced ==
    ASSUME NEW s \in Seq(CallRecord), NEW k \in DOMAIN s, NEW c, NEW t \in Seq(CallRecord),
           t = [s EXCEPT ![k] = c], c.n = s[k].n
    PROVE  /\ (Counted(c.st) <=> Counted(s[k].st)) => Total(t) = Total(s)
           /\ (Counted(c.st) /\ ~Counted(s[k].st)) => Total(t) = Total(s) + c.n
           /\ (~Counted(c.st) /\ Counted(s[k].st)) => Total(s) = Total(t) + c.n
<1>1. /\ DOMAIN t = DOMAIN s /\ t[k] = c /\ \A h \in DOMAIN s : h # k => t[h] = s[h]
      /\ \A h \in DOMAIN s : t[h].n = s[h].n
  OBVIOUS
<1>2. Settled(s) \subseteq DOMAIN s /\ Settled(t) \subseteq DOMAIN s
  BY <1>1 DEF Settled
<1>3. CASE Counted(c.st) <=> Counted(s[k].st)
  <2>1. Settled(t) = Settled(s)
    BY <1>1, <1>3 DEF Settled
  <2>2. Total(t) = Total(s)
    BY <1>1, <1>2, <2>1, TotalSame
  <2> QED BY <1>3, <2>2
<1>4. CASE Counted(c.st) /\ ~Counted(s[k].st)
  <2>1. k \in Settled(t) /\ Settled(s) = Settled(t) \ {k}
    BY <1>1, <1>4 DEF Settled
  <2>2. Total(t) = Total(s) + t[k].n
    BY <1>1, <1>2, <2>1, TotalMore
  <2> QED BY <1>1, <1>4, <2>2
<1>5. CASE ~Counted(c.st) /\ Counted(s[k].st)
  <2>1. k \in Settled(s) /\ Settled(t) = Settled(s) \ {k}
    BY <1>1, <1>5 DEF Settled
  <2>2. \A h \in Settled(t) : s[h].n = t[h].n
    BY <1>1, <1>2
  <2>3. Total(s) = Total(t) + s[k].n
    BY <2>1, <2>2, TotalMore
  <2> QED BY <1>5, <2>3
<1> QED BY <1>3, <1>4, <1>5

\* The account of one job.
Balance(j) == fin[j] + unreported[j] = done[j] + Total(calls[j])

AllBalance == \A j \in tasks \ reaping : Balance(j)

LEMMA AccountIsBalance == ExactAccounting <=> AllBalance
BY DEF ExactAccounting, AllBalance, Balance, Total, Settled, Unacknowledged, Ids, Counted

-----------------------------------------------------------------------------
(* Every step keeps the accounts in balance.                               *)

\* The steps of the trainer.  A record or a failure moves nothing between
\* the two sides; an acknowledged call leaves both.
LEMMA TrainerBalances ==
    ASSUME IInv, Lifecycle, NothingBefore, ExactAccounting,
           NEW j \in Job, TrainerStep(j) \/ Die(j)
    PROVE  NothingBefore' /\ ExactAccounting'
<1>0. /\ fin \in [Job -> Nat] /\ unreported \in [Job -> Nat] /\ done \in [Job -> 0 .. Iters]
      /\ calls \in [Job -> Seq(CallRecord)] /\ tasks \subseteq Job /\ Iters \in Nat
      /\ container \in [Job -> {"absent", "none", "up", "zero", "nonzero"}]
  BY ReportAssumption DEF IInv, TypeOK
<1>n. /\ fin[j] \in Nat /\ unreported[j] \in Nat /\ done[j] \in Nat
      /\ calls[j] \in Seq(CallRecord)
  BY <1>0
<1>b. \A i \in tasks \ reaping : Balance(i)
  BY AccountIsBalance DEF AllBalance
<1>1. CASE Failed(j)
  BY <1>1 DEF Failed, main, NothingBefore, ExactAccounting, Unacknowledged, Ids
<1>2. CASE Exit(j) \/ Die(j)
  BY <1>0, <1>2 DEF Exit, Die, NothingBefore, ExactAccounting, Unacknowledged, Ids
<1>3. CASE Record(j) \/ Close(j) \/ Acknowledged(j)
  <2>1. UNCHANGED <<container, tasks, fin, reaping>> /\ phase[j] # "none"
    BY <1>3 DEF Record, Close, Acknowledged, Waiting, main
  <2>2. \A i \in Job : i # j => /\ done'[i] = done[i] /\ unreported'[i] = unreported[i]
                                /\ calls'[i] = calls[i]
    <3>1. \A i \in Job : i # j => done'[i] = done[i] /\ unreported'[i] = unreported[i]
      BY <1>0, <1>3 DEF Record, Close, Acknowledged
    <3>2. CASE UNCHANGED calls
      BY <3>1, <3>2
    <3>3. CASE \E s : calls' = [calls EXCEPT ![j] = s]
      BY <1>0, <3>1, <3>3
    <3>4. UNCHANGED calls \/ \E s : calls' = [calls EXCEPT ![j] = s]
      BY <1>3 DEF Record, Close, Acknowledged, Send
    <3> QED BY <3>2, <3>3, <3>4
  <2>3. NothingBefore'
    BY <2>1, <2>2 DEF Lifecycle, NothingBefore
  <2>4. ASSUME Balance(j) PROVE Balance(j)'
    <3>1. ASSUME NEW n \in Nat, Send(j, n)
          PROVE  Total(calls'[j]) = Total(calls[j])
      <4>1. calls'[j] = Append(calls[j], Call(n))
        BY <1>0, <3>1 DEF Send
      <4> QED BY <1>n, <4>1, TotalSent
    <3>2. Total(calls[j]) \in Nat
      BY <1>n, TotalType
    <3>3. CASE Record(j)
      <4>1. /\ done'[j] = done[j] + 1 /\ unreported'[j] = unreported[j] + 1
            /\ unreported[j] + 1 \in Nat
            /\ Send(j, unreported[j] + 1) \/ UNCHANGED calls
        BY <1>0, <1>n, <3>3 DEF Record
      <4>2. Total(calls'[j]) = Total(calls[j])
        BY <3>1, <4>1
      <4>3. fin[j] + unreported[j] = done[j] + Total(calls[j]) /\ fin'[j] = fin[j]
        BY <2>1, <2>4 DEF Balance
      <4>4. fin'[j] + unreported'[j] = done'[j] + Total(calls'[j])
        <5>1. \A a, b, d, t \in Nat : a + b = d + t => a + (b + 1) = (d + 1) + t
          OBVIOUS
        <5>2. fin[j] + (unreported[j] + 1) = (done[j] + 1) + Total(calls[j])
          BY <1>n, <3>2, <4>3, <5>1
        <5> QED BY <4>1, <4>2, <4>3, <5>2
      <4> QED BY <4>4 DEF Balance
    <3>4. CASE Close(j)
      <4>1. UNCHANGED <<done, unreported>> /\ Send(j, unreported[j])
        BY <3>4 DEF Close
      <4>2. Total(calls'[j]) = Total(calls[j])
        BY <1>n, <3>1, <4>1
      <4> QED BY <2>1, <2>4, <4>1, <4>2 DEF Balance
    <3>5. CASE Acknowledged(j)
      <4> DEFINE k == Len(calls[j])
                 c == [calls[j][k] EXCEPT !.st = "acked"]
                 t == [calls[j] EXCEPT ![k] = c]
      <4>1. /\ Waiting(j) /\ calls[j][k].st = "ok" /\ UNCHANGED done
            /\ calls' = [calls EXCEPT ![j][k].st = "acked"]
            /\ unreported' = [unreported EXCEPT ![j] = 0]
        BY <3>5 DEF Acknowledged, Last
      <4>2. k \in DOMAIN calls[j] /\ calls[j][k] \in CallRecord /\ calls[j][k].n = unreported[j]
        <5>1. calls[j] # <<>> /\ calls[j][k].n = unreported[j]
          BY <4>1 DEF IInv, WaitedCall, Last
        <5> QED BY <1>n, <5>1
      <4>3. /\ c \in CallRecord /\ c.st = "acked" /\ c.n = calls[j][k].n
        BY <4>2 DEF CallRecord
      <4>4. calls'[j] = t /\ unreported'[j] = 0 /\ done'[j] = done[j] /\ fin'[j] = fin[j]
        BY <1>0, <2>1, <4>1
      <4> HIDE DEF c
      <4>5. t \in Seq(CallRecord)
        BY <1>n, <4>2, <4>3
      <4>6. ~Counted(c.st) /\ Counted(calls[j][k].st)
        BY <4>1, <4>3 DEF Counted
      <4> HIDE DEF t
      <4>7. t = [calls[j] EXCEPT ![k] = c]
        BY DEF t
      <4>8. Total(calls[j]) = Total(t) + c.n
        BY <1>n, <4>2, <4>3, <4>5, <4>6, <4>7, TotalReplaced
      <4>9. Total(t) \in Nat
        BY <4>5, TotalType
      <4>10. fin[j] + unreported[j] = done[j] + Total(calls[j])
        BY <2>4 DEF Balance
      <4>11. fin'[j] + unreported'[j] = done'[j] + Total(calls'[j])
        <5>1. \A a, b, d, u \in Nat : a + b = d + (u + b) => a + 0 = d + u
          OBVIOUS
        <5>2. fin[j] + unreported[j] = done[j] + (Total(t) + unreported[j])
          BY <4>2, <4>3, <4>8, <4>10
        <5>3. fin[j] + 0 = done[j] + Total(t)
          BY <1>n, <4>9, <5>1, <5>2
        <5> QED BY <4>4, <5>3
      <4> QED BY <4>11 DEF Balance
    <3> QED BY <1>3, <3>3, <3>4, <3>5
  <2>5. AllBalance'
    <3>1. ASSUME NEW i \in tasks \ reaping PROVE Balance(i)'
      <4>1. CASE i = j
        BY <1>b, <2>4, <4>1
      <4>2. CASE i # j
        BY <1>0, <1>b, <2>1, <2>2, <4>2 DEF Balance
      <4> QED BY <4>1, <4>2
    <3> QED BY <2>1, <3>1 DEF AllBalance
  <2>6. ExactAccounting'
    BY <2>5, AccountIsBalance, PTL
  <2> QED BY <2>3, <2>6
<1> QED BY <1>1, <1>2, <1>3 DEF TrainerStep

\* A handler counts in fin what it makes an applied call of, and nothing else.
LEMMA HandleBalances ==
    ASSUME IInv, IInv', Lifecycle, NothingBefore, ExactAccounting,
           NEW j \in Job, NEW k \in Ids(j), Handle(j, k)
    PROVE  NothingBefore' /\ ExactAccounting'
<1>0. /\ fin \in [Job -> Nat] /\ unreported \in [Job -> Nat] /\ done \in [Job -> 0 .. Iters]
      /\ calls \in [Job -> Seq(CallRecord)] /\ tasks \subseteq Job /\ Iters \in Nat
      /\ calls' \in [Job -> Seq(CallRecord)] /\ TypeOK
  BY ReportAssumption DEF IInv, TypeOK
<1>n. /\ fin[j] \in Nat /\ unreported[j] \in Nat /\ done[j] \in Nat
      /\ calls[j] \in Seq(CallRecord) /\ calls'[j] \in Seq(CallRecord)
      /\ k \in DOMAIN calls[j]
  BY <1>0 DEF Ids
<1>b. \A i \in tasks \ reaping : Balance(i)
  BY AccountIsBalance DEF AllBalance
<1>1. UNCHANGED <<done, unreported, container, tasks, reaping>>
  BY <1>0, HandleReplaces DEF trainer, main
<1>2. PICK c : Handled(j, k, c)
  BY <1>0, HandleReplaces
<1>3. /\ \A i \in Job : i # j => calls'[i] = calls[i] /\ fin'[i] = fin[i]
      /\ calls'[j] = [calls[j] EXCEPT ![k] = c] /\ c.n = calls[j][k].n
      /\ \/ fin' = fin /\ (Counted(c.st) <=> Counted(calls[j][k].st))
         \/ /\ fin'[j] = fin[j] + c.n
            /\ Counted(c.st) /\ ~Counted(calls[j][k].st)
  BY <1>0, <1>2 DEF Handled
<1>4. container[j] # "none"
  <2>1. calls[j] # <<>>
    BY <1>n
  <2> QED BY <2>1 DEF Lifecycle
<1>5. NothingBefore'
  BY <1>1, <1>3, <1>4 DEF NothingBefore
<1>6. ASSUME Balance(j) PROVE Balance(j)'
  <2>1. Total(calls[j]) \in Nat /\ c.n \in Nat
    <3>1. calls[j][k] \in CallRecord
      BY <1>n
    <3> QED BY <1>n, <1>3, <3>1, TotalType DEF CallRecord
  <2>2. fin[j] + unreported[j] = done[j] + Total(calls[j])
    BY <1>6 DEF Balance
  <2>3. /\ (Counted(c.st) <=> Counted(calls[j][k].st)) => Total(calls'[j]) = Total(calls[j])
        /\ (Counted(c.st) /\ ~Counted(calls[j][k].st)) => Total(calls'[j]) = Total(calls[j]) + c.n
    BY <1>n, <1>3, TotalReplaced
  <2>4. CASE fin' = fin /\ (Counted(c.st) <=> Counted(calls[j][k].st))
    BY <1>1, <2>2, <2>3, <2>4 DEF Balance
  <2>5. CASE fin'[j] = fin[j] + c.n /\ Counted(c.st) /\ ~Counted(calls[j][k].st)
    <3>1. PICK n \in Nat, u \in Nat : n = c.n /\ u = Total(calls[j])
      BY <2>1
    <3>2. PICK a \in Nat, b \in Nat, d \in Nat :
             a = fin[j] /\ b = unreported[j] /\ d = done[j]
      BY <1>n
    <3>3. a + b = d + u
      BY <2>2, <3>1, <3>2
    <3>4. (a + n) + b = d + (u + n)
      BY <3>3
    <3> QED BY <1>1, <2>3, <2>5, <3>1, <3>2, <3>4 DEF Balance
  <2> QED BY <1>3, <2>4, <2>5
<1>7. AllBalance'
  <2>1. ASSUME NEW i \in tasks \ reaping PROVE Balance(i)'
    <3>1. CASE i = j
      BY <1>b, <1>6, <3>1
    <3>2. CASE i # j
      BY <1>0, <1>b, <1>1, <1>3, <3>2 DEF Balance
    <3> QED BY <3>1, <3>2
  <2> QED BY <1>1, <2>1 DEF AllBalance
<1>8. ExactAccounting'
  BY <1>7, AccountIsBalance, PTL
<1> QED BY <1>5, <1>8

\* The main loop: a job comes in with nothing on either side, and goes when
\* it is seen to have ended, which is when its count may be settled.
LEMMA MainBalances ==
    ASSUME IInv, Lifecycle, NothingBefore, ExactAccounting, MainStep
    PROVE  NothingBefore' /\ ExactAccounting'
<1>0. /\ fin \in [Job -> Nat] /\ calls \in [Job -> Seq(CallRecord)] /\ tasks \subseteq Job
      /\ container \in [Job -> {"absent", "none", "up", "zero", "nonzero"}]
  BY DEF IInv, TypeOK
<1>b. \A i \in tasks \ reaping : Balance(i)
  BY AccountIsBalance DEF AllBalance
<1>1. CASE Reap
  BY <1>1 DEF Reap, trainer, NothingBefore, ExactAccounting, Unacknowledged, Ids
<1>2. ASSUME NEW j \in Job, Register(j) PROVE NothingBefore' /\ ExactAccounting'
  <2>1. /\ UNCHANGED <<fin, unreported, done, calls, container, reaping>>
        /\ container[j] = "none" /\ tasks' = tasks \cup {j}
    BY <1>2 DEF Register, trainer
  <2>2. NothingBefore'
    BY <2>1 DEF NothingBefore
  <2>3. Balance(j)
    <3>1. fin[j] = 0 /\ unreported[j] = 0 /\ done[j] = 0 /\ calls[j] = <<>>
      BY <2>1 DEF NothingBefore, Lifecycle
    <3>2. Settled(<<>>) = {}
      BY DEF Settled
    <3>3. Total(<<>>) = 0
      BY <3>2, SumEmpty DEF Total
    <3> QED BY <3>1, <3>3 DEF Balance
  <2>4. AllBalance'
    BY <1>b, <2>1, <2>3 DEF AllBalance, Balance
  <2>5. ExactAccounting'
    BY <2>4, AccountIsBalance, PTL
  <2> QED BY <2>2, <2>5
<1>3. ASSUME NEW j \in Job, Run(j) PROVE NothingBefore' /\ ExactAccounting'
  BY <1>0, <1>3 DEF Run, NothingBefore, ExactAccounting, Unacknowledged, Ids
<1>4. ASSUME NEW j \in Job, Observe(j) PROVE NothingBefore' /\ ExactAccounting'
  <2>1. /\ UNCHANGED <<unreported, done, calls, container, tasks>>
        /\ reaping' = reaping \cup {j} /\ container[j] # "none"
        /\ \A i \in Job : i # j => fin'[i] = fin[i]
    BY <1>0, <1>4 DEF Observe, trainer
  <2>2. NothingBefore'
    BY <2>1 DEF NothingBefore
  <2>3. AllBalance'
    BY <1>0, <1>b, <2>1 DEF AllBalance, Balance
  <2>4. ExactAccounting'
    BY <2>3, AccountIsBalance, PTL
  <2> QED BY <2>2, <2>4
<1> QED BY <1>1, <1>2, <1>3, <1>4 DEF MainStep

\* What the worker has counted of a job in _tasks, with what its trainer has
\* still to report, is what it trained and the reports that were applied and
\* taken for failed: no other iteration is counted twice, for any number of
\* jobs, calls, retries and pool threads.
THEOREM AccountIsExact == Spec => []ExactAccounting
<1>1. Init => NothingBefore /\ ExactAccounting
  BY DEF Init, NothingBefore, ExactAccounting
<1>2. IInv /\ IInv' /\ Lifecycle /\ NothingBefore /\ ExactAccounting /\ [Next]_vars
      => NothingBefore' /\ ExactAccounting'
  <2> SUFFICES ASSUME IInv, IInv', Lifecycle, NothingBefore, ExactAccounting, [Next]_vars
               PROVE  NothingBefore' /\ ExactAccounting'
    OBVIOUS
  <2>1. CASE UNCHANGED vars
    BY <2>1 DEF vars, NothingBefore, ExactAccounting, Unacknowledged, Ids
  <2>2. CASE \E j \in Job : TrainerStep(j) \/ Die(j)
    BY <2>2, TrainerBalances
  <2>3. CASE \E j \in Job : \E k \in Ids(j) : Handle(j, k)
    BY <2>3, HandleBalances
  <2>4. CASE MainStep
    BY <2>4, MainBalances
  <2> QED BY <2>1, <2>2, <2>3, <2>4 DEF Next, Finished
<1> QED BY <1>1, <1>2, Invariance, Containers, PTL DEF Spec

-----------------------------------------------------------------------------
(* What the account says at the end.                                       *)

LEMMA TrainedStep == ASSUME TypeOK, Lifecycle, Trained, [Next]_vars PROVE Trained'
<1>0. /\ DOMAIN phase = Job /\ DOMAIN container = Job /\ done \in [Job -> 0 .. Iters]
      /\ Iters \in Nat
  BY ReportAssumption DEF TypeOK
<1>1. CASE UNCHANGED vars
  BY <1>1 DEF vars, Trained
<1>2. ASSUME NEW j \in Job, Record(j) PROVE Trained'
  <2>1. /\ phase[j] = "train" /\ done[j] < Iters /\ UNCHANGED container
        /\ phase'[j] \in {"train", "report"}
        /\ \A i \in Job : i # j => phase'[i] = phase[i] /\ done'[i] = done[i]
    BY <1>0, <1>2 DEF Record, main
  <2>2. container[j] # "zero"
    <3>1. done[j] # Iters
      BY <1>0, <2>1
    <3> QED BY <3>1 DEF Trained
  <2> QED BY <2>1, <2>2 DEF Trained
<1>3. ASSUME NEW j \in Job, Close(j) PROVE Trained'
  BY <1>0, <1>3 DEF Close, Trained, main
<1>4. ASSUME NEW j \in Job, Acknowledged(j) PROVE Trained'
  BY <1>0, <1>4 DEF Acknowledged, Waiting, Trained, main
<1>5. ASSUME NEW j \in Job, Failed(j) PROVE Trained'
  BY <1>0, <1>5 DEF Failed, Trained, main
<1>6. ASSUME NEW j \in Job, Exit(j) \/ Die(j) PROVE Trained'
  BY <1>0, <1>6 DEF Exit, Die, Trained
<1>7. ASSUME NEW j \in Job, NEW k \in Ids(j), Handle(j, k) PROVE Trained'
  BY <1>7, HandleReplaces DEF trainer, main, Trained
<1>8. CASE Reap \/ \E j \in Job : Register(j) \/ Observe(j)
  BY <1>8 DEF Reap, Register, Observe, trainer, Trained
<1>9. ASSUME NEW j \in Job, Run(j) PROVE Trained'
  BY <1>0, <1>9 DEF Run, Launching, Trained
<1> QED BY <1>1, <1>2, <1>3, <1>4, <1>5, <1>6, <1>7, <1>8, <1>9
        DEF Next, TrainerStep, MainStep, Finished

\* A job whose last report was acknowledged is counted in full when its
\* container ends, and exactly so if no report was counted and lost its answer.
THEOREM FullAtExit == Spec => []CountedAtExit
<1>1. Init => Trained
  BY DEF Init, Trained
<1>2. IInv /\ Lifecycle /\ Trained /\ [Next]_vars => Trained'
  BY TrainedStep DEF IInv
<1>3. IInv /\ Trained /\ ExactAccounting => CountedAtExit
  <2> SUFFICES ASSUME IInv, Trained, ExactAccounting, NEW j \in tasks \ reaping,
                      container[j] = "zero", unreported[j] = 0
               PROVE  fin[j] >= Iters /\ (Unacknowledged(j) = {} => fin[j] = Iters)
    BY DEF CountedAtExit
  <2>1. j \in Job /\ fin[j] \in Nat /\ done[j] = Iters /\ Iters \in Nat
    BY ReportAssumption DEF IInv, TypeOK, Trained
  <2>2. fin[j] >= Iters
    BY <2>1 DEF IInv, NoIterationLost
  <2>3. ASSUME Unacknowledged(j) = {} PROVE fin[j] = Iters
    <3>1. fin[j] + 0 = Iters + 0
      BY <2>1, <2>3, SumEmpty DEF ExactAccounting
    <3> QED BY <2>1, <3>1
  <2> QED BY <2>2, <2>3
<1> QED BY <1>1, <1>2, <1>3, Invariance, Containers, AccountIsExact, PTL DEF Spec

-----------------------------------------------------------------------------
(* Why training does not hang: TrainingNeverHangs rests on the fairness of *)
(* the trainer's own steps and on this, that their number is bounded.      *)

LEMMA StepsBounded ==
    ASSUME TypeOK, NEW j \in Job
    PROVE  StepsLeft(j) \in 0 .. 2 * Iters + 2 * CloseTries[j] + 3
<1>1. /\ done[j] \in 0 .. Iters /\ tries[j] \in 0 .. CloseTries[j]
      /\ Iters \in Nat /\ CloseTries[j] \in Nat /\ CloseTries[j] > 0
      /\ phase[j] \in {"none", "train", "report", "closing", "backoff", "leaving", "gone"}
  BY ReportAssumption DEF TypeOK
<1> QED BY <1>1 DEF StepsLeft

\* A trainer makes at most 2 * Iters + 2 * CloseTries[j] + 3 steps, whatever
\* the calls, the handlers and the main loop do meanwhile.
THEOREM TrainersAdvance == Spec => TrainerAdvances
<1>1. IInv /\ Lifecycle /\ [Next]_vars =>
        [\A j \in Job :
          /\ StepsLeft(j)' <= StepsLeft(j)
          /\ phase[j] # "none" /\ <<phase[j], done[j]>>' # <<phase[j], done[j]>>
             => StepsLeft(j)' < StepsLeft(j)]_vars
  <2> SUFFICES ASSUME IInv, Lifecycle, Next, NEW i \in Job
               PROVE  /\ StepsLeft(i)' <= StepsLeft(i)
                      /\ phase[i] # "none" /\ <<phase[i], done[i]>>' # <<phase[i], done[i]>>
                         => StepsLeft(i)' < StepsLeft(i)
    OBVIOUS
  <2>0. /\ TypeOK /\ TriesLeft /\ DOMAIN phase = Job /\ done \in [Job -> 0 .. Iters]
        /\ tries \in [Job -> Nat] /\ tries[i] <= CloseTries[i]
        /\ Iters \in Nat /\ CloseTries[i] \in Nat /\ CloseTries[i] > 0
    <3>1. TypeOK /\ TriesLeft
      BY DEF IInv
    <3>2. /\ DOMAIN phase = Job /\ done \in [Job -> 0 .. Iters]
          /\ tries \in [Job -> Nat] /\ tries[i] <= CloseTries[i]
      BY <3>1 DEF TypeOK
    <3>3. Iters \in Nat /\ CloseTries[i] \in Nat /\ CloseTries[i] > 0
      BY ReportAssumption
    <3> QED BY <3>1, <3>2, <3>3
  <2>s. StepsLeft(i) \in Nat
    BY <2>0, StepsBounded
  <2>1. ASSUME phase'[i] = phase[i], done'[i] = done[i], tries'[i] = tries[i]
        PROVE  StepsLeft(i)' = StepsLeft(i)
    BY <2>1 DEF StepsLeft
  <2>2. ASSUME NEW j \in Job, j # i, TrainerStep(j) \/ Die(j)
        PROVE  phase'[i] = phase[i] /\ done'[i] = done[i] /\ tries'[i] = tries[i]
    BY <2>0, <2>2 DEF TrainerStep, Record, Close, Acknowledged, Failed, Exit, Die
  <2>i. done[i] \in 0 .. Iters /\ tries[i] \in 0 .. CloseTries[i]
    BY <2>0
  <2>3. CASE Record(i)
    <3>1. /\ phase[i] = "train" /\ done[i] < Iters /\ done'[i] = done[i] + 1
          /\ phase'[i] \in {"train", "report"}
      BY <2>0, <2>3 DEF Record
    <3>2. StepsLeft(i) = 2 * (Iters - done[i]) + 2 * CloseTries[i] + 2
      BY <3>1 DEF StepsLeft
    <3>3. \/ StepsLeft(i)' = 2 * (Iters - (done[i] + 1)) + 2 * CloseTries[i] + 2
          \/ StepsLeft(i)' = 2 * (Iters - (done[i] + 1)) + 2 * CloseTries[i] + 3
      BY <3>1 DEF StepsLeft
    <3>4. StepsLeft(i)' < StepsLeft(i)
      BY <2>0, <2>i, <3>2, <3>3
    <3> QED BY <2>s, <3>2, <3>3, <3>4, <2>0, <2>i
  <2>4. CASE Close(i)
    <3>1. \/ /\ phase[i] = "train" /\ done[i] = Iters /\ tries'[i] = CloseTries[i]
             /\ phase'[i] = "closing"
          \/ phase[i] = "backoff" /\ tries'[i] = tries[i] /\ phase'[i] = "closing"
      BY <2>0, <2>4 DEF Close
    <3> QED BY <2>0, <2>i, <3>1 DEF StepsLeft
  <2>5. CASE Acknowledged(i)
    <3>1. /\ done'[i] = done[i] /\ tries'[i] = tries[i]
          /\ \/ phase[i] = "report" /\ phase'[i] = "train"
             \/ phase[i] = "closing" /\ phase'[i] = "leaving" /\ tries[i] > 0
      BY <2>0, <2>5 DEF Acknowledged, Waiting, TriesLeft
    <3> QED BY <2>0, <2>i, <3>1 DEF StepsLeft
  <2>6. CASE Failed(i)
    <3>1. /\ done'[i] = done[i]
          /\ \/ phase[i] = "report" /\ phase'[i] = "train"
             \/ /\ phase[i] = "closing" /\ tries[i] > 0
                /\ \/ phase'[i] = "backoff" /\ tries'[i] = tries[i] - 1
                   \/ phase'[i] = "leaving"
      BY <2>0, <2>6 DEF Failed, TriesLeft
    <3> QED BY <2>0, <2>i, <3>1 DEF StepsLeft
  <2>7. CASE Exit(i) \/ Die(i)
    <3>1. phase'[i] = "gone" /\ done'[i] = done[i]
      BY <2>0, <2>7 DEF Exit, Die
    <3>2. StepsLeft(i)' = 0
      BY <3>1 DEF StepsLeft
    <3>3. StepsLeft(i) = 0 => phase[i] = "gone"
      <4>1. phase[i] \in {"none", "train", "report", "closing", "backoff", "leaving", "gone"}
        BY <2>0 DEF TypeOK
      <4> QED BY <2>0, <2>i, <4>1 DEF StepsLeft
    <3> QED BY <2>s, <3>1, <3>2, <3>3
  <2>8. ASSUME NEW j \in Job, NEW k \in Ids(j), Handle(j, k)
        PROVE  phase'[i] = phase[i] /\ done'[i] = done[i] /\ tries'[i] = tries[i]
    BY <2>0, <2>8, HandleReplaces DEF trainer
  <2>9. CASE Finished \/ Reap \/ \E j \in Job : Register(j) \/ Observe(j)
    <3>1. phase'[i] = phase[i] /\ done'[i] = done[i] /\ tries'[i] = tries[i]
      BY <2>9 DEF Finished, vars, Reap, Register, Observe, trainer
    <3> QED BY <2>1, <2>s, <3>1
  <2>10. ASSUME NEW j \in Job, Run(j)
         PROVE  StepsLeft(i)' = StepsLeft(i)
                /\ (phase[i] # "none" => phase'[i] = phase[i] /\ done'[i] = done[i])
    <3>1. UNCHANGED <<done, tries>>
      BY <2>10 DEF Run
    <3>2. CASE phase'[i] = phase[i]
      BY <2>1, <3>1, <3>2
    <3>3. CASE phase'[i] # phase[i]
      <4>1. phase'[i] = "train" /\ container[i] = "none"
        BY <2>0, <2>10, <3>3 DEF Run, Launching
      <4>2. phase[i] = "none"
        BY <4>1 DEF Lifecycle
      <4> QED BY <3>1, <4>1, <4>2 DEF StepsLeft
    <3> QED BY <3>2, <3>3
  <2> QED BY <2>1, <2>2, <2>3, <2>4, <2>5, <2>6, <2>7, <2>8, <2>9, <2>10, <2>s
          DEF Next, TrainerStep, MainStep
<1> QED BY <1>1, Invariance, Containers, PTL DEF Spec, TrainerAdvances

=============================================================================
