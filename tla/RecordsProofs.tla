---------------------------- MODULE RecordsProofs ----------------------------
(***************************************************************************)
(* What the worker puts on file is right for every set of jobs, number of  *)
(* reports, way of sending them again and length of the window.            *)
(*                                                                         *)
(* FilesSound is not inductive: a row is made of samples that lie in       *)
(* throughputs, so something has to be known of those.  Samples says that  *)
(* a sample is in one place, InTurn that the reports of a trainer that     *)
(* always waited are handled in order, so that the newest sample, which a  *)
(* row leaves out, is the one close() reported; TasksUp that the file of   *)
(* metrics is closed only when no container is left.                       *)
(***************************************************************************)
EXTENDS Records, SequenceTheorems, TLAPS

LEMMA CallParts ==
    /\ \A c \in Call : c[1] \in Job /\ c[2] \in 1 .. Calls[c[1]] /\ c = <<c[1], c[2]>>
    /\ \A j \in Job : \A n \in 1 .. Calls[j] : <<j, n>> \in Call
BY DEF Call

LEMMA InitInv == ASSUME Init PROVE IInv
<1> USE DEF Init
<1>1. TypeOK
  <2>1. <<>> \in Seq(Nat) /\ <<>> \in Seq(Seq(Nat))
    OBVIOUS
  <2>2. throughputs \in [Job -> Seq(Nat)] /\ rows \in [Job -> Seq(Seq(Nat))]
    BY <2>1
  <2> QED BY <2>2 DEF TypeOK
<1>2. \A j \in Job : Range(throughputs[j]) = {} /\ Averaged(j) = {}
  BY DEF Averaged, Range
<1>3. TasksUp
  BY DEF TasksUp
<1>4. Samples
  BY <1>2, CallParts DEF Samples
<1>5. InTurn
  BY CallParts DEF InTurn
<1>6. FilesSound
  BY <1>2 DEF FilesSound, RowsApart, RowsTypical, LinesKept
<1> QED BY <1>1, <1>3, <1>4, <1>5, <1>6 DEF IInv

-----------------------------------------------------------------------------
(* Types, and the closing of the file.                                     *)

LEMMA SliceFacts ==
    ASSUME NEW q \in Seq(Nat), Len(q) > 1
    PROVE  /\ Slice(q) \in Seq(Nat) /\ Slice(q) # <<>>
           /\ \E d \in Nat : \A k \in DOMAIN Slice(q) :
                 k + d \in DOMAIN q /\ k + d < Len(q) /\ Slice(q)[k] = q[k + d]
<1> DEFINE m == IF Len(q) > Window THEN Len(q) - Window + 1 ELSE 1
<1>0. m \in Nat /\ m >= 1 /\ m <= Len(q) - 1 /\ Len(q) \in Nat
  BY RecordsAssumption
<1>1. Slice(q) = SubSeq(q, m, Len(q) - 1)
  BY DEF Slice
<1> HIDE DEF m
<1>2. Len(q) - 1 \in Int /\ \A i \in m .. Len(q) - 1 : q[i] \in Nat
  BY <1>0
<1>3. /\ Slice(q) \in Seq(Nat) /\ Len(Slice(q)) = Len(q) - m
      /\ \A i \in 1 .. Len(q) - m : Slice(q)[i] = q[m + i - 1]
  <2> DEFINE n == Len(q) - 1
  <2>1. m \in Int /\ n \in Int /\ m <= n /\ n - m + 1 = Len(q) - m
    BY <1>0
  <2>2. \A i \in m .. n : q[i] \in Nat
    BY <1>2
  <2>3. Slice(q) = SubSeq(q, m, n)
    BY <1>1
  <2> HIDE DEF n
  <2>4. /\ SubSeq(q, m, n) \in Seq(Nat)
        /\ Len(SubSeq(q, m, n)) = IF m <= n THEN n - m + 1 ELSE 0
        /\ \A i \in 1 .. n - m + 1 : SubSeq(q, m, n)[i] = q[m + i - 1]
    BY <2>1, <2>2, SubSeqProperties
  <2> QED BY <2>1, <2>3, <2>4
<1>4. Slice(q) # <<>>
  BY <1>0, <1>3
<1>5. \A k \in DOMAIN Slice(q) :
         k + (m - 1) \in DOMAIN q /\ k + (m - 1) < Len(q) /\ Slice(q)[k] = q[k + (m - 1)]
  <2>1. DOMAIN Slice(q) = 1 .. Len(q) - m /\ DOMAIN q = 1 .. Len(q)
    BY <1>0, <1>3
  <2> SUFFICES ASSUME NEW k \in 1 .. Len(q) - m
               PROVE  /\ k + (m - 1) \in 1 .. Len(q) /\ k + (m - 1) < Len(q)
                      /\ Slice(q)[k] = q[k + (m - 1)]
    BY <2>1
  <2>2. k + (m - 1) \in 1 .. Len(q) /\ k + (m - 1) < Len(q) /\ m + k - 1 = k + (m - 1)
    BY <1>0
  <2> QED BY <1>3, <2>2
<1>6. m - 1 \in Nat
  BY <1>0
<1> QED BY <1>3, <1>4, <1>5, <1>6

LEMMA TypeStep == ASSUME IInv, Next PROVE TypeOK'
<1>0. TypeOK
  BY DEF IInv
<1>1. ASSUME NEW j \in Job, Send(j) PROVE TypeOK'
  <2>1. j \in Job /\ sent[j] \in Nat /\ sent[j] < Calls[j] /\ Calls[j] \in Nat
    BY <1>0, <1>1, RecordsAssumption DEF Send, TypeOK
  <2>2. <<j, sent[j] + 1>> \in Call
    BY <2>1, CallParts
  <2>4. sent[j] + 1 \in Nat
    BY <2>1
  <2>3. sent' \in [Job -> Nat] /\ gaveup' \subseteq Job
    <3>1. sent' = [sent EXCEPT ![j] = sent[j] + 1] /\ gaveup' \in {gaveup, gaveup \cup {j}}
      BY <1>1 DEF Send
    <3> QED BY <1>0, <2>4, <3>1 DEF TypeOK
  <2>5. closing' \in [Job -> Nat]
    <3>1. \/ closing' = closing
          \/ closing' = [closing EXCEPT ![j] = IF @ = 0 THEN sent[j] + 1 ELSE @]
      BY <1>1 DEF Send
    <3> QED BY <1>0, <2>4, <3>1 DEF TypeOK
  <2>6. pc' \in [Call -> Open \cup {"none", "done", "failed"}]
    BY <1>0, <1>1, <2>2 DEF Send, TypeOK, Open
  <2> QED BY <1>0, <1>1, <2>3, <2>5, <2>6 DEF Send, TypeOK, loop
<1>2. ASSUME NEW j \in Job, Exit(j) \/ Launch(j) PROVE TypeOK'
  BY <1>0, <1>2 DEF Exit, Launch, TypeOK, handler, loop
<1>3. ASSUME NEW c \in Call, Accept(c) \/ Stamp(c) \/ Write(c) PROVE TypeOK'
  BY <1>0, <1>3 DEF Accept, Stamp, Write, Goto, TypeOK, trainer, loop, Open
<1>4. ASSUME NEW c \in Call, AddSample(c) PROVE TypeOK'
  <2>1. c[1] \in Job /\ c[2] \in Nat
    BY CallParts, RecordsAssumption
  <2>2. throughputs' \in [Job -> Seq(Nat)]
    BY <1>0, <1>4, <2>1 DEF AddSample, TypeOK
  <2>3. pc' \in [Call -> Open \cup {"none", "done", "failed"}]
    BY <1>0, <1>4 DEF AddSample, Goto, TypeOK, Open
  <2> QED BY <1>0, <1>4, <2>2, <2>3 DEF AddSample, TypeOK, trainer, loop
<1>5. CASE Poll \/ EndRecord \/ Pop \/ EndLaunch \/ Close
  BY <1>0, <1>5 DEF Poll, Ended, EndRecord, Pop, EndLaunch, Close, TypeOK, trainer, handler
<1>6. ASSUME NEW j \in Job, Look(j) PROVE TypeOK'
  BY <1>0, <1>6 DEF Look, TypeOK, trainer, handler
<1>7. ASSUME NEW j \in Job, Save(j) PROVE TypeOK'
  <2>1. throughputs[j] \in Seq(Nat) /\ Len(throughputs[j]) > 1
    BY <1>0, <1>7 DEF Save, TypeOK, IInv, Samples
  <2>2. Slice(throughputs[j]) \in Seq(Nat) /\ rows[j] \in Seq(Seq(Nat))
    BY <1>0, <2>1, SliceFacts DEF TypeOK
  <2>3. Append(rows[j], Slice(throughputs[j])) \in Seq(Seq(Nat))
    BY <2>2
  <2>4. rows' \in [Job -> Seq(Seq(Nat))]
    BY <1>0, <1>7, <2>3 DEF Save, TypeOK
  <2> QED BY <1>0, <1>7, <2>4 DEF Save, TypeOK, trainer, handler
<1>8. ASSUME NEW j \in Job, Reset(j) PROVE TypeOK'
  <2>1. <<>> \in Seq(Nat)
    OBVIOUS
  <2>2. throughputs' \in [Job -> Seq(Nat)]
    BY <1>0, <1>8, <2>1 DEF Reset, TypeOK
  <2> QED BY <1>0, <1>8, <2>2 DEF Reset, TypeOK, trainer, handler
<1> QED BY <1>1, <1>2, <1>3, <1>4, <1>5, <1>6, <1>7, <1>8 DEF Next, Handle, MainStep

\* Only Close takes the file away, and only a launch, which does not come
\* after it, brings a container up; tasks lose those seen to be gone.
LEMMA TasksStep == ASSUME TypeOK, TasksUp, Next PROVE TasksUp'
<1> USE DEF TasksUp, AllDone
<1>1. ASSUME NEW j \in Job, Send(j) PROVE TasksUp'
  <2>1. \A c \in Call : pc'[c] = pc[c] \/ pc'[c] = "net"
    BY <1>1 DEF Send, TypeOK
  <2> QED BY <1>1, <2>1 DEF Send, loop
<1>2. ASSUME NEW j \in Job, Exit(j) PROVE TasksUp'
  BY <1>2 DEF Exit, TypeOK, handler, loop
<1>3. ASSUME NEW j \in Job, Launch(j) PROVE TasksUp'
  BY <1>3 DEF Launch, TypeOK, handler
<1>4. ASSUME NEW c \in Call, Handle(c) PROVE TasksUp'
  <2>1. UNCHANGED <<container, tasks, finished, main, fp>>
    BY <1>4 DEF Handle, Accept, AddSample, Stamp, Write, trainer, loop
  <2>2. \A d \in Call : pc'[d] = "failed" => pc[d] = "failed" \/ ~fp
    BY <1>4 DEF Handle, Accept, AddSample, Stamp, Write, Goto, TypeOK
  <2> QED BY <2>1, <2>2
<1>5. CASE Poll
  BY <1>5 DEF Poll, Ended, trainer, handler
<1>6. CASE EndRecord \/ Pop \/ EndLaunch \/ Close
  BY <1>6 DEF EndRecord, Recording, Pop, EndLaunch, Close, trainer, handler
<1>7. ASSUME NEW j \in Job, Look(j) \/ Save(j) \/ Reset(j) PROVE TasksUp'
  BY <1>7 DEF Look, Save, Reset, trainer, handler
<1> QED BY <1>1, <1>2, <1>3, <1>4, <1>5, <1>6, <1>7 DEF Next, MainStep

-----------------------------------------------------------------------------
(* Samples and rows.                                                       *)

Filed == Samples /\ InTurn /\ \A j \in Job : RowsApart(j) /\ RowsTypical(j)

\* A step that touches neither calls nor samples nor rows.
LEMMA QuietKeeps ==
    ASSUME Filed, UNCHANGED <<sent, closing, gaveup, pc, late, throughputs, negative, rows>>,
           \A j \in Job :
              /\ cur = <<j, "saved">> => cur' = <<j, "saved">>
              /\ cur' = <<j, "save">> => cur = <<j, "save">> \/ Len(throughputs[j]) > 1
    PROVE  Filed'
<1>1. \A j \in Job : Averaged(j)' = Averaged(j)
  BY DEF Averaged
<1>2. Samples'
  BY <1>1 DEF Filed, Samples
<1>3. InTurn'
  BY DEF Filed, InTurn
<1>4. ASSUME NEW j \in Job PROVE (RowsApart(j) /\ RowsTypical(j))'
  BY <1>1 DEF Filed, RowsApart, RowsTypical
<1> QED BY <1>2, <1>3, <1>4 DEF Filed

\* A handler goes on without a sample.
LEMMA MoveKeeps ==
    ASSUME TypeOK, Filed, NEW c \in Call, NEW place, pc' = [pc EXCEPT ![c] = place],
           \/ pc[c] = "net" /\ place \in {"timed", "done"}
           \/ pc[c] \in {"stamp", "write"} /\ place \in {"write", "done", "failed"},
           UNCHANGED <<sent, closing, gaveup, throughputs, negative, rows, cur>>,
           \A j \in Job \ gaveup : \A n \in 1 .. Calls[j] : <<j, n>> \notin late'
    PROVE  Filed'
<1>1. \A j \in Job : Averaged(j)' = Averaged(j)
  BY DEF Averaged
<1>2. /\ \A d \in Call : d # c => pc'[d] = pc[d]
      /\ pc'[c] = place
      /\ \A d \in Call : pc'[d] \in Open => pc[d] \in Open
      /\ \A d \in Call : pc[d] = "none" => pc'[d] = "none"
      /\ \A d \in Call : pc[d] \in {"stamp", "write", "done", "failed"} =>
                            pc'[d] \in {"stamp", "write", "done", "failed"}
  BY DEF TypeOK, Open
<1>3. Samples'
  BY <1>1, <1>2, CallParts DEF Filed, Samples
<1>4. InTurn'
  BY <1>2, CallParts DEF Filed, InTurn
<1>5. ASSUME NEW j \in Job PROVE (RowsApart(j) /\ RowsTypical(j))'
  BY <1>1 DEF Filed, RowsApart, RowsTypical
<1> QED BY <1>3, <1>4, <1>5 DEF Filed

\* A report is sent: behind one that is open, if there is one, only by a
\* trainer that did not wait.
LEMMA SendKeeps ==
    ASSUME TypeOK, Filed, NEW j \in Job, Send(j)
    PROVE  Filed'
<1>0. /\ sent[j] \in Nat /\ sent[j] + 1 \in 1 .. Calls[j] /\ Calls[j] \in Nat
      /\ <<j, sent[j] + 1>> \in Call
  <2>1. sent[j] \in Nat /\ sent[j] < Calls[j] /\ Calls[j] \in Nat
    BY RecordsAssumption DEF Send, TypeOK
  <2> QED BY <2>1, CallParts
<1>1. UNCHANGED <<late, throughputs, negative, rows, cur>>
  BY DEF Send, loop
<1>2. \A i \in Job : Averaged(i)' = Averaged(i)
  BY <1>1 DEF Averaged
<1>3. /\ sent' = [sent EXCEPT ![j] = sent[j] + 1]
      /\ pc' = [pc EXCEPT ![<<j, sent[j] + 1>>] = "net"]
      /\ gaveup' = IF \E k \in 1 .. sent[j] : pc[<<j, k>>] \in Open
                   THEN gaveup \cup {j} ELSE gaveup
      /\ \/ closing' = closing
         \/ closing' = [closing EXCEPT ![j] = IF @ = 0 THEN sent[j] + 1 ELSE @]
  BY DEF Send
<1>4. /\ sent'[j] = sent[j] + 1 /\ \A i \in Job : i # j => sent'[i] = sent[i]
      /\ pc'[<<j, sent[j] + 1>>] = "net"
      /\ \A d \in Call : d # <<j, sent[j] + 1>> => pc'[d] = pc[d]
      /\ pc[<<j, sent[j] + 1>>] = "none"
  BY <1>0, <1>3 DEF TypeOK, Filed, Samples
<1>5. Samples'
  <2> SUFFICES ASSUME NEW i \in Job
      PROVE /\ \A k \in 1 .. Calls[i] : k > sent'[i] => pc'[<<i, k>>] = "none"
            /\ \A n \in Range(throughputs[i]) \cup Averaged(i) :
                  /\ n \in 1 .. Calls[i]
                  /\ pc'[<<i, n>>] \in {"stamp", "write", "done", "failed"}
            /\ \A h, k \in DOMAIN throughputs[i] :
                  throughputs[i][h] = throughputs[i][k] => h = k
            /\ cur # <<i, "saved">> => Range(throughputs[i]) \cap Averaged(i) = {}
            /\ cur = <<i, "save">> => Len(throughputs[i]) > 1
    BY <1>1, <1>2 DEF Samples
  <2>1. ASSUME NEW k \in 1 .. Calls[i], k > sent'[i] PROVE pc'[<<i, k>>] = "none"
    <3>1. <<i, k>> \in Call /\ sent[i] \in Nat /\ k \in Int
      BY CallParts DEF TypeOK
    <3>2. <<i, k>> # <<j, sent[j] + 1>> /\ k > sent[i]
      BY <1>0, <1>4, <2>1, <3>1
    <3> QED BY <1>4, <3>1, <3>2 DEF Filed, Samples
  <2>2. ASSUME NEW n \in Range(throughputs[i]) \cup Averaged(i)
        PROVE  /\ n \in 1 .. Calls[i]
               /\ pc'[<<i, n>>] \in {"stamp", "write", "done", "failed"}
    <3>1. n \in 1 .. Calls[i] /\ pc[<<i, n>>] \in {"stamp", "write", "done", "failed"}
      BY DEF Filed, Samples
    <3> QED BY <1>4, <3>1, CallParts
  <2> QED BY <2>1, <2>2 DEF Filed, Samples
<1>6. InTurn'
  <2> SUFFICES ASSUME NEW i \in Job, i \notin gaveup'
      PROVE /\ \A m, n \in 1 .. Calls[i] : m < n /\ n <= sent'[i] => pc'[<<i, m>>] \notin Open
            /\ \A h, k \in DOMAIN throughputs[i] : h < k => throughputs[i][h] < throughputs[i][k]
            /\ \A n \in 1 .. Calls[i] : <<i, n>> \notin late \cup negative
    BY <1>1 DEF InTurn
  <2>1. i \notin gaveup
    BY <1>3
  <2>2. ASSUME NEW m \in 1 .. Calls[i], NEW n \in 1 .. Calls[i], m < n, n <= sent'[i]
        PROVE  pc'[<<i, m>>] \notin Open
    <3>1. <<i, m>> \in Call /\ m \in Int /\ n \in Int
      BY CallParts
    <3>2. CASE i # j
      BY <1>4, <2>1, <2>2, <3>1, <3>2 DEF Filed, InTurn
    <3>3. CASE i = j
      <4>1. m \in 1 .. sent[j]
        BY <1>0, <1>4, <2>2, <3>1, <3>3
      <4>2. pc[<<j, m>>] \notin Open
        BY <1>3, <3>3, <4>1
      <4>3. m # sent[j] + 1
        BY <1>0, <4>1
      <4> QED BY <1>4, <3>1, <3>3, <4>2, <4>3
    <3> QED BY <3>2, <3>3
  <2> QED BY <2>1, <2>2 DEF Filed, InTurn
<1>7. ASSUME NEW i \in Job PROVE (RowsApart(i) /\ RowsTypical(i))'
  <2>1. RowsApart(i)'
    BY <1>1 DEF Filed, RowsApart
  <2>2. ASSUME NEW n \in Averaged(i)
        PROVE  /\ closing'[i] # 0 /\ n >= closing'[i] =>
                     i \in gaveup' \/ sent'[i] > closing'[i]
               /\ <<i, n>> \in negative => i \in gaveup'
    <3>1. /\ closing[i] # 0 /\ n >= closing[i] => i \in gaveup \/ sent[i] > closing[i]
          /\ <<i, n>> \in negative => i \in gaveup
      BY DEF Filed, RowsTypical
    <3>2. gaveup \subseteq gaveup'
      BY <1>3
    <3>3. sent[i] \in Nat /\ closing[i] \in Nat /\ (sent'[i] = sent[i] \/ sent'[i] = sent[i] + 1)
      BY <1>4 DEF TypeOK
    <3>4. CASE closing'[i] = closing[i]
      BY <3>1, <3>2, <3>3, <3>4
    <3>5. CASE closing'[i] # closing[i]
      <4>1. i = j /\ closing'[i] = sent[j] + 1
        BY <1>3, <3>5 DEF TypeOK
      <4>2. n \in 1 .. Calls[i] /\ pc[<<i, n>>] # "none"
        BY DEF Filed, Samples
      <4>3. n <= sent[j]
        BY <1>0, <4>1, <4>2 DEF Filed, Samples
      <4> QED BY <1>0, <3>1, <3>2, <4>1, <4>2, <4>3
    <3> QED BY <3>4, <3>5
  <2> QED BY <1>1, <1>2, <2>1, <2>2 DEF RowsTypical
<1> QED BY <1>5, <1>6, <1>7 DEF Filed

\* A sample is added, behind older ones if the trainer waited.
LEMMA AddKeeps ==
    ASSUME TypeOK, Filed, NEW c \in Call, AddSample(c)
    PROVE  Filed'
<1> DEFINE j == c[1]
           n == c[2]
           q == throughputs[j]
<1>0. j \in Job /\ n \in 1 .. Calls[j] /\ c = <<j, n>> /\ n \in Nat /\ Calls[j] \in Nat
  BY CallParts, RecordsAssumption
<1>1. /\ pc[c] = "timed" /\ pc' = [pc EXCEPT ![c] = "stamp"]
      /\ throughputs' = [throughputs EXCEPT ![j] = Append(q, n)]
      /\ negative' = negative \cup ({c} \cap late) /\ late' = late \ {c}
      /\ UNCHANGED <<sent, closing, gaveup, rows, cur>>
  BY DEF AddSample, Goto, trainer, loop
<1>2. q \in Seq(Nat)
  BY <1>0 DEF TypeOK
<1> HIDE DEF j, n, q
<1>3. /\ throughputs'[j] = Append(q, n)
      /\ \A i \in Job : i # j => throughputs'[i] = throughputs[i]
  BY <1>0, <1>1 DEF TypeOK
<1>4. /\ DOMAIN q = 1 .. Len(q) /\ Len(q) \in Nat
      /\ DOMAIN Append(q, n) = 1 .. Len(q) + 1
      /\ \A i \in 1 .. Len(q) : Append(q, n)[i] = q[i]
      /\ Append(q, n)[Len(q) + 1] = n
      /\ Range(Append(q, n)) = Range(q) \cup {n}
  <2>1. /\ DOMAIN q = 1 .. Len(q) /\ Len(q) \in Nat
        /\ DOMAIN Append(q, n) = 1 .. Len(q) + 1
        /\ \A i \in 1 .. Len(q) : Append(q, n)[i] = q[i]
        /\ Append(q, n)[Len(q) + 1] = n
    BY <1>0, <1>2
  <2>2. \A e \in Range(Append(q, n)) : e \in Range(q) \cup {n}
    <3> TAKE e \in Range(Append(q, n))
    <3>1. PICK i \in 1 .. Len(q) + 1 : e = Append(q, n)[i]
      BY <2>1 DEF Range
    <3>2. i = Len(q) + 1 \/ i \in 1 .. Len(q)
      BY <2>1
    <3> QED BY <2>1, <3>1, <3>2 DEF Range
  <2>3. n \in Range(Append(q, n))
    <3>1. Len(q) + 1 \in DOMAIN Append(q, n)
      BY <2>1
    <3> QED BY <2>1, <3>1 DEF Range
  <2>4. \A i \in 1 .. Len(q) : i \in DOMAIN Append(q, n)
    BY <2>1
  <2>5. \A e \in Range(q) : e \in Range(Append(q, n))
    BY <2>1, <2>4 DEF Range
  <2> QED BY <2>1, <2>2, <2>3, <2>5
<1>5. \A i \in Job : Averaged(i)' = Averaged(i)
  BY <1>1 DEF Averaged
<1>6. /\ \A d \in Call : d # c => pc'[d] = pc[d]
      /\ pc'[c] = "stamp"
      /\ \A d \in Call : pc'[d] \in Open => pc[d] \in Open
      /\ \A d \in Call : pc[d] = "none" => pc'[d] = "none"
      /\ \A d \in Call : pc[d] \in {"stamp", "write", "done", "failed"} =>
                            pc'[d] \in {"stamp", "write", "done", "failed"}
  BY <1>1 DEF TypeOK, Open
<1>7. n \notin Range(q) \cup Averaged(j)
  <2>1. \A e \in Range(q) \cup Averaged(j) :
           pc[<<j, e>>] \in {"stamp", "write", "done", "failed"}
    BY <1>0 DEF Filed, Samples, q
  <2>2. pc[<<j, n>>] = "timed"
    BY <1>0, <1>1
  <2> QED BY <2>1, <2>2
<1>8. ASSUME j \notin gaveup, NEW i \in 1 .. Len(q)
      PROVE  q[i] < n
  <2>1. q[i] \in Range(q)
    BY <1>4 DEF Range
  <2>2. q[i] \in 1 .. Calls[j] /\ pc[<<j, q[i]>>] # "none"
    BY <1>0, <2>1 DEF Filed, Samples, q
  <2>3. q[i] <= sent[j] /\ sent[j] \in Nat
    BY <1>0, <2>2 DEF Filed, Samples, TypeOK
  <2>4. pc[<<j, n>>] \in Open
    BY <1>0, <1>1 DEF Open
  <2>5. ~(n < q[i])
    BY <1>0, <1>8, <2>2, <2>3, <2>4 DEF Filed, InTurn
  <2>6. q[i] # n
    BY <1>7, <2>1
  <2> QED BY <1>0, <2>2, <2>5, <2>6
<1>9. Samples'
  <2> SUFFICES ASSUME NEW i \in Job
      PROVE /\ \A k \in 1 .. Calls[i] : k > sent[i] => pc'[<<i, k>>] = "none"
            /\ \A m \in Range(throughputs'[i]) \cup Averaged(i) :
                  /\ m \in 1 .. Calls[i]
                  /\ pc'[<<i, m>>] \in {"stamp", "write", "done", "failed"}
            /\ \A h, k \in DOMAIN throughputs'[i] :
                  throughputs'[i][h] = throughputs'[i][k] => h = k
            /\ cur # <<i, "saved">> => Range(throughputs'[i]) \cap Averaged(i) = {}
            /\ cur = <<i, "save">> => Len(throughputs'[i]) > 1
    BY <1>1, <1>5 DEF Samples
  <2>1. \A k \in 1 .. Calls[i] : k > sent[i] => pc'[<<i, k>>] = "none"
    BY <1>6, CallParts DEF Filed, Samples
  <2>2. CASE i # j
    BY <1>3, <1>6, <2>1, <2>2, CallParts DEF Filed, Samples
  <2>3. CASE i = j
    <3>1. ASSUME NEW m \in Range(q) \cup {n} \cup Averaged(j)
          PROVE  m \in 1 .. Calls[j] /\ pc'[<<j, m>>] \in {"stamp", "write", "done", "failed"}
      <4>1. CASE m = n
        BY <1>0, <1>6, <4>1
      <4>2. CASE m # n
        <5>1. m \in 1 .. Calls[j] /\ pc[<<j, m>>] \in {"stamp", "write", "done", "failed"}
          BY <1>0, <4>2 DEF Filed, Samples, q
        <5> QED BY <1>0, <1>6, <5>1, CallParts
      <4> QED BY <4>1, <4>2
    <3>2. \A h, k \in 1 .. Len(q) + 1 : Append(q, n)[h] = Append(q, n)[k] => h = k
      <4> TAKE h, k \in 1 .. Len(q) + 1
      <4>1. \A l \in 1 .. Len(q) : Append(q, n)[l] \in Range(q)
        BY <1>4 DEF Range
      <4>2. h \in 1 .. Len(q) /\ k \in 1 .. Len(q) => (q[h] = q[k] => h = k)
        BY <1>0, <1>4 DEF Filed, Samples, q
      <4> QED BY <1>4, <1>7, <4>1, <4>2
    <3>3. cur # <<j, "saved">> => (Range(q) \cup {n}) \cap Averaged(j) = {}
      BY <1>0, <1>7 DEF Filed, Samples, q
    <3>4. cur = <<j, "save">> => Len(Append(q, n)) > 1
      <4>1. Len(Append(q, n)) = Len(q) + 1
        BY <1>0, <1>2
      <4>2. cur = <<j, "save">> => Len(q) > 1
        BY <1>0 DEF Filed, Samples, q
      <4> QED BY <1>4, <4>1, <4>2
    <3>5. /\ throughputs'[i] = Append(q, n)
          /\ Range(throughputs'[i]) = Range(q) \cup {n}
          /\ DOMAIN throughputs'[i] = 1 .. Len(q) + 1
      BY <1>3, <1>4, <2>3
    <3>6. \A h, k \in DOMAIN throughputs'[i] : throughputs'[i][h] = throughputs'[i][k] => h = k
      BY <3>2, <3>5
    <3>7. \A m \in Range(throughputs'[i]) \cup Averaged(i) :
             m \in 1 .. Calls[i] /\ pc'[<<i, m>>] \in {"stamp", "write", "done", "failed"}
      BY <2>3, <3>1, <3>5
    <3>8. /\ cur # <<i, "saved">> => Range(throughputs'[i]) \cap Averaged(i) = {}
          /\ cur = <<i, "save">> => Len(throughputs'[i]) > 1
      BY <2>3, <3>3, <3>4, <3>5
    <3> QED BY <2>1, <3>6, <3>7, <3>8
  <2> QED BY <2>2, <2>3
<1>10. InTurn'
  <2> SUFFICES ASSUME NEW i \in Job, i \notin gaveup
      PROVE /\ \A m, k \in 1 .. Calls[i] : m < k /\ k <= sent[i] => pc'[<<i, m>>] \notin Open
            /\ \A h, k \in DOMAIN throughputs'[i] : h < k => throughputs'[i][h] < throughputs'[i][k]
            /\ \A m \in 1 .. Calls[i] : <<i, m>> \notin late' \cup negative'
    BY <1>1 DEF InTurn
  <2>1. \A m, k \in 1 .. Calls[i] : m < k /\ k <= sent[i] => pc'[<<i, m>>] \notin Open
    BY <1>6, CallParts DEF Filed, InTurn
  <2>2. \A m \in 1 .. Calls[i] : <<i, m>> \notin late' \cup negative'
    BY <1>1 DEF Filed, InTurn
  <2>3. \A h, k \in DOMAIN throughputs'[i] : h < k => throughputs'[i][h] < throughputs'[i][k]
    <3>1. CASE i # j
      BY <1>3, <3>1 DEF Filed, InTurn
    <3>2. CASE i = j
      <4> SUFFICES ASSUME NEW h \in 1 .. Len(q) + 1, NEW k \in 1 .. Len(q) + 1, h < k
                   PROVE  Append(q, n)[h] < Append(q, n)[k]
        BY <1>3, <1>4, <3>2
      <4>1. h \in 1 .. Len(q)
        BY <1>4
      <4>2. CASE k = Len(q) + 1
        BY <1>4, <1>8, <3>2, <4>1, <4>2
      <4>3. CASE k \in 1 .. Len(q)
        <5>1. q[h] < q[k]
          BY <1>0, <1>4, <3>2, <4>1, <4>3 DEF Filed, InTurn, q
        <5> QED BY <1>4, <4>1, <4>3, <5>1
      <4> QED BY <1>4, <4>2, <4>3
    <3> QED BY <3>1, <3>2
  <2> QED BY <2>1, <2>2, <2>3
<1>11. ASSUME NEW i \in Job PROVE (RowsApart(i) /\ RowsTypical(i))'
  <2>1. RowsApart(i)'
    BY <1>1 DEF Filed, RowsApart
  <2>2. ASSUME NEW m \in Averaged(i), <<i, m>> \in negative' PROVE i \in gaveup
    <3>1. CASE <<i, m>> \in negative
      BY <3>1 DEF Filed, RowsTypical
    <3>2. CASE <<i, m>> = c
      BY <1>0, <1>7, <2>2, <3>2
    <3> QED BY <1>1, <2>2, <3>1, <3>2
  <2> QED BY <1>1, <1>5, <2>1, <2>2 DEF Filed, RowsTypical
<1> QED BY <1>9, <1>10, <1>11 DEF Filed

\* A row is written: of samples no row has yet, and not of the newest.
LEMMA SaveKeeps ==
    ASSUME TypeOK, Filed, NEW j \in Job, Save(j)
    PROVE  Filed'
<1> DEFINE q == throughputs[j]
           s == Slice(q)
           R == rows[j]
<1>1. /\ cur = <<j, "save">> /\ cur' = <<j, "saved">>
      /\ rows' = [rows EXCEPT ![j] = Append(R, s)]
      /\ UNCHANGED <<sent, closing, gaveup, pc, late, throughputs, negative>>
  BY DEF Save, trainer, handler
<1>2. q \in Seq(Nat) /\ Len(q) > 1
  BY <1>1 DEF Filed, Samples, TypeOK
<1>3. /\ s \in Seq(Nat) /\ s # <<>>
      /\ \E d \in Nat : \A k \in DOMAIN s : k + d \in DOMAIN q /\ k + d < Len(q) /\ s[k] = q[k + d]
  BY <1>2, SliceFacts
<1>4. R \in Seq(Seq(Nat))
  BY DEF TypeOK
<1>5. rows'[j] = Append(R, s) /\ \A i \in Job : i # j => rows'[i] = rows[i]
  BY <1>1 DEF TypeOK
<1> HIDE DEF s, q, R
<1>6. /\ DOMAIN R = 1 .. Len(R) /\ Len(R) \in Nat
      /\ DOMAIN Append(R, s) = 1 .. Len(R) + 1
      /\ \A r \in 1 .. Len(R) : Append(R, s)[r] = R[r]
      /\ Append(R, s)[Len(R) + 1] = s
  BY <1>3, <1>4
<1>7. \A i \in Job : i # j => Averaged(i)' = Averaged(i)
  BY <1>5 DEF Averaged
<1>8. \A m \in Averaged(j)' : m \in Averaged(j) \/ m \in Range(s)
  <2> TAKE m \in Averaged(j)'
  <2>1. PICK r \in 1 .. Len(R) + 1 : m \in Range(Append(R, s)[r])
    BY <1>5, <1>6 DEF Averaged
  <2>2. CASE r = Len(R) + 1
    BY <1>6, <2>1, <2>2
  <2>3. CASE r \in 1 .. Len(R)
    BY <1>6, <2>1, <2>3 DEF Averaged, R
  <2> QED BY <1>6, <2>2, <2>3
<1>9. PICK d \in Nat : \A k \in DOMAIN s : k + d \in DOMAIN q /\ k + d < Len(q) /\ s[k] = q[k + d]
  BY <1>3
<1>10. Range(s) \subseteq Range(q)
  BY <1>9 DEF Range
<1>11. Range(q) \cap Averaged(j) = {}
  BY <1>1 DEF Filed, Samples, q
<1>12. \A h, k \in DOMAIN s : s[h] = s[k] => h = k
  <2> TAKE h, k \in DOMAIN s
  <2>1. h \in Nat /\ k \in Nat
    BY <1>3
  <2>2. h + d \in DOMAIN q /\ k + d \in DOMAIN q /\ s[h] = q[h + d] /\ s[k] = q[k + d]
    BY <1>9
  <2>3. q[h + d] = q[k + d] => h + d = k + d
    BY <2>2 DEF Filed, Samples, q
  <2> QED BY <2>1, <2>2, <2>3
<1>13. Samples'
  <2> SUFFICES ASSUME NEW i \in Job
      PROVE /\ \A m \in Range(throughputs[i]) \cup Averaged(i)' :
                  /\ m \in 1 .. Calls[i]
                  /\ pc[<<i, m>>] \in {"stamp", "write", "done", "failed"}
            /\ cur' # <<i, "saved">> => Range(throughputs[i]) \cap Averaged(i)' = {}
            /\ cur' = <<i, "save">> => Len(throughputs[i]) > 1
    BY <1>1 DEF Filed, Samples
  <2>1. CASE i # j
    BY <1>1, <1>7, <2>1 DEF Filed, Samples
  <2>2. CASE i = j
    <3>1. \A m \in Range(q) \cup Averaged(j)' : m \in Range(q) \cup Averaged(j)
      BY <1>8, <1>10
    <3> QED BY <1>1, <2>2, <3>1 DEF Filed, Samples, q
  <2> QED BY <2>1, <2>2
<1>14. InTurn'
  BY <1>1 DEF Filed, InTurn
<1>15. RowsApart(j)'
  <2>1. \A r \in 1 .. Len(R) + 1 : Append(R, s)[r] # <<>>
    BY <1>3, <1>6 DEF Filed, RowsApart, R
  <2>2. ASSUME NEW r \in 1 .. Len(R) + 1, NEW t \in 1 .. Len(R) + 1,
               NEW k \in DOMAIN Append(R, s)[r], NEW l \in DOMAIN Append(R, s)[t],
               Append(R, s)[r][k] = Append(R, s)[t][l]
        PROVE  r = t /\ k = l
    <3>1. CASE r \in 1 .. Len(R) /\ t \in 1 .. Len(R)
      BY <1>6, <2>2, <3>1 DEF Filed, RowsApart, R
    <3>2. CASE r = Len(R) + 1 /\ t = Len(R) + 1
      BY <1>6, <1>12, <2>2, <3>2
    <3>3. ASSUME NEW u \in 1 .. Len(R), NEW h \in DOMAIN R[u], NEW g \in DOMAIN s
          PROVE  R[u][h] # s[g]
      <4>1. R[u][h] \in Averaged(j)
        BY <1>6 DEF Averaged, Range, R
      <4>2. s[g] \in Range(q)
        BY <1>10 DEF Range
      <4> QED BY <1>11, <4>1, <4>2
    <3>4. (r \in 1 .. Len(R) \/ r = Len(R) + 1) /\ (t \in 1 .. Len(R) \/ t = Len(R) + 1)
      BY <1>6
    <3>5. CASE r \in 1 .. Len(R) /\ t = Len(R) + 1
      BY <1>6, <2>2, <3>3, <3>5
    <3>6. CASE r = Len(R) + 1 /\ t \in 1 .. Len(R)
      BY <1>6, <2>2, <3>3, <3>6
    <3> QED BY <3>1, <3>2, <3>4, <3>5, <3>6
  <2> QED BY <1>5, <1>6, <2>1, <2>2 DEF RowsApart
<1>16. RowsTypical(j)'
  <2> SUFFICES ASSUME NEW m \in Averaged(j)'
      PROVE  /\ closing[j] # 0 /\ m >= closing[j] => j \in gaveup \/ sent[j] > closing[j]
             /\ <<j, m>> \in negative => j \in gaveup
    BY <1>1 DEF RowsTypical
  <2>1. CASE m \in Averaged(j)
    BY <2>1 DEF Filed, RowsTypical
  <2>2. CASE m \in Range(s) /\ j \notin gaveup
    <3>1. PICK k \in DOMAIN s : m = s[k]
      BY <2>2 DEF Range
    <3>2. k + d \in DOMAIN q /\ k + d < Len(q) /\ m = q[k + d]
      BY <1>9, <3>1
    <3>3. Len(q) \in DOMAIN q
      BY <1>2
    <3>4. m < q[Len(q)]
      BY <2>2, <3>2, <3>3 DEF Filed, InTurn, q
    <3>5. q[Len(q)] \in Range(q) /\ m \in Range(q)
      BY <3>2, <3>3 DEF Range
    <3>6. /\ q[Len(q)] \in 1 .. Calls[j] /\ pc[<<j, q[Len(q)]>>] # "none"
          /\ m \in 1 .. Calls[j]
      <4>1. \A e \in Range(q) :
               e \in 1 .. Calls[j] /\ pc[<<j, e>>] \in {"stamp", "write", "done", "failed"}
        BY DEF Filed, Samples, q
      <4> QED BY <3>5, <4>1
    <3>7. sent[j] \in Nat /\ closing[j] \in Nat /\ Calls[j] \in Nat
      BY RecordsAssumption DEF TypeOK
    <3>8. q[Len(q)] <= sent[j]
      BY <3>6, <3>7 DEF Filed, Samples
    <3>9. <<j, m>> \notin negative
      BY <2>2, <3>6 DEF Filed, InTurn
    <3> QED BY <3>4, <3>6, <3>7, <3>8, <3>9
  <2> QED BY <1>8, <2>1, <2>2
<1>17. ASSUME NEW i \in Job, i # j PROVE (RowsApart(i) /\ RowsTypical(i))'
  BY <1>1, <1>5, <1>7, <1>17 DEF Filed, RowsApart, RowsTypical
<1> QED BY <1>13, <1>14, <1>15, <1>16, <1>17 DEF Filed

LEMMA ResetKeeps ==
    ASSUME TypeOK, Filed, NEW j \in Job, Reset(j)
    PROVE  Filed'
<1>1. /\ throughputs' = [throughputs EXCEPT ![j] = <<>>]
      /\ cur \in {<<j, "reset">>, <<j, "saved">>} /\ cur' = <<None, "look">>
      /\ UNCHANGED <<sent, closing, gaveup, pc, late, negative, rows>>
  BY DEF Reset, trainer, handler
<1>2. /\ throughputs'[j] = <<>> /\ Range(<<>>) = {}
      /\ \A i \in Job : i # j => throughputs'[i] = throughputs[i]
  BY <1>1 DEF TypeOK, Range
<1>3. \A i \in Job : Averaged(i)' = Averaged(i)
  BY <1>1 DEF Averaged
<1>4. ASSUME NEW i \in Job PROVE cur' # <<i, "save">> /\ (i # j => cur # <<i, "saved">>)
  BY <1>1, RecordsAssumption
<1>5. Samples'
  BY <1>1, <1>2, <1>3, <1>4 DEF Filed, Samples
<1>6. InTurn'
  BY <1>1, <1>2 DEF Filed, InTurn
<1>7. ASSUME NEW i \in Job PROVE (RowsApart(i) /\ RowsTypical(i))'
  BY <1>1, <1>3 DEF Filed, RowsApart, RowsTypical
<1> QED BY <1>5, <1>6, <1>7 DEF Filed

-----------------------------------------------------------------------------

\* The steps of handlers without a sample, and of the main thread.
LEMMA FiledStep == ASSUME TypeOK, Filed, Next PROVE Filed'
<1>1. ASSUME NEW j \in Job, Send(j) PROVE Filed'
  BY <1>1, SendKeeps
<1>2. ASSUME NEW c \in Call, Accept(c) \/ Write(c) PROVE Filed'
  <2>1. /\ UNCHANGED <<sent, closing, gaveup, late, throughputs, negative, rows, cur>>
        /\ \/ pc[c] = "net" /\ \E place \in {"timed", "done"} : pc' = [pc EXCEPT ![c] = place]
           \/ /\ pc[c] = "write"
              /\ \E place \in {"done", "failed"} : pc' = [pc EXCEPT ![c] = place]
    BY <1>2 DEF Accept, Write, Goto, trainer, loop
  <2>2. \A j \in Job \ gaveup : \A n \in 1 .. Calls[j] : <<j, n>> \notin late'
    BY <2>1 DEF Filed, InTurn
  <2> QED BY <2>1, <2>2, MoveKeeps
<1>3. ASSUME NEW c \in Call, Stamp(c) PROVE Filed'
  <2>1. /\ UNCHANGED <<sent, closing, gaveup, throughputs, negative, rows, cur>>
        /\ pc[c] = "stamp" /\ \E place \in {"write", "done"} : pc' = [pc EXCEPT ![c] = place]
        /\ late' = late \cup {d \in Call : d[1] = c[1] /\ pc[d] = "timed"}
    BY <1>3 DEF Stamp, Goto, trainer, loop
  <2>2. ASSUME NEW j \in Job \ gaveup, NEW n \in 1 .. Calls[j], <<j, n>> \in late'
        PROVE  FALSE
    <3>1. <<j, n>> \notin late
      BY DEF Filed, InTurn
    <3>2. <<j, n>> \in Call /\ j = c[1] /\ pc[<<j, n>>] = "timed"
      BY <2>1, <2>2, <3>1
    <3>3. c[2] \in 1 .. Calls[j] /\ c = <<j, c[2]>> /\ Calls[j] \in Nat /\ sent[j] \in Nat
      BY <3>2, CallParts, RecordsAssumption DEF TypeOK
    <3>4. c[2] # n /\ pc[<<j, c[2]>>] = "stamp"
      BY <2>1, <3>2, <3>3
    <3>5. n <= sent[j] /\ c[2] <= sent[j]
      BY <3>2, <3>3, <3>4 DEF Filed, Samples
    <3>6. n < c[2] \/ c[2] < n
      BY <3>3, <3>4
    <3>7. {"timed", "stamp"} \subseteq Open
      BY DEF Open
    <3> QED BY <3>2, <3>3, <3>4, <3>5, <3>6, <3>7 DEF Filed, InTurn
  <2> QED BY <2>1, <2>2, MoveKeeps
<1>4. ASSUME NEW c \in Call, AddSample(c) PROVE Filed'
  BY <1>4, AddKeeps
<1>5. ASSUME NEW j \in Job, Exit(j) \/ Launch(j) PROVE Filed'
  <2>1. UNCHANGED <<sent, closing, gaveup, pc, late, throughputs, negative, rows, cur>>
    BY <1>5 DEF Exit, Launch, handler, loop
  <2> QED BY <2>1, QuietKeeps
<1>6. CASE Poll \/ EndRecord \/ Pop \/ EndLaunch \/ Close
  <2>1. UNCHANGED <<sent, closing, gaveup, pc, late, throughputs, negative, rows, cur>>
    BY <1>6 DEF Poll, EndRecord, Pop, EndLaunch, Close, trainer, handler
  <2> QED BY <2>1, QuietKeeps
<1>7. ASSUME NEW j \in Job, Look(j) PROVE Filed'
  <2>1. /\ UNCHANGED <<sent, closing, gaveup, pc, late, throughputs, negative, rows>>
        /\ cur[1] = None /\ cur' = <<j, IF Len(throughputs[j]) > 1 THEN "save" ELSE "reset">>
    BY <1>7 DEF Look, trainer, handler
  <2>2. ASSUME NEW i \in Job
        PROVE  /\ cur # <<i, "saved">>
               /\ cur' = <<i, "save">> => Len(throughputs[i]) > 1
    BY <2>1, RecordsAssumption
  <2> QED BY <2>1, <2>2, QuietKeeps
<1>8. ASSUME NEW j \in Job, Save(j) \/ Reset(j) PROVE Filed'
  BY <1>8, SaveKeeps, ResetKeeps
<1> QED BY <1>1, <1>2, <1>3, <1>4, <1>5, <1>6, <1>7, <1>8 DEF Next, Handle, MainStep

\* No container is up and no task is left when a handler finds the file gone.
LEMMA LinesFollow == ASSUME TypeOK, TasksUp PROVE LinesKept
<1> SUFFICES ASSUME NEW c \in Call, pc[c] = "failed"
             PROVE  c[1] \notin tasks /\ container[c[1]] = "gone"
  BY DEF LinesKept
<1>1. AllDone /\ c[1] \in Job
  BY CallParts DEF TasksUp
<1> QED BY <1>1 DEF TasksUp, AllDone, TypeOK

\* The inductive invariant of the files, in every reachable state.
THEOREM Invariance == Spec => []IInv
<1>1. Init => IInv
  BY InitInv
<1>2. IInv /\ [Next]_vars => IInv'
  <2> SUFFICES ASSUME IInv, [Next]_vars PROVE IInv'
    OBVIOUS
  <2>0. TypeOK /\ TasksUp /\ Filed
    BY DEF IInv, Filed, FilesSound
  <2>1. CASE Next
    <3>1. TypeOK' /\ TasksUp' /\ Filed'
      BY <2>0, <2>1, TypeStep, TasksStep, FiledStep
    <3>2. LinesKept'
      BY <3>1, LinesFollow, PTL
    <3> QED BY <3>1, <3>2 DEF IInv, Filed, FilesSound
  <2>2. CASE UNCHANGED vars
    <3>1. TypeOK'
      BY <2>0, <2>2 DEF vars, TypeOK
    <3>2. TasksUp' /\ LinesKept'
      BY <2>0, <2>2 DEF vars, TasksUp, AllDone, LinesKept, IInv, FilesSound
    <3>3. Filed'
      BY <2>0, <2>2, QuietKeeps DEF vars
    <3> QED BY <3>1, <3>2, <3>3 DEF IInv, Filed, FilesSound
  <2> QED BY <2>1, <2>2
<1> QED BY <1>1, <1>2, PTL DEF Spec

\* Rows average samples once each, never the remainder close() reports nor
\* a negative one of a trainer that waited for its answers, and a line is
\* lost only when the job is gone: Task.record, Task.update, Worker.close
\* and the handlers in any order.
THEOREM FilesAlwaysSound == Spec => []FilesSound
<1>1. IInv => FilesSound
  BY DEF IInv
<1> QED BY <1>1, Invariance, PTL

=============================================================================
