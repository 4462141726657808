--------------------------- MODULE ReporterProofs ---------------------------
(***************************************************************************)
(* Proofs about the deployment report, for any number of goroutines and    *)
(* records, any capacity of the queue and any failure of the report file.  *)
(***************************************************************************)
EXTENDS Reporter, FiniteSetTheorems, SequenceTheorems, TLAPS

-----------------------------------------------------------------------------
(* Sequences of records and their counts.                                  *)

\* A nonempty sequence is its head followed by its tail.
LEMMA HeadThenTail ==
  ASSUME NEW S, NEW q \in Seq(S), q # <<>>
  PROVE  /\ Head(q) \in S
         /\ Tail(q) \in Seq(S)
         /\ Len(Tail(q)) < Len(q)
         /\ <<Head(q)>> \in Seq(S)
         /\ q = <<Head(q)>> \o Tail(q)
<1>1. Len(q) \in Nat /\ Len(q) >= 1
  BY EmptySeq, LenProperties
<1>2. q = SubSeq(q, 1, Len(q)) /\ Tail(q) = SubSeq(q, 2, Len(q))
  BY SubSeqFull, TailIsSubSeq
<1>3. SubSeq(q, 1, Len(q)) = <<q[1]>> \o SubSeq(q, 1 + 1, Len(q))
  BY <1>1, SubSeqRecursiveFirst
<1>4. Head(q) = q[1]
  BY <1>1
<1>5. Head(q) \in S /\ Tail(q) \in Seq(S) /\ Len(Tail(q)) = Len(q) - 1
  BY HeadTailProperties
<1>. QED
  BY <1>1, <1>2, <1>3, <1>4, <1>5

\* How records already joined are grouped does not matter.
LEMMA Regroup ==
  \A a, b, c \in Seq(Record) : (a \o b) \o c = a \o (b \o c)
<1>. TAKE a, b, c \in Seq(Record)
<1>. QED
  BY ConcatAssociative

\* The first part of a sequence, after more records came behind it.
LEMMA PrefixExtended ==
  ASSUME NEW f \in Seq(Record), NEW b \in Seq(Record), NEW q \in Seq(Record), NEW n \in 0..Len(b)
  PROVE  /\ f \o SubSeq(b, 1, n) \in Seq(Record)
         /\ SubSeq(b, n + 1, Len(b)) \in Seq(Record)
         /\ IsPrefixOf(f \o SubSeq(b, 1, n), (f \o b) \o q)
<1>1. Len(b) \in Nat /\ Len(f) \in Nat /\ Len(q) \in Nat /\ n \in Int /\ \A i \in 1..Len(b) : b[i] \in Record
  OBVIOUS
<1>. DEFINE p == SubSeq(b, 1, n)
<1>2. p \in Seq(Record) /\ Len(p) = n /\ \A i \in 1..n : p[i] = b[i]
  <2>1. \A i \in 1..n : b[i] \in Record
    BY <1>1
  <2>2. p \in Seq(Record) /\ Len(p) = (IF 1 <= n THEN n - 1 + 1 ELSE 0)
        /\ \A i \in 1..n - 1 + 1 : p[i] = b[1 + i - 1]
    BY <1>1, <2>1, SubSeqProperties
  <2>. QED
    BY <1>1, <2>2
<1>3. SubSeq(b, n + 1, Len(b)) \in Seq(Record)
  <2>1. \A i \in n + 1..Len(b) : b[i] \in Record
    BY <1>1
  <2>. QED
    BY <1>1, <2>1, SubSeqProperties
<1>4. f \o p \in Seq(Record) /\ Len(f \o p) = Len(f) + n
      /\ \A i \in 1..Len(f) + n : (f \o p)[i] = IF i <= Len(f) THEN f[i] ELSE p[i - Len(f)]
  BY <1>2, ConcatProperties
<1>5. f \o b \in Seq(Record) /\ Len(f \o b) = Len(f) + Len(b)
      /\ \A i \in 1..Len(f) + Len(b) : (f \o b)[i] = IF i <= Len(f) THEN f[i] ELSE b[i - Len(f)]
  BY ConcatProperties
<1>6. Len((f \o b) \o q) = Len(f \o b) + Len(q)
      /\ \A i \in 1..Len(f \o b) + Len(q) :
            ((f \o b) \o q)[i] = IF i <= Len(f \o b) THEN (f \o b)[i] ELSE q[i - Len(f \o b)]
  BY <1>5, ConcatProperties
<1>7. ASSUME NEW i \in 1..Len(f) + n
      PROVE  (f \o p)[i] = ((f \o b) \o q)[i]
  <2>1. i \in 1..Len(f) + Len(b) /\ i \in 1..Len(f \o b) + Len(q) /\ i <= Len(f \o b)
    BY <1>1, <1>5
  <2>2. i > Len(f) => i - Len(f) \in 1..n
    BY <1>1
  <2>. QED
    BY <1>1, <1>2, <1>4, <1>5, <1>6, <2>1, <2>2
<1>. QED
  BY <1>1, <1>3, <1>4, <1>5, <1>6, <1>7 DEF IsPrefixOf

\* Putting a record on the queue adds one to the counts that are its own.
LEMMA CountAppend ==
  ASSUME NEW q \in Seq(Record), NEW r \in Record
  PROVE  /\ \A s \in States : /\ CountState(q, s) \in Nat
                              /\ CountState(Append(q, r), s) = CountState(q, s) + (IF r.state = s THEN 1 ELSE 0)
         /\ \A g \in All : /\ CountBy(q, g) \in Nat
                           /\ CountBy(Append(q, r), g) = CountBy(q, g) + (IF r.by = g THEN 1 ELSE 0)
<1>. DEFINE n == Len(q)
            t == Append(q, r)
<1>1. n \in Nat /\ Len(t) = n + 1 /\ t[n + 1] = r /\ \A i \in 1..n : t[i] = q[i]
  BY AppendProperties, LenProperties
<1>2. IsFiniteSet(1..n) /\ n + 1 \notin 1..n /\ 1..(n + 1) = (1..n) \cup {n + 1}
  <2>1. n + 1 \notin 1..n /\ 1..(n + 1) = (1..n) \cup {n + 1}
    BY <1>1
  <2>2. IsFiniteSet(1..n)
    BY <1>1, FS_Interval
  <2>. QED
    BY <2>1, <2>2
<1>3. ASSUME NEW s \in States
      PROVE  CountState(q, s) \in Nat
             /\ CountState(t, s) = CountState(q, s) + (IF r.state = s THEN 1 ELSE 0)
  <2>. DEFINE A == {i \in 1..n : q[i].state = s}
              B == {i \in 1..(n + 1) : t[i].state = s}
  <2>1. IsFiniteSet(A) /\ Cardinality(A) \in Nat /\ n + 1 \notin A
    BY <1>2, FS_Subset, FS_CardinalityType
  <2>2. r.state = s => B = A \cup {n + 1}
    BY <1>1, <1>2
  <2>5. ~(r.state = s) => B = A
    BY <1>1, <1>2
  <2>6. Cardinality(A \cup {n + 1}) = Cardinality(A) + 1
    BY <2>1, FS_AddElement
  <2>3. CountState(q, s) = Cardinality(A) /\ CountState(t, s) = Cardinality(B)
    BY <1>1 DEF CountState
  <2>4. CountState(q, s) \in Nat
    BY <2>1, <2>3
  <2>7. r.state = s => CountState(t, s) = CountState(q, s) + 1
    BY <2>2, <2>3, <2>6
  <2>8. ~(r.state = s) => CountState(t, s) = CountState(q, s)
    BY <2>5, <2>3
  <2>. QED
    BY <2>4, <2>7, <2>8
<1>4. ASSUME NEW g \in All
      PROVE  CountBy(q, g) \in Nat
             /\ CountBy(t, g) = CountBy(q, g) + (IF r.by = g THEN 1 ELSE 0)
  <2>. DEFINE A == {i \in 1..n : q[i].by = g}
              B == {i \in 1..(n + 1) : t[i].by = g}
  <2>1. IsFiniteSet(A) /\ Cardinality(A) \in Nat /\ n + 1 \notin A
    BY <1>2, FS_Subset, FS_CardinalityType
  <2>2. r.by = g => B = A \cup {n + 1}
    BY <1>1, <1>2
  <2>5. ~(r.by = g) => B = A
    BY <1>1, <1>2
  <2>6. Cardinality(A \cup {n + 1}) = Cardinality(A) + 1
    BY <2>1, FS_AddElement
  <2>3. CountBy(q, g) = Cardinality(A) /\ CountBy(t, g) = Cardinality(B)
    BY <1>1 DEF CountBy
  <2>4. CountBy(q, g) \in Nat
    BY <2>1, <2>3
  <2>7. r.by = g => CountBy(t, g) = CountBy(q, g) + 1
    BY <2>2, <2>3, <2>6
  <2>8. ~(r.by = g) => CountBy(t, g) = CountBy(q, g)
    BY <2>5, <2>3
  <2>. QED
    BY <2>4, <2>7, <2>8
<1>. QED
  BY <1>3, <1>4

-----------------------------------------------------------------------------
(* The conjuncts of the inductive invariant, one lemma each.               *)

\* Nothing was made, sent or written at first.
LEMMA InitInv == Init => IInv
<1>. SUFFICES ASSUME Init PROVE IInv
  OBVIOUS
<1>0. <<>> \in Seq(Record) /\ Len(<<>>) = 0 /\ Main \in All /\ \A g \in Goroutines : g \in All /\ g # Main
  BY GoroutinesAssumption DEF All
<1>1. TypeOK
  <2>1. \A g \in All : NoRecord(g) \in Record
    BY DEF NoRecord, Record
  <2>2. record \in [All -> Record] /\ made \in [All -> Nat] /\ summary \in [States -> Nat]
    BY <2>1 DEF Init
  <2>3. pc \in [All -> {"running", "sending", "returned", "waiting", "closing", "joining", "done"}]
    BY DEF Init
  <2>4. queue \in Seq(Record) /\ Len(queue) <= Cap /\ buffer \in Seq(Record)
        /\ file \in Seq(Record) /\ sent \in Seq(Record)
    BY <1>0, BoundsAssumption DEF Init
  <2>. QED
    BY <2>2, <2>3, <2>4 DEF Init, TypeOK
<1>2. NothingLost
  BY <1>0, ConcatEmptySeq DEF Init, NothingLost
<1>3. FileInOrder
  BY <1>0 DEF Init, FileInOrder, IsPrefixOf
<1>4. OrderInv
  BY <1>0 DEF Init, OrderInv
<1>5. CountInv
  <2>1. \A g \in All : record[g].by = g /\ ~Sending(g)
    BY DEF Init, NoRecord, Sending
  <2>2. \A s \in States : AboutToSend(s) = {}
    BY <2>1 DEF AboutToSend
  <2>3. \A s \in States : CountState(sent, s) = 0
    BY <1>0, FS_EmptySet DEF Init, CountState
  <2>4. \A g \in All : CountBy(sent, g) = 0
    BY <1>0, FS_EmptySet DEF Init, CountBy
  <2>5. \A s \in States : Cardinality(AboutToSend(s)) = 0
    BY <2>2, FS_EmptySet
  <2>6. \A g \in All : made[g] = 0
    BY DEF Init
  <2>7. \A s \in States : summary[s] = 0
    BY DEF Init
  <2>. QED
    BY <2>1, <2>3, <2>4, <2>5, <2>6, <2>7 DEF CountInv
<1>. QED
  BY <1>1, <1>2, <1>3, <1>4, <1>5 DEF IInv

\* Every step keeps the types.
LEMMA TypeStep == TypeOK /\ [Next]_vars => TypeOK'
<1>. SUFFICES ASSUME TypeOK, [Next]_vars PROVE TypeOK'
  OBVIOUS
<1>. USE DEF TypeOK
<1>0. Main \in All /\ Goroutines \subseteq All /\ <<>> \in Seq(Record)
  BY DEF All
<1>1. ASSUME NEW g \in All, NEW s \in States \cup {"INFO"}, Make(g, s)
      PROVE  /\ pc' \in [All -> {"running", "sending", "returned", "waiting", "closing", "joining", "done"}]
             /\ record' \in [All -> Record]
             /\ made' \in [All -> Nat]
  BY <1>1 DEF Make, Record
<1>2. ASSUME NEW g \in Goroutines, NEW s \in States, ReportDeployment(g, s) PROVE TypeOK'
  BY <1>0, <1>1, <1>2 DEF ReportDeployment, writing
<1>3. ASSUME NEW g \in Goroutines, ReportOther(g) PROVE TypeOK'
  BY <1>0, <1>1, <1>3 DEF ReportOther, writing
<1>4. ASSUME NEW g \in All, Send(g) PROVE TypeOK'
  <2>1. queue' \in Seq(Record) /\ sent' \in Seq(Record) /\ Len(queue') = Len(queue) + 1
    BY <1>4, AppendProperties DEF Send
  <2>. QED
    BY <1>4, <2>1, LenProperties, BoundsAssumption DEF Send, writing
<1>5. ASSUME NEW g \in Goroutines, Leave(g) PROVE TypeOK'
  BY <1>0, <1>5 DEF Leave, writing
<1>6. CASE ReportFinished
  BY <1>0, <1>1, <1>6 DEF ReportFinished, writing
<1>7. CASE Stop \/ StopReturns
  BY <1>0, <1>7 DEF Stop, StopReturns, writing
<1>8. CASE Open \/ OpenFails
  BY <1>8 DEF Open, OpenFails, reporting
<1>9. file \o buffer \in Seq(Record)
  BY ConcatProperties
<1>10. CASE FlushTimer \/ Drained
  BY <1>0, <1>9, <1>10 DEF FlushTimer, Drained, Flush, reporting
<1>11. ASSUME FlushFails PROVE file' \in Seq(Record) /\ buffer' \in Seq(Record) /\ recorder' = "failed"
  BY <1>11, PrefixExtended, <1>0 DEF FlushFails
<1>12. CASE FlushTimerFails
  BY <1>11, <1>12 DEF FlushTimerFails, reporting
<1>13. ASSUME queue # <<>>, queue' = Tail(queue)
       PROVE  queue' \in Seq(Record) /\ Len(queue') <= Cap /\ Head(queue) \in Record /\ <<Head(queue)>> \in Seq(Record)
  BY <1>13, HeadThenTail, LenProperties, BoundsAssumption
<1>14. CASE ReceiveFails
  BY <1>11, <1>13, <1>14 DEF ReceiveFails, reporting
<1>15. CASE Receive
  <2>1. queue # <<>> /\ queue' = Tail(queue)
    BY <1>15 DEF Receive
  <2>2. Head(queue) \in Record /\ <<Head(queue)>> \in Seq(Record) /\ queue' \in Seq(Record) /\ Len(queue') <= Cap
    BY <1>13, <2>1
  <2>3. Append(buffer, Head(queue)) \in Seq(Record)
    BY <2>2, AppendProperties
  <2>4. buffer' \in Seq(Record) /\ file' \in Seq(Record)
    BY <1>9, <1>15, <2>2, <2>3 DEF Receive
  <2>. QED
    BY <1>15, <2>2, <2>4 DEF Receive, reporting
<1>16. CASE UNCHANGED vars
  BY <1>16 DEF vars, reporting, writing
<1>. QED
  BY <1>2, <1>3, <1>4, <1>5, <1>6, <1>7, <1>8, <1>10, <1>12, <1>14, <1>15, <1>16
     DEF Next, Work, Failure, Done

\* Every step moves records only from one end of the pipeline to the next.
LEMMA LostStep == TypeOK /\ NothingLost /\ [Next]_vars => NothingLost'
<1>. SUFFICES ASSUME TypeOK, NothingLost, [Next]_vars, recorder' \in {"opening", "selecting"}
              PROVE  sent' = (file' \o buffer') \o queue'
  BY DEF NothingLost
<1>0. /\ file \in Seq(Record) /\ buffer \in Seq(Record) /\ queue \in Seq(Record) /\ sent \in Seq(Record)
      /\ file \o buffer \in Seq(Record) /\ <<>> \in Seq(Record)
  BY ConcatProperties DEF TypeOK
<1>1. CASE UNCHANGED <<sent, file, buffer, queue>> /\ recorder \in {"opening", "selecting"}
  BY <1>1 DEF NothingLost
<1>2. ASSUME NEW g \in All, Send(g) PROVE sent' = (file' \o buffer') \o queue'
  <2>1. record[g] \in Record /\ <<record[g]>> \in Seq(Record)
    BY DEF TypeOK
  <2>2. recorder \in {"opening", "selecting"} /\ file' = file /\ buffer' = buffer
    BY <1>2 DEF Send, writing
  <2>3. sent' = ((file \o buffer) \o queue) \o <<record[g]>>
    BY <1>0, <1>2, <2>1, <2>2, AppendIsConcat DEF Send, NothingLost
  <2>4. queue' = queue \o <<record[g]>>
    BY <1>0, <1>2, <2>1, AppendIsConcat DEF Send
  <2>5. ((file \o buffer) \o queue) \o <<record[g]>> = (file \o buffer) \o (queue \o <<record[g]>>)
    BY <1>0, <2>1, Regroup, Zenon
  <2>. QED
    BY <2>2, <2>3, <2>4, <2>5
<1>3. CASE FlushTimer
  <2>1. (file \o buffer) \o <<>> = file \o buffer
    BY <1>0, ConcatEmptySeq
  <2>. QED
    BY <1>3, <2>1 DEF FlushTimer, Flush, NothingLost
<1>4. CASE Receive
  <2>. DEFINE r == Head(queue)
  <2>1. r \in Record /\ Tail(queue) \in Seq(Record) /\ <<r>> \in Seq(Record) /\ queue = <<r>> \o Tail(queue)
    BY <1>0, <1>4, HeadThenTail DEF Receive
  <2>9. Tail(queue) \in Seq(Record) /\ <<r>> \in Seq(Record) /\ file \o buffer \in Seq(Record)
    BY <1>0, <2>1
  <2>6. ((file \o buffer) \o <<r>>) \o Tail(queue) = (file \o buffer) \o (<<r>> \o Tail(queue))
    BY <2>9, Regroup, Zenon
  <2>2. ((file \o buffer) \o <<r>>) \o Tail(queue) = (file \o buffer) \o queue
    BY <2>1, <2>6
  <2>10. file \in Seq(Record) /\ buffer \in Seq(Record) /\ <<r>> \in Seq(Record)
    BY <1>0, <2>1
  <2>7. (file \o buffer) \o <<r>> = file \o (buffer \o <<r>>)
    <3>. HIDE DEF r
    <3>. QED
      BY <2>10, Regroup, Zenon
  <2>8. Append(buffer, r) = buffer \o <<r>>
    BY <1>0, <2>1, AppendIsConcat
  <2>3. file \o Append(buffer, r) = (file \o buffer) \o <<r>>
    BY <2>7, <2>8
  <2>4. file' \o buffer' = (file \o buffer) \o <<r>>
    BY <1>4, <2>3 DEF Receive
  <2>5. sent' = (file \o buffer) \o queue /\ queue' = Tail(queue)
    BY <1>4 DEF Receive, NothingLost
  <2>. QED
    BY <2>2, <2>4, <2>5
<1>. QED
  BY <1>1, <1>2, <1>3, <1>4
     DEF Next, Work, Failure, Done, ReportDeployment, ReportOther, Leave, ReportFinished, Stop, StopReturns,
         Open, OpenFails, FlushTimerFails, ReceiveFails, FlushFails, Drained, Make, vars, writing, reporting

\* Every step adds to the file only what comes next in the order of sending.
LEMMA FileStep == TypeOK /\ NothingLost /\ FileInOrder /\ [Next]_vars => FileInOrder'
<1>. SUFFICES ASSUME TypeOK, NothingLost, FileInOrder, [Next]_vars PROVE FileInOrder'
  OBVIOUS
<1>0. /\ file \in Seq(Record) /\ buffer \in Seq(Record) /\ queue \in Seq(Record) /\ sent \in Seq(Record)
      /\ Len(buffer) \in Nat
  BY LenProperties DEF TypeOK
<1>1. CASE UNCHANGED <<sent, file>>
  BY <1>1 DEF FileInOrder, IsPrefixOf
<1>2. ASSUME NEW g \in All, Send(g) PROVE FileInOrder'
  <2>1. record[g] \in Record
    BY DEF TypeOK
  <2>2. Len(sent') = Len(sent) + 1 /\ \A i \in 1..Len(sent) : sent'[i] = sent[i]
    BY <1>0, <1>2, <2>1, AppendProperties DEF Send
  <2>. QED
    BY <1>0, <1>2, <2>2, LenProperties DEF Send, writing, FileInOrder, IsPrefixOf
<1>3. ASSUME recorder = "selecting", sent' = sent, file' = file \o buffer PROVE FileInOrder'
  <2>1. buffer = SubSeq(buffer, 1, Len(buffer)) /\ Len(buffer) \in 0..Len(buffer)
    BY <1>0, SubSeqFull
  <2>2. IsPrefixOf(file \o buffer, (file \o buffer) \o queue)
    BY <1>0, <2>1, PrefixExtended
  <2>. QED
    BY <1>3, <2>2 DEF NothingLost, FileInOrder, IsPrefixOf
<1>4. ASSUME recorder = "selecting", sent' = sent, FlushFails PROVE FileInOrder'
  <2>1. PICK n \in 0..Len(buffer) : file' = file \o SubSeq(buffer, 1, n)
    BY <1>4 DEF FlushFails
  <2>2. IsPrefixOf(file \o SubSeq(buffer, 1, n), (file \o buffer) \o queue)
    BY <1>0, PrefixExtended
  <2>. QED
    BY <1>4, <2>1, <2>2 DEF NothingLost, FileInOrder, IsPrefixOf
<1>5. CASE FlushTimer \/ Drained
  BY <1>3, <1>5 DEF FlushTimer, Drained, Flush
<1>6. CASE Receive
  BY <1>1, <1>3, <1>6 DEF Receive
<1>7. CASE FlushTimerFails \/ ReceiveFails
  BY <1>4, <1>7 DEF FlushTimerFails, ReceiveFails
<1>. QED
  BY <1>1, <1>2, <1>5, <1>6, <1>7
     DEF Next, Work, Failure, Done, ReportDeployment, ReportOther, Leave, ReportFinished, Stop, StopReturns,
         Open, OpenFails, vars, writing

\* Every step keeps the order in which the goroutines come to an end.
LEMMA OrderStep == TypeOK /\ NothingLost /\ OrderInv /\ [Next]_vars => OrderInv'
<1>. SUFFICES ASSUME TypeOK, NothingLost, OrderInv, [Next]_vars PROVE OrderInv'
  OBVIOUS
<1>0. Main \in All /\ Goroutines \subseteq All /\ Main \notin Goroutines /\ All = Goroutines \cup {Main}
  BY GoroutinesAssumption DEF All
<1>. USE DEF OrderInv
<1>1. ASSUME NEW g \in Goroutines, pc[g] = "running", NEW v \in {"sending", "returned"},
             pc' = [pc EXCEPT ![g] = v], UNCHANGED <<closed, writing, sent>>
      PROVE  OrderInv'
  BY <1>0, <1>1 DEF TypeOK, writing
<1>2. CASE \E g \in Goroutines, s \in States : ReportDeployment(g, s)
  BY <1>1, <1>2 DEF ReportDeployment, Make
<1>3. CASE \E g \in Goroutines : ReportOther(g) \/ Leave(g)
  BY <1>1, <1>3 DEF ReportOther, Leave, Make
<1>4. ASSUME NEW g \in All, Send(g) PROVE OrderInv'
  <2>1. ~closed
    BY <1>0, <1>4 DEF Send
  <2>2. recorder # "ended" /\ recorder' = recorder /\ closed' = closed
    BY <1>4, <2>1 DEF Send, writing
  <2>3. pc' = [pc EXCEPT ![g] = IF g = Main THEN "closing" ELSE "running"] /\ pc[g] = "sending"
    BY <1>4 DEF Send
  <2>. QED
    BY <1>0, <2>1, <2>2, <2>3 DEF TypeOK
<1>5. CASE ReportFinished \/ Stop \/ StopReturns
  BY <1>0, <1>5 DEF ReportFinished, Stop, StopReturns, Make, TypeOK, writing
<1>6. CASE Open \/ FlushTimer \/ Receive \/ Failure
  BY <1>6 DEF Open, FlushTimer, Receive, Failure, OpenFails, FlushTimerFails, ReceiveFails, FlushFails, reporting
<1>7. CASE Drained
  <2>1. sent = (file \o buffer) \o <<>>
    BY <1>7 DEF Drained, NothingLost
  <2>2. sent = file \o buffer
    BY <2>1, ConcatProperties, ConcatEmptySeq DEF TypeOK
  <2>. QED
    BY <1>7, <2>2 DEF Drained, Flush, reporting
<1>8. CASE UNCHANGED vars
  BY <1>8 DEF vars, reporting, writing
<1>. QED
  BY <1>2, <1>3, <1>4, <1>5, <1>6, <1>7, <1>8 DEF Next, Work, Done

\* The goroutines about to send can be counted.
LEMMA AboutToSendFinite ==
  \A s \in States : IsFiniteSet(AboutToSend(s)) /\ Cardinality(AboutToSend(s)) \in Nat
<1>1. IsFiniteSet(All)
  BY GoroutinesAssumption, FS_AddElement DEF All
<1>2. \A s \in States : AboutToSend(s) \subseteq All
  BY DEF AboutToSend
<1>. QED
  BY <1>1, <1>2, FS_Subset, FS_CardinalityType

\* Steps at which no goroutine begins or ends sending leave the counts alone.
LEMMA CountFrame ==
  ASSUME CountInv, UNCHANGED <<record, made, summary, sent>>, \A g \in All : Sending(g)' <=> Sending(g)
  PROVE  CountInv'
<1>1. \A s \in States : AboutToSend(s)' = AboutToSend(s)
  BY DEF AboutToSend
<1>. QED
  BY <1>1 DEF CountInv, CountBy, CountState

\* A goroutine that made a record is about to send it.
LEMMA CountMake ==
  ASSUME TypeOK, CountInv, NEW g \in All, NEW s \in States \cup {"INFO"}, ~Sending(g), Make(g, s), sent' = sent,
         \A t \in States : summary'[t] = summary[t] + (IF t = s THEN 1 ELSE 0)
  PROVE  CountInv'
<1>1. /\ \A h \in All \ {g} : record'[h] = record[h] /\ made'[h] = made[h] /\ (Sending(h)' <=> Sending(h))
      /\ record'[g].by = g /\ record'[g].state = s /\ made'[g] = made[g] + 1 /\ Sending(g)'
  BY DEF Make, TypeOK, Sending
<1>2. ASSUME NEW t \in States
      PROVE  Cardinality(AboutToSend(t)') = Cardinality(AboutToSend(t)) + (IF t = s THEN 1 ELSE 0)
  <2>1. g \notin AboutToSend(t)
    BY DEF AboutToSend
  <2>2. t = s => AboutToSend(t)' = AboutToSend(t) \cup {g}
    BY <1>1 DEF AboutToSend
  <2>3. t # s => AboutToSend(t)' = AboutToSend(t)
    BY <1>1 DEF AboutToSend
  <2>. QED
    BY <2>1, <2>2, <2>3, AboutToSendFinite, FS_AddElement
<1>3. \A t \in States : CountState(sent, t)' = CountState(sent, t)
  BY DEF CountState
<1>4. \A h \in All : CountBy(sent, h)' = CountBy(sent, h)
  BY DEF CountBy
<1>5. sent \in Seq(Record) /\ NoRecord(g) \in Record
  BY DEF TypeOK, NoRecord, Record
<1>6. \A h \in All : CountBy(sent, h) \in Nat
  BY <1>5, CountAppend
<1>7. \A t \in States : CountState(sent, t) \in Nat
  BY <1>5, CountAppend
<1>8. \A h \in All : record'[h].by = h
  BY <1>1 DEF CountInv
<1>9. \A h \in All : made'[h] = CountBy(sent, h)' + (IF Sending(h)' THEN 1 ELSE 0)
  BY <1>1, <1>4, <1>6 DEF CountInv
<1>10. \A t \in States : summary'[t] = CountState(sent, t)' + Cardinality(AboutToSend(t)')
  <2>1. ASSUME NEW t \in States
        PROVE  summary'[t] = CountState(sent, t)' + Cardinality(AboutToSend(t)')
    <3>1. summary[t] = CountState(sent, t) + Cardinality(AboutToSend(t))
      BY DEF CountInv
    <3>2. Cardinality(AboutToSend(t)) \in Nat /\ CountState(sent, t) \in Nat
      BY <1>7, AboutToSendFinite
    <3>. QED
      BY <1>2, <1>3, <3>1, <3>2
  <2>. QED
    BY <2>1
<1>. QED
  BY <1>8, <1>9, <1>10 DEF CountInv

\* A goroutine that put its record on the queue is not about to send it any more.
LEMMA CountSend == TypeOK /\ CountInv /\ (\E g \in All : Send(g)) => CountInv'
<1>. SUFFICES ASSUME TypeOK, CountInv, NEW g \in All, Send(g) PROVE CountInv'
  OBVIOUS
<1>1. /\ \A h \in All \ {g} : Sending(h)' <=> Sending(h)
      /\ Sending(g) /\ ~Sending(g)' /\ UNCHANGED <<record, made, summary>>
      /\ sent' = Append(sent, record[g]) /\ sent \in Seq(Record) /\ record[g] \in Record /\ record[g].by = g
  BY DEF Send, TypeOK, Sending, CountInv
<1>2. ASSUME NEW t \in States
      PROVE  summary'[t] = CountState(sent, t)' + Cardinality(AboutToSend(t)')
  <2>1. record[g].state = t => AboutToSend(t)' = AboutToSend(t) \ {g} /\ g \in AboutToSend(t)
    BY <1>1 DEF AboutToSend
  <2>2. record[g].state # t => AboutToSend(t)' = AboutToSend(t)
    BY <1>1 DEF AboutToSend
  <2>3. Cardinality(AboutToSend(t)') = Cardinality(AboutToSend(t)) - (IF record[g].state = t THEN 1 ELSE 0)
    BY <2>1, <2>2, AboutToSendFinite, FS_RemoveElement
  <2>4. CountState(sent, t)' = CountState(sent', t)
    BY DEF CountState
  <2>5. CountState(sent, t) \in Nat
        /\ CountState(sent', t) = CountState(sent, t) + (IF record[g].state = t THEN 1 ELSE 0)
    BY <1>1, CountAppend
  <2>6. summary[t] = CountState(sent, t) + Cardinality(AboutToSend(t))
    BY DEF CountInv
  <2>. QED
    BY <1>1, <2>3, <2>4, <2>5, <2>6, AboutToSendFinite
<1>3. ASSUME NEW h \in All
      PROVE  made'[h] = CountBy(sent, h)' + (IF Sending(h)' THEN 1 ELSE 0)
  <2>1. CountBy(sent, h)' = CountBy(sent', h)
    BY DEF CountBy
  <2>2. CountBy(sent, h) \in Nat /\ CountBy(sent', h) = CountBy(sent, h) + (IF g = h THEN 1 ELSE 0)
    BY <1>1, CountAppend
  <2>3. made[h] = CountBy(sent, h) + (IF Sending(h) THEN 1 ELSE 0)
    BY DEF CountInv
  <2>. QED
    BY <1>1, <2>1, <2>2, <2>3
<1>4. \A h \in All : record'[h].by = h
  BY <1>1 DEF CountInv
<1>. QED
  BY <1>2, <1>3, <1>4 DEF CountInv

\* Every step keeps the counts of summary and goroutines in line with the queue.
LEMMA CountStep == TypeOK /\ CountInv /\ [Next]_vars => CountInv'
<1>. SUFFICES ASSUME TypeOK, CountInv, [Next]_vars PROVE CountInv'
  OBVIOUS
<1>0. Main \in All /\ Goroutines \subseteq All
  BY DEF All
<1>1. ASSUME NEW g \in Goroutines, NEW s \in States, ReportDeployment(g, s) PROVE CountInv'
  <2>1. \A t \in States : summary'[t] = summary[t] + (IF t = s THEN 1 ELSE 0)
    BY <1>1 DEF ReportDeployment, TypeOK
  <2>2. g \in All /\ s \in States \cup {"INFO"} /\ ~Sending(g) /\ Make(g, s) /\ sent' = sent
    BY <1>0, <1>1 DEF ReportDeployment, Sending
  <2>. QED
    BY <2>1, <2>2, CountMake
<1>2. ASSUME NEW g \in All, pc[g] \in {"running", "waiting"}, Make(g, "INFO"), UNCHANGED <<summary, sent>>
      PROVE  CountInv'
  <2>1. \A t \in States : t # "INFO" /\ summary'[t] = summary[t] + (IF t = "INFO" THEN 1 ELSE 0)
    BY <1>2, StatesAssumption DEF TypeOK
  <2>2. "INFO" \in States \cup {"INFO"} /\ ~Sending(g)
    BY <1>2 DEF Sending
  <2>. QED
    BY <1>2, <2>1, <2>2, CountMake
<1>3. ASSUME NEW g \in Goroutines, ReportOther(g) PROVE CountInv'
  BY <1>0, <1>2, <1>3 DEF ReportOther
<1>4. CASE ReportFinished
  BY <1>0, <1>2, <1>4 DEF ReportFinished
<1>5. CASE \E g \in All : Send(g)
  BY <1>5, CountSend
<1>6. ASSUME UNCHANGED <<record, made, summary, sent>>, NEW g \in All, ~Sending(g),
             NEW v \in {"returned", "joining", "done"}, pc' = [pc EXCEPT ![g] = v]
      PROVE  CountInv'
  <2>1. \A h \in All : Sending(h)' <=> Sending(h)
    BY <1>6 DEF Sending, TypeOK
  <2>. QED
    BY <1>6, <2>1, CountFrame
<1>7. ASSUME NEW g \in Goroutines, Leave(g) PROVE CountInv'
  BY <1>0, <1>6, <1>7 DEF Leave, Sending
<1>8. CASE Stop \/ StopReturns
  BY <1>0, <1>6, <1>8 DEF Stop, StopReturns, Sending
<1>9. CASE UNCHANGED <<reporting, sent>>
  BY <1>9, CountFrame DEF reporting, Sending
<1>. QED
  BY <1>1, <1>3, <1>4, <1>5, <1>7, <1>8, <1>9
     DEF Next, Work, Failure, Done, Open, OpenFails, FlushTimer, FlushTimerFails, Receive, ReceiveFails, Drained, vars

-----------------------------------------------------------------------------
(* The theorems.                                                           *)

\* The inductive invariant of the report holds throughout.
THEOREM Invariance == Spec => []IInv
<1>1. IInv /\ [Next]_vars => IInv'
  BY TypeStep, LostStep, FileStep, OrderStep, CountStep DEF IInv
<1>. QED
  BY InitInv, <1>1, PTL DEF Spec

\* While the recorder runs, no record that was sent is lost, copied or reordered.
THEOREM NothingEverLost == Spec => []NothingLost
<1>1. IInv => NothingLost
  BY DEF IInv
<1>. QED
  BY Invariance, <1>1, PTL

\* Whatever fails, the file holds the records that were sent first, in order.
THEOREM FileAlwaysInOrder == Spec => []FileInOrder
<1>1. IInv => FileInOrder
  BY DEF IInv
<1>. QED
  BY Invariance, <1>1, PTL

\* When Stop returned without a failure, the file holds every record made.
THEOREM ReportAlwaysComplete == Spec => []ReportComplete
<1>1. IInv => ReportComplete
  <2>. SUFFICES ASSUME IInv, pc[Main] = "done", recorder = "ended"
                PROVE  file = sent /\ \A g \in All : CountBy(sent, g) = made[g]
    BY DEF ReportComplete
  <2>1. file = sent /\ \A g \in All : ~Sending(g)
    BY DEF IInv, OrderInv, Sending, All
  <2>2. NoRecord(Main) \in Record /\ sent \in Seq(Record)
    BY DEF IInv, TypeOK, NoRecord, Record, All
  <2>3. \A g \in All : CountBy(sent, g) \in Nat
    BY <2>2, CountAppend
  <2>. QED
    BY <2>1, <2>3 DEF IInv, CountInv
<1>. QED
  BY Invariance, <1>1, PTL

\* The summary printed after Stop counts the records sent, whatever failed.
THEOREM SummaryAlwaysAgrees == Spec => []SummaryAgrees
<1>1. IInv => SummaryAgrees
  <2>. SUFFICES ASSUME IInv, pc[Main] = "done", NEW s \in States
                PROVE  summary[s] = CountState(sent, s)
    BY DEF SummaryAgrees
  <2>1. \A g \in All : ~Sending(g)
    BY DEF IInv, OrderInv, Sending, All
  <2>2. AboutToSend(s) = {}
    BY <2>1 DEF AboutToSend
  <2>3. NoRecord(Main) \in Record /\ sent \in Seq(Record)
    BY DEF IInv, TypeOK, NoRecord, Record, All
  <2>4. CountState(sent, s) \in Nat
    BY <2>3, CountAppend
  <2>5. summary[s] = CountState(sent, s) + 0
    BY <2>2, FS_EmptySet DEF IInv, CountInv
  <2>. QED
    BY <2>4, <2>5
<1>. QED
  BY Invariance, <1>1, PTL
=============================================================================
