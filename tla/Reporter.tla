------------------------------ MODULE Reporter ------------------------------
(***************************************************************************)
(* The deployment report (pkg/report/reporter.go).  The goroutines of a    *)
(* deployment report records; a report first counts a deployment record in *)
(* the summary and then sends the record on a bounded queue.  One recorder *)
(* goroutine takes records off the queue, collects them in a buffered      *)
(* writer and thereby writes them to the report file.  In the end the main *)
(* goroutine reports "Report finished", stops the reporter and prints the  *)
(* summary (finishReport in cmd/monaco/deploy/command.go).                 *)
(*                                                                         *)
(* A record is who made it, which of that goroutine's records it is, and   *)
(* its state; times, details and the JSON are left out.                    *)
(***************************************************************************)
EXTENDS Naturals, Sequences, FiniteSets

CONSTANTS Goroutines,   \* the goroutines that report before main does
          Main,         \* the main goroutine
          States,       \* the states of deployment records, StateSuccess etc.
          Cap,          \* capacity of the queue, 32 in the code
          MaxReports    \* bound: records each of the Goroutines makes at most

ASSUME GoroutinesAssumption == IsFiniteSet(Goroutines) /\ Main \notin Goroutines
ASSUME StatesAssumption == IsFiniteSet(States) /\ "INFO" \notin States
ASSUME BoundsAssumption == Cap \in Nat \ {0} /\ MaxReports \in Nat

VARIABLES
    pc,         \* where every goroutine is
    record,     \* the record it reports, or reported last
    made,       \* number of records it made
    summary,    \* the counts of the summary, per deployment state
    queue,      \* the queue of records
    closed,     \* the queue was closed
    recorder,   \* where the recorder goroutine is
    buffer,     \* records in the buffered writer
    file,       \* records that are complete in the report file
    sent        \* history: all records put on the queue, in order

reporting == <<pc, record, made, summary>>
writing   == <<recorder, buffer, file>>
vars      == <<reporting, queue, closed, writing, sent>>

All == Goroutines \cup {Main}

Record == [by : All, n : Nat, state : States \cup {"INFO"}]
NoRecord(g) == [by |-> g, n |-> 0, state |-> "INFO"]

TypeOK ==
    /\ pc \in [All -> {"running", "sending", "returned", "waiting", "closing", "joining", "done"}]
    /\ record \in [All -> Record]
    /\ made \in [All -> Nat]
    /\ summary \in [States -> Nat]
    /\ queue \in Seq(Record) /\ Len(queue) <= Cap
    /\ closed \in BOOLEAN
    /\ recorder \in {"opening", "selecting", "ended", "failed"}
    /\ buffer \in Seq(Record)
    /\ file \in Seq(Record)
    /\ sent \in Seq(Record)

Init ==
    /\ pc = [g \in All |-> IF g = Main THEN "waiting" ELSE "running"]
    /\ record = [g \in All |-> NoRecord(g)]
    /\ made = [g \in All |-> 0]
    /\ summary = [s \in States |-> 0]
    /\ queue = <<>>
    /\ closed = FALSE
    /\ recorder = "opening"
    /\ buffer = <<>>
    /\ file = <<>>
    /\ sent = <<>>

-----------------------------------------------------------------------------
(* The goroutines that report.                                             *)

\* A record is made; its goroutine is about to send it.
Make(g, s) ==
    /\ made' = [made EXCEPT ![g] = @ + 1]
    /\ record' = [record EXCEPT ![g] = [by |-> g, n |-> made'[g], state |-> s]]
    /\ pc' = [pc EXCEPT ![g] = "sending"]

\* Fault: the summary counts no record that finds the queue full.
ReportDeploymentIfRoom(g, s) ==
    /\ pc[g] = "running"
    /\ made[g] < MaxReports
    /\ Make(g, s)
    /\ summary' = [summary EXCEPT ![s] = IF Len(queue) < Cap THEN @ + 1 ELSE @]
    /\ UNCHANGED <<queue, closed, writing, sent>>

\* The result of a deployment: the summary is updated under mu.
ReportDeployment(g, s) ==
    /\ pc[g] = "running"
    /\ made[g] < MaxReports
    /\ Make(g, s)
    /\ summary' = [summary EXCEPT ![s] = @ + 1]
    /\ UNCHANGED <<queue, closed, writing, sent>>

\* ReportLoading, ReportCaching and ReportInfo do not touch the summary.
ReportOther(g) ==
    /\ pc[g] = "running"
    /\ made[g] < MaxReports
    /\ Make(g, "INFO")
    /\ UNCHANGED <<summary, queue, closed, writing, sent>>

\* Fault: a record that finds the queue full is dropped.
SendOrDrop(g) ==
    /\ pc[g] = "sending"
    /\ IF Len(queue) < Cap
       THEN queue' = Append(queue, record[g]) /\ sent' = Append(sent, record[g])
       ELSE UNCHANGED <<queue, sent>>
    /\ pc' = [pc EXCEPT ![g] = IF g = Main THEN "closing" ELSE "running"]
    /\ UNCHANGED <<record, made, summary, closed, writing>>

\* Fault: the record is put on the queue whether there is room or not.
SendUnbounded(g) ==
    /\ pc[g] = "sending"
    /\ queue' = Append(queue, record[g])
    /\ sent' = Append(sent, record[g])
    /\ pc' = [pc EXCEPT ![g] = IF g = Main THEN "closing" ELSE "running"]
    /\ UNCHANGED <<record, made, summary, closed, writing>>

\* The record is put on the queue, as soon as there is room.
Send(g) ==
    /\ pc[g] = "sending"
    /\ Len(queue) < Cap
    /\ queue' = Append(queue, record[g])
    /\ sent' = Append(sent, record[g])
    /\ pc' = [pc EXCEPT ![g] = IF g = Main THEN "closing" ELSE "running"]
    /\ UNCHANGED <<record, made, summary, closed, writing>>

\* The deployment has nothing more to report from goroutine g.
Leave(g) ==
    /\ g \in Goroutines
    /\ pc[g] = "running"
    /\ pc' = [pc EXCEPT ![g] = "returned"]
    /\ UNCHANGED <<record, made, summary, queue, closed, writing, sent>>

-----------------------------------------------------------------------------
(* The main goroutine, once all others returned: finishReport.             *)

ReportFinished ==
    /\ pc[Main] = "waiting"
    /\ \A g \in Goroutines : pc[g] = "returned"
    /\ Make(Main, "INFO")
    /\ UNCHANGED <<summary, queue, closed, writing, sent>>

\* Fault: Stop waits for the recorder before it closes the queue.
StopWaitingFirst ==
    /\ pc[Main] = "closing"
    /\ recorder \in {"ended", "failed"}
    /\ closed' = TRUE
    /\ pc' = [pc EXCEPT ![Main] = "joining"]
    /\ UNCHANGED <<record, made, summary, queue, writing, sent>>

\* Stop closes the queue ...
Stop ==
    /\ pc[Main] = "closing"
    /\ closed' = TRUE
    /\ pc' = [pc EXCEPT ![Main] = "joining"]
    /\ UNCHANGED <<record, made, summary, queue, writing, sent>>

\* ... and returns after the recorder did; then the summary is printed.
StopReturns ==
    /\ pc[Main] = "joining"
    /\ recorder \in {"ended", "failed"}
    /\ pc' = [pc EXCEPT ![Main] = "done"]
    /\ UNCHANGED <<record, made, summary, queue, closed, writing, sent>>

-----------------------------------------------------------------------------
(* The recorder goroutine, start and runRecorder.                          *)

Open ==
    /\ recorder = "opening"
    /\ recorder' = "selecting"
    /\ UNCHANGED <<reporting, queue, closed, buffer, file, sent>>

OpenFails ==
    /\ recorder = "opening"
    /\ recorder' = "failed"
    /\ UNCHANGED <<reporting, queue, closed, buffer, file, sent>>

\* Fault: the buffered writer does not forget what it wrote.
FlushKeeping ==
    /\ file' = file \o buffer
    /\ buffer' = buffer

\* The buffered writer writes the records it holds.
Flush ==
    /\ file' = file \o buffer
    /\ buffer' = <<>>

\* It fails after some of them, and the recorder leaves.
FlushFails ==
    /\ \E n \in 0..Len(buffer) :
          /\ file' = file \o SubSeq(buffer, 1, n)
          /\ buffer' = SubSeq(buffer, n + 1, Len(buffer))
    /\ recorder' = "failed"

\* Fault: the timer discards what the buffered writer holds.
FlushTimerResetting ==
    /\ recorder = "selecting"
    /\ buffer' = <<>>
    /\ UNCHANGED <<reporting, queue, closed, recorder, file, sent>>

\* No record came for a while: what is buffered is written and the file synced.
FlushTimer ==
    /\ recorder = "selecting"
    /\ Flush
    /\ UNCHANGED <<reporting, queue, closed, recorder, sent>>

\* The flush of the timer, its sync, or the last flush of all fails.
FlushTimerFails ==
    /\ recorder = "selecting"
    /\ FlushFails
    /\ UNCHANGED <<reporting, queue, closed, sent>>

\* A record is received and written; when the buffer is full, what it held
\* before is written to the file.
Receive ==
    /\ recorder = "selecting"
    /\ queue # <<>>
    /\ queue' = Tail(queue)
    /\ \/ buffer' = Append(buffer, Head(queue)) /\ file' = file
       \/ buffer' = <<Head(queue)>> /\ file' = file \o buffer
    /\ UNCHANGED <<reporting, closed, recorder, sent>>

\* The record that did not fit is lost with the failure to make room for it.
ReceiveFails ==
    /\ recorder = "selecting"
    /\ queue # <<>>
    /\ queue' = Tail(queue)
    /\ FlushFails
    /\ UNCHANGED <<reporting, closed, sent>>

\* Fault: the recorder leaves when the queue is closed, whatever is still in it.
DrainNothing ==
    /\ recorder = "selecting"
    /\ closed
    /\ Flush
    /\ recorder' = "ended"
    /\ UNCHANGED <<reporting, queue, closed, sent>>

\* The queue is closed and empty: a last flush.
Drained ==
    /\ recorder = "selecting"
    /\ closed /\ queue = <<>>
    /\ Flush
    /\ recorder' = "ended"
    /\ UNCHANGED <<reporting, queue, closed, sent>>

-----------------------------------------------------------------------------
Work ==
    \/ \E g \in Goroutines, s \in States : ReportDeployment(g, s)
    \/ \E g \in Goroutines : ReportOther(g) \/ Leave(g)
    \/ \E g \in All : Send(g)
    \/ ReportFinished \/ Stop \/ StopReturns
    \/ Open \/ FlushTimer \/ Receive \/ Drained

Failure == OpenFails \/ FlushTimerFails \/ ReceiveFails

\* finishReport returned.
Done == pc[Main] = "done" /\ UNCHANGED vars

Next == Work \/ Failure \/ Done

\* Some goroutine that can run does; no failure has to happen.
Spec == Init /\ [][Next]_vars /\ WF_vars(Work)

-----------------------------------------------------------------------------
(* Properties.                                                             *)

IsPrefixOf(s, t) == Len(s) <= Len(t) /\ \A i \in 1..Len(s) : s[i] = t[i]

\* Number of records in sequence q that are in state s, or were made by g.
CountState(q, s) == Cardinality({i \in 1..Len(q) : q[i].state = s})
CountBy(q, g)    == Cardinality({i \in 1..Len(q) : q[i].by = g})

\* runRecorder: while the recorder runs, every record that was sent is in exactly
\* one of file, buffered writer and queue, in the order it was sent.
NothingLost ==
    recorder \in {"opening", "selecting"} => sent = (file \o buffer) \o queue

\* runRecorder, also after a failure: the file holds the records sent first, with
\* none left out or written twice.
FileInOrder == IsPrefixOf(file, sent)

\* Stop: when it returned and no file operation failed, the file holds all records
\* that any goroutine made.
ReportComplete ==
    pc[Main] = "done" /\ recorder = "ended" =>
        /\ file = sent
        /\ \A g \in All : CountBy(sent, g) = made[g]

\* GetSummary, printed after Stop: its counts are those of the records reported,
\* even if the file could not be written.
SummaryAgrees ==
    pc[Main] = "done" => \A s \in States : summary[s] = CountState(sent, s)

\* Stop returns, also after the recorder failed, unless the queue it left behind is
\* full and a goroutine waits for room in it, which nobody will make.
StopsUnlessStuck ==
    <>(\/ pc[Main] = "done"
       \/ recorder = "failed" /\ Len(queue) = Cap /\ \E g \in All : pc[g] = "sending")

\* The comment on Stop: "writing out all records".
AllRecordsWritten == pc[Main] = "done" => file = sent

-----------------------------------------------------------------------------
(* The inductive invariant behind the safety properties.                   *)

\* Main goes on when all others returned, and the queue is closed by it alone.
OrderInv ==
    /\ pc[Main] \in {"waiting", "sending", "closing", "joining", "done"}
    /\ \A g \in Goroutines : pc[g] \in {"running", "sending", "returned"}
    /\ pc[Main] # "waiting" => \A g \in Goroutines : pc[g] = "returned"
    /\ closed <=> pc[Main] \in {"joining", "done"}
    /\ recorder = "ended" => closed /\ file = sent

\* The summary and the goroutines' own counts are ahead of the queue by the
\* records about to be sent, and by no others.
Sending(g)     == pc[g] = "sending"
AboutToSend(s) == {g \in All : Sending(g) /\ record[g].state = s}
CountInv ==
    /\ \A g \in All : record[g].by = g
    /\ \A g \in All : made[g] = CountBy(sent, g) + (IF Sending(g) THEN 1 ELSE 0)
    /\ \A s \in States :
          summary[s] = CountState(sent, s) + Cardinality(AboutToSend(s))

IInv == TypeOK /\ NothingLost /\ FileInOrder /\ OrderInv /\ CountInv
=============================================================================
