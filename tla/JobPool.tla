------------------------------ MODULE JobPool ------------------------------
(***************************************************************************)
(* What the deployment of account resources relies on when it hands a      *)
(* batch of jobs to a dispatcher: every job runs exactly once, never more  *)
(* of them at a time than there are workers, and the answer comes after    *)
(* the last one ended and holds all the errors they reported.              *)
(***************************************************************************)
EXTENDS Integers, FiniteSets

CONSTANTS Jobs,         \* the jobs of the batch
          MaxWorkers,   \* how many run at a time, 0 or less for no limit
          MaxSends      \* bound: errors a job reports at most

VARIABLES job,          \* what became of every job
          failures,     \* number of errors every job reported
          answer        \* the errors returned, per job, none before the end

vars == <<job, failures, answer>>

Running == {j \in Jobs : job[j] = "running"}

NoErrors == [j \in Jobs |-> 0]

Init ==
    /\ job = [j \in Jobs |-> "todo"]
    /\ failures = NoErrors
    /\ answer = <<>>

Begin(j) ==
    /\ job[j] = "todo"
    /\ MaxWorkers > 0 => Cardinality(Running) < MaxWorkers
    /\ job' = [job EXCEPT ![j] = "running"]
    /\ UNCHANGED <<failures, answer>>

Report(j) ==
    /\ job[j] = "running" /\ failures[j] < MaxSends
    /\ failures' = [failures EXCEPT ![j] = @ + 1]
    /\ UNCHANGED <<job, answer>>

End(j) ==
    /\ job[j] = "running"
    /\ job' = [job EXCEPT ![j] = "done"]
    /\ UNCHANGED <<failures, answer>>

Answer ==
    /\ answer = <<>>
    /\ \A j \in Jobs : job[j] = "done"
    /\ answer' = <<failures>>
    /\ UNCHANGED <<job, failures>>

Next == Answer \/ \E j \in Jobs : Begin(j) \/ Report(j) \/ End(j)

Safe == Init /\ [][Next]_vars

\* Liveness: the batch is answered.
Spec == Safe /\ <>(answer # <<>>)
=============================================================================
