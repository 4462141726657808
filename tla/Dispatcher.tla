----------------------------- MODULE Dispatcher -----------------------------
(***************************************************************************)
(* The job dispatcher of the account deployment                            *)
(* (pkg/account/deployer/dispatcher.go), for one batch: the main goroutine *)
(* runs it, adds all jobs, waits and stops it, as each phase in            *)
(* pkg/account/deployer/deployer.go does.                                  *)
(*                                                                         *)
(* A job added is received by the dispatch loop, which starts a goroutine  *)
(* for it that waits for a worker; a worker offers its own channel to      *)
(* these goroutines, and the one that receives it hands its job over.  So  *)
(* a worker that offered is bound to one job until that ended, and what is *)
(* left to know of the other workers is how many they are.  All channels   *)
(* are unbuffered.                                                         *)
(***************************************************************************)
EXTENDS Integers, FiniteSets

CONSTANTS Jobs,         \* the jobs of the batch
          MaxWorkers,   \* workers started by Run, 0 or less for one per job
          MaxSends      \* bound: values a job sends on the error channel

ASSUME JobsAssumption == IsFiniteSet(Jobs)
ASSUME BoundsAssumption == MaxWorkers \in Int /\ MaxSends \in Nat

VARIABLES
    main,       \* where the main goroutine is
    stage,      \* where every job is
    sends,      \* number of values every job sent, or tries to
    failed,     \* history: number of those that are errors
    ers,        \* number of errors of every job that Wait collected
    wg,         \* counter of the wait group
    idle,       \* workers that offer their channel
    quits       \* goroutines of Stop that wait for a worker to look at quit

vars == <<main, stage, sends, failed, ers, wg, idle, quits>>

Fixed == MaxWorkers > 0

\* Stages of a job that a worker is bound to, and the jobs at given stages.
InFlight == {"handed", "running", "sending", "sendingNil"}
At(S)    == {j \in Jobs : stage[j] \in S}

Busy    == At(InFlight)
Added   == At({"added", "waiting"} \cup InFlight)
Started == At({"waiting", "done"} \cup InFlight)

\* The error channel was closed.
Closed == main \in {"closed", "returned", "stopped"}

TypeOK ==
    /\ main \in {"adding", "waiting", "closed", "returned", "stopped"}
    /\ stage \in [Jobs -> {"new", "added", "waiting", "handed", "running",
                           "sending", "sendingNil", "done"}]
    /\ sends \in [Jobs -> 0..MaxSends]
    /\ failed \in [Jobs -> Nat]
    /\ ers \in [Jobs -> Nat]
    /\ wg \in Nat
    /\ idle \in Nat
    /\ quits \in Nat

Init ==
    /\ main = "adding"
    /\ stage = [j \in Jobs |-> "new"]
    /\ sends = [j \in Jobs |-> 0]
    /\ failed = [j \in Jobs |-> 0]
    /\ ers = [j \in Jobs |-> 0]
    /\ wg = 0
    /\ idle = IF Fixed THEN MaxWorkers ELSE 0
    /\ quits = 0

Move(j, from, to) ==
    /\ stage[j] = from
    /\ stage' = [stage EXCEPT ![j] = to]

-----------------------------------------------------------------------------
(* Plausible faults, each of which the properties tell from the code.      *)

\* The job is not counted when it is added.
AddUncounted(j) ==
    /\ main = "adding" /\ At({"added"}) = {}
    /\ Move(j, "new", "added")
    /\ UNCHANGED <<main, sends, failed, ers, wg, idle, quits>>

\* Wait waits for the jobs to be started, not for their end.
CloseWhenStarted ==
    /\ main = "waiting" /\ At({"waiting", "handed"}) = {}
    /\ main' = "closed"
    /\ UNCHANGED <<stage, sends, failed, ers, wg, idle, quits>>

\* The workers are stopped early, at the first error.
StopAtError ==
    /\ \/ main = "returned"
       \/ main = "waiting" /\ \E j \in Jobs : ers[j] > 0
    /\ main' = "stopped"
    /\ quits' = IF Fixed THEN MaxWorkers ELSE 0
    /\ UNCHANGED <<stage, sends, failed, ers, wg, idle>>

\* A worker ends after its first job.
FinishAndLeave(j) ==
    /\ Move(j, "running", "done")
    /\ wg' = wg - 1
    /\ UNCHANGED <<main, sends, failed, ers, idle, quits>>

\* A worker is started for every job, also when their number is fixed.
DispatchStarting(j) ==
    /\ Move(j, "added", "waiting")
    /\ idle' = idle + 1
    /\ UNCHANGED <<main, sends, failed, ers, wg, quits>>

\* The dispatch loop itself waits for a worker, not a goroutine per job.
DispatchInline(j) ==
    /\ At({"waiting"}) = {}
    /\ Move(j, "added", "waiting")
    /\ idle' = IF Fixed THEN idle ELSE idle + 1
    /\ UNCHANGED <<main, sends, failed, ers, wg, quits>>

\* Wait collects the first error only.
CollectFirst(j) ==
    /\ main = "waiting" /\ \A i \in Jobs : ers[i] = 0
    /\ Move(j, "sending", "running")
    /\ ers' = [ers EXCEPT ![j] = @ + 1]
    /\ UNCHANGED <<main, sends, failed, wg, idle, quits>>

-----------------------------------------------------------------------------
(* The main goroutine.                                                     *)

\* AddJob blocks until the dispatch loop received the job added before.
AddJob(j) ==
    /\ main = "adding" /\ At({"added"}) = {}
    /\ Move(j, "new", "added")
    /\ wg' = wg + 1
    /\ UNCHANGED <<main, sends, failed, ers, idle, quits>>

\* Wait starts to collect errors once all jobs were added.
Wait ==
    /\ main = "adding" /\ At({"new", "added"}) = {}
    /\ main' = "waiting"
    /\ UNCHANGED <<stage, sends, failed, ers, wg, idle, quits>>

\* All jobs called Done: Wait closes the error channel ...
CloseErrors ==
    /\ main = "waiting" /\ wg = 0
    /\ main' = "closed"
    /\ UNCHANGED <<stage, sends, failed, ers, wg, idle, quits>>

\* ... on which the goroutine that collects ends, and Wait returns.
WaitReturns ==
    /\ main = "closed"
    /\ main' = "returned"
    /\ UNCHANGED <<stage, sends, failed, ers, wg, idle, quits>>

\* Stop knows of the workers that Run started, not of those started per job.
Stop ==
    /\ main = "returned"
    /\ main' = "stopped"
    /\ quits' = IF Fixed THEN MaxWorkers ELSE 0
    /\ UNCHANGED <<stage, sends, failed, ers, wg, idle>>

-----------------------------------------------------------------------------
(* The dispatch loop, the goroutines it starts, and the workers.           *)

\* dispatch and dynamicDispatch; the latter starts a worker for the job.
Dispatch(j) ==
    /\ Move(j, "added", "waiting")
    /\ idle' = IF Fixed THEN idle ELSE idle + 1
    /\ UNCHANGED <<main, sends, failed, ers, wg, quits>>

\* The goroutine of the job receives the channel of a worker.
Offer(j) ==
    /\ idle > 0
    /\ Move(j, "waiting", "handed")
    /\ idle' = idle - 1
    /\ UNCHANGED <<main, sends, failed, ers, wg, quits>>

\* It hands the job over; the worker could quit here instead if asked to.
Start(j) ==
    /\ Move(j, "handed", "running")
    /\ UNCHANGED <<main, sends, failed, ers, wg, idle, quits>>

\* A call of the job failed.
Fail(j) ==
    /\ sends[j] < MaxSends
    /\ Move(j, "running", "sending")
    /\ sends' = [sends EXCEPT ![j] = @ + 1]
    /\ failed' = [failed EXCEPT ![j] = @ + 1]
    /\ UNCHANGED <<main, ers, wg, idle, quits>>

\* fetchResources sends the result of its call also if it is no error.
SendNil(j) ==
    /\ sends[j] < MaxSends
    /\ Move(j, "running", "sendingNil")
    /\ sends' = [sends EXCEPT ![j] = @ + 1]
    /\ UNCHANGED <<main, failed, ers, wg, idle, quits>>

\* The goroutine that Wait started receives an error.
Collect(j) ==
    /\ main = "waiting"
    /\ Move(j, "sending", "running")
    /\ ers' = [ers EXCEPT ![j] = @ + 1]
    /\ UNCHANGED <<main, sends, failed, wg, idle, quits>>

CollectNil(j) ==
    /\ main = "waiting"
    /\ Move(j, "sendingNil", "running")
    /\ UNCHANGED <<main, sends, failed, ers, wg, idle, quits>>

\* The deferred Done of the job, after which its worker offers again.
Finish(j) ==
    /\ Move(j, "running", "done")
    /\ wg' = wg - 1
    /\ idle' = idle + 1
    /\ UNCHANGED <<main, sends, failed, ers, quits>>

Done == main = "stopped" /\ UNCHANGED vars

Next ==
    \/ Wait \/ CloseErrors \/ WaitReturns \/ Stop \/ Done
    \/ \E j \in Jobs :
          \/ AddJob(j) \/ Dispatch(j) \/ Offer(j) \/ Start(j) \/ Fail(j)
          \/ SendNil(j) \/ Collect(j) \/ CollectNil(j) \/ Finish(j)

Spec == Init /\ [][Next]_vars /\ WF_vars(Next)
-----------------------------------------------------------------------------
(* Properties.                                                             *)

\* Wait closes the error channel only when no job can send on it any more
\* (that would panic), and it returns every error any job reported.
WaitIsComplete ==
    Closed => \A j \in Jobs : stage[j] = "done" /\ ers[j] = failed[j]

\* Stop never takes a worker away from a job: as long as a worker may be asked
\* to quit, none is bound to a job that it did not start, which its select
\* would drop (worker.start chooses between the job and quit).
NoJobLostToQuit == quits > 0 => At({"handed"}) = {}

\* The wait group counts the jobs that were added and are not done.
WaitGroupInv == wg = Cardinality(Added)

\* No worker is lost and none appears: each offers or is bound to a job.
WorkersInv ==
    idle + Cardinality(Busy) = IF Fixed THEN MaxWorkers ELSE Cardinality(Started)

\* Every error is collected, or its job is sending it.
ErrorsInv ==
    \A j \in Jobs :
        /\ failed[j] <= sends[j]
        /\ failed[j] = ers[j] + (IF stage[j] = "sending" THEN 1 ELSE 0)

\* How far the main goroutine is tells how far the jobs are.
PhaseInv ==
    /\ main # "adding" => At({"new", "added"}) = {}
    /\ Closed => wg = 0
    /\ main # "stopped" => quits = 0

\* The wait group, the workers and the errors add up in every state; with the
\* phases this is inductive and implies the properties above.
IInv ==
    /\ TypeOK
    /\ WaitGroupInv
    /\ WorkersInv
    /\ ErrorsInv
    /\ PhaseInv

\* Every batch is answered: AddJob never blocks for ever although nobody collects
\* errors before Wait, Wait returns, and the main goroutine gets past Stop.  By then
\* the goroutines of all jobs have ended for good; the dispatch loop and the workers
\* stay, the workers offering their channel to nobody.
BatchAnswered ==
    <>[](/\ main = "stopped"
         /\ \A j \in Jobs : stage[j] = "done"
         /\ idle = IF Fixed THEN MaxWorkers ELSE Cardinality(Jobs))

\* The dispatcher is a job pool: every job once, no more than MaxWorkers at a
\* time, one answer in the end with all errors.
Promise == INSTANCE JobPool WITH
    job <- [j \in Jobs |->
              IF stage[j] \in {"running", "sending", "sendingNil"} THEN "running"
              ELSE IF stage[j] = "done" THEN "done" ELSE "todo"],
    failures <- failed,
    answer <- IF main \in {"returned", "stopped"} THEN <<ers>> ELSE <<>>

Implements == Promise!Spec

=============================================================================
