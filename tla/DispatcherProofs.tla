-------------------------- MODULE DispatcherProofs --------------------------
(***************************************************************************)
(* Proofs about Dispatcher, for any finite set of jobs, any number of      *)
(* workers, and any number of values that a job sends.                     *)
(***************************************************************************)
EXTENDS Dispatcher, FiniteSetTheorems, TLAPS

\* A job that moves from one stage to another enters and leaves the sets of
\* jobs at given stages accordingly.
LEMMA MoveCount ==
    ASSUME NEW S, NEW j \in Jobs, NEW from, NEW to,
           stage \in [Jobs -> {"new", "added", "waiting", "handed", "running",
                               "sending", "sendingNil", "done"}],
           Move(j, from, to)
    PROVE  /\ IsFiniteSet(At(S)) /\ Cardinality(At(S)) \in Nat
           /\ Cardinality(At(S))' = Cardinality(At(S))
                + (IF to \in S /\ from \notin S THEN 1 ELSE 0)
                - (IF from \in S /\ to \notin S THEN 1 ELSE 0)
<1>1. /\ IsFiniteSet(At(S)) /\ Cardinality(At(S)) \in Nat
  BY JobsAssumption, FS_Subset, FS_CardinalityType DEF At
<1>2. CASE from \in S /\ to \in S
  <2>1. At(S)' = At(S)
    BY <1>2 DEF At, Move
  <2> QED BY <1>1, <1>2, <2>1
<1>3. CASE from \notin S /\ to \notin S
  <2>1. At(S)' = At(S)
    BY <1>3 DEF At, Move
  <2> QED BY <1>1, <1>3, <2>1
<1>4. CASE from \in S /\ to \notin S
  <2>1. At(S)' = At(S) \ {j} /\ j \in At(S)
    BY <1>4 DEF At, Move
  <2>2. Cardinality(At(S) \ {j}) = Cardinality(At(S)) - 1
    BY <1>1, <2>1, FS_RemoveElement
  <2> QED BY <1>1, <1>4, <2>1, <2>2
<1>5. CASE from \notin S /\ to \in S
  <2>1. At(S)' = At(S) \cup {j} /\ j \notin At(S)
    BY <1>5 DEF At, Move
  <2>2. Cardinality(At(S) \cup {j}) = Cardinality(At(S)) + 1
    BY <1>1, <2>1, FS_AddElement
  <2> QED BY <1>1, <1>5, <2>1, <2>2
<1> QED BY <1>2, <1>3, <1>4, <1>5

\* The invariant holds before any job is added.
LEMMA InitInv == Init => IInv
<1> SUFFICES ASSUME Init PROVE IInv
  OBVIOUS
<1>1. TypeOK
  BY BoundsAssumption DEF Init, TypeOK, Fixed
<1>2. Busy = {} /\ Added = {} /\ Started = {}
  BY DEF Init, Busy, Added, Started, At, InFlight
<1>3. WaitGroupInv
  BY <1>2, FS_EmptySet DEF Init, WaitGroupInv
<1>4. WorkersInv
  BY <1>2, FS_EmptySet, BoundsAssumption DEF Init, WorkersInv, Fixed
<1>5. ErrorsInv
  BY DEF Init, ErrorsInv
<1>6. PhaseInv
  BY DEF Init, PhaseInv, Closed
<1> QED BY <1>1, <1>3, <1>4, <1>5, <1>6 DEF IInv
\* A job at one of the given stages is counted.
LEMMA SomeAt ==
    ASSUME NEW S, NEW j \in Jobs, stage[j] \in S
    PROVE  Cardinality(At(S)) \in Nat \ {0}
<1>1. IsFiniteSet(At(S)) /\ j \in At(S)
  BY JobsAssumption, FS_Subset DEF At
<1> QED BY <1>1, FS_CardinalityType, FS_EmptySet

\* Every step keeps the types; the wait group never becomes negative, because a
\* job that calls Done was counted.
LEMMA TypeStep == IInv /\ [Next]_vars => TypeOK'
<1> SUFFICES ASSUME IInv, [Next]_vars PROVE TypeOK'
  OBVIOUS
<1> USE DEF TypeOK
<1>1. TypeOK
  BY DEF IInv
<1>2. CASE UNCHANGED vars
  BY <1>1, <1>2 DEF vars
<1>3. CASE Wait \/ CloseErrors \/ WaitReturns \/ Done
  BY <1>1, <1>3 DEF Wait, CloseErrors, WaitReturns, Done, vars
<1>4. CASE Stop
  BY <1>1, <1>4, BoundsAssumption DEF Stop, Fixed
<1>5. ASSUME NEW j \in Jobs, AddJob(j) PROVE TypeOK'
  BY <1>1, <1>5 DEF AddJob, Move
<1>6. ASSUME NEW j \in Jobs, Dispatch(j) PROVE TypeOK'
  BY <1>1, <1>6 DEF Dispatch, Move
<1>7. ASSUME NEW j \in Jobs, Offer(j) PROVE TypeOK'
  BY <1>1, <1>7 DEF Offer, Move
<1>8. ASSUME NEW j \in Jobs, Start(j) PROVE TypeOK'
  BY <1>1, <1>8 DEF Start, Move
<1>9. ASSUME NEW j \in Jobs, Fail(j) PROVE TypeOK'
  BY <1>1, <1>9, BoundsAssumption DEF Fail, Move
<1>10. ASSUME NEW j \in Jobs, SendNil(j) PROVE TypeOK'
  BY <1>1, <1>10, BoundsAssumption DEF SendNil, Move
<1>11. ASSUME NEW j \in Jobs, Collect(j) PROVE TypeOK'
  BY <1>1, <1>11 DEF Collect, Move
<1>12. ASSUME NEW j \in Jobs, CollectNil(j) PROVE TypeOK'
  BY <1>1, <1>12 DEF CollectNil, Move
<1>13. ASSUME NEW j \in Jobs, Finish(j) PROVE TypeOK'
  <2>1. Cardinality(Added) \in Nat \ {0}
    BY <1>13, SomeAt DEF Finish, Move, Added, InFlight
  <2>2. wg - 1 \in Nat
    BY <1>1, <2>1 DEF IInv, WaitGroupInv
  <2> QED BY <1>1, <1>13, <2>2 DEF Finish, Move
<1> QED
  BY <1>2, <1>3, <1>4, <1>5, <1>6, <1>7, <1>8, <1>9, <1>10, <1>11, <1>12, <1>13 DEF Next

\* How a step changes the counts: nothing but AddJob, Dispatch, Offer and
\* Finish moves a job into or out of what is counted.
LEMMA CountStep ==
    IInv /\ [Next]_vars => WaitGroupInv' /\ WorkersInv'
<1> SUFFICES ASSUME IInv, [Next]_vars PROVE WaitGroupInv' /\ WorkersInv'
  OBVIOUS
<1> DEFINE Counts(a, b, s) ==
      /\ Cardinality(Added)' = Cardinality(Added) + a
      /\ Cardinality(Busy)' = Cardinality(Busy) + b
      /\ Cardinality(Started)' = Cardinality(Started) + s
<1>1. TypeOK /\ WaitGroupInv /\ WorkersInv
  BY DEF IInv
<1>2. /\ Cardinality(Added) \in Nat
      /\ Cardinality(Busy) \in Nat
      /\ Cardinality(Started) \in Nat
  BY JobsAssumption, FS_Subset, FS_CardinalityType DEF Added, Busy, Started, At
<1>3. ASSUME stage' = stage, wg' = wg, idle' = idle
      PROVE  WaitGroupInv' /\ WorkersInv'
  <2>1. Added' = Added /\ Busy' = Busy /\ Started' = Started
    BY <1>3 DEF Added, Busy, Started, At
  <2> QED BY <1>1, <1>3, <2>1 DEF WaitGroupInv, WorkersInv, Fixed
<1>4. CASE Wait \/ CloseErrors \/ WaitReturns \/ Stop \/ Done \/ UNCHANGED vars
  BY <1>3, <1>4 DEF Wait, CloseErrors, WaitReturns, Stop, Done, vars
<1>5. ASSUME NEW j \in Jobs, AddJob(j) PROVE WaitGroupInv' /\ WorkersInv'
  <2>1. Move(j, "new", "added")
    BY <1>5 DEF AddJob
  <2>2. Cardinality(Added)' = Cardinality(Added) + 1
    BY <1>1, <1>2, <2>1, MoveCount DEF TypeOK, Added, InFlight
  <2>3. Cardinality(Busy)' = Cardinality(Busy)
    BY <1>1, <1>2, <2>1, MoveCount DEF TypeOK, Busy, InFlight
  <2>4. Cardinality(Started)' = Cardinality(Started)
    BY <1>1, <1>2, <2>1, MoveCount DEF TypeOK, Started, InFlight
  <2> QED BY <1>1, <1>2, <1>5, <2>2, <2>3, <2>4 DEF AddJob, WaitGroupInv, WorkersInv, Fixed
<1>6. ASSUME NEW j \in Jobs, Dispatch(j) PROVE WaitGroupInv' /\ WorkersInv'
  <2>1. Move(j, "added", "waiting")
    BY <1>6 DEF Dispatch
  <2>2. Cardinality(Added)' = Cardinality(Added)
    BY <1>1, <1>2, <2>1, MoveCount DEF TypeOK, Added, InFlight
  <2>3. Cardinality(Busy)' = Cardinality(Busy)
    BY <1>1, <1>2, <2>1, MoveCount DEF TypeOK, Busy, InFlight
  <2>4. Cardinality(Started)' = Cardinality(Started) + 1
    BY <1>1, <1>2, <2>1, MoveCount DEF TypeOK, Started, InFlight
  <2> QED BY <1>1, <1>2, <1>6, <2>2, <2>3, <2>4 DEF Dispatch, TypeOK, WaitGroupInv, WorkersInv, Fixed
<1>7. ASSUME NEW j \in Jobs, Offer(j) PROVE WaitGroupInv' /\ WorkersInv'
  <2>1. Move(j, "waiting", "handed")
    BY <1>7 DEF Offer
  <2>2. Cardinality(Added)' = Cardinality(Added)
    BY <1>1, <1>2, <2>1, MoveCount DEF TypeOK, Added, InFlight
  <2>3. Cardinality(Busy)' = Cardinality(Busy) + 1
    BY <1>1, <1>2, <2>1, MoveCount DEF TypeOK, Busy, InFlight
  <2>4. Cardinality(Started)' = Cardinality(Started)
    BY <1>1, <1>2, <2>1, MoveCount DEF TypeOK, Started, InFlight
  <2> QED BY <1>1, <1>2, <1>7, <2>2, <2>3, <2>4 DEF Offer, TypeOK, WaitGroupInv, WorkersInv, Fixed
<1>8. ASSUME NEW j \in Jobs, NEW from \in InFlight, NEW to \in InFlight, Move(j, from, to)
      PROVE  Added' = Added /\ Busy' = Busy /\ Started' = Started
  BY <1>1, <1>8 DEF Move, TypeOK, Added, Busy, Started, At
<1>9. ASSUME NEW j \in Jobs, Start(j) \/ Fail(j) \/ SendNil(j) \/ Collect(j) \/ CollectNil(j)
      PROVE  WaitGroupInv' /\ WorkersInv'
  <2>1. Added' = Added /\ Busy' = Busy /\ Started' = Started
    BY <1>8, <1>9 DEF Start, Fail, SendNil, Collect, CollectNil, InFlight
  <2>2. wg' = wg /\ idle' = idle
    BY <1>9 DEF Start, Fail, SendNil, Collect, CollectNil
  <2> QED BY <1>1, <2>1, <2>2 DEF WaitGroupInv, WorkersInv, Fixed
<1>10. ASSUME NEW j \in Jobs, Finish(j) PROVE WaitGroupInv' /\ WorkersInv'
  <2>1. Move(j, "running", "done")
    BY <1>10 DEF Finish
  <2>2. Cardinality(Added)' = Cardinality(Added) - 1
    BY <1>1, <1>2, <2>1, MoveCount DEF TypeOK, Added, InFlight
  <2>3. Cardinality(Busy)' = Cardinality(Busy) - 1
    BY <1>1, <1>2, <2>1, MoveCount DEF TypeOK, Busy, InFlight
  <2>4. Cardinality(Started)' = Cardinality(Started)
    BY <1>1, <1>2, <2>1, MoveCount DEF TypeOK, Started, InFlight
  <2> QED BY <1>1, <1>2, <1>10, <2>2, <2>3, <2>4 DEF Finish, TypeOK, WaitGroupInv, WorkersInv, Fixed
<1> QED
  BY <1>4, <1>5, <1>6, <1>7, <1>9, <1>10 DEF Next

\* Every step keeps the account of errors and what the phases say.
LEMMA PhaseStep == IInv /\ [Next]_vars => ErrorsInv' /\ PhaseInv'
<1> SUFFICES ASSUME IInv, [Next]_vars PROVE ErrorsInv' /\ PhaseInv'
  OBVIOUS
<1> USE DEF ErrorsInv, PhaseInv, Closed, At
<1>1. TypeOK /\ ErrorsInv /\ PhaseInv
  BY DEF IInv
<1>2. CASE UNCHANGED vars
  BY <1>1, <1>2 DEF vars
<1>3. CASE Wait \/ CloseErrors \/ WaitReturns \/ Stop \/ Done
  BY <1>1, <1>3 DEF TypeOK, Wait, CloseErrors, WaitReturns, Stop, Done, vars
<1>4. ASSUME NEW j \in Jobs, AddJob(j) PROVE ErrorsInv' /\ PhaseInv'
  BY <1>1, <1>4 DEF TypeOK, AddJob, Move
<1>5. ASSUME NEW j \in Jobs, Dispatch(j) PROVE ErrorsInv' /\ PhaseInv'
  BY <1>1, <1>5 DEF TypeOK, Dispatch, Move
<1>6. ASSUME NEW j \in Jobs, Offer(j) PROVE ErrorsInv' /\ PhaseInv'
  BY <1>1, <1>6 DEF TypeOK, Offer, Move
<1>7. ASSUME NEW j \in Jobs, Start(j) PROVE ErrorsInv' /\ PhaseInv'
  BY <1>1, <1>7 DEF TypeOK, Start, Move
<1>8. ASSUME NEW j \in Jobs, Fail(j) PROVE ErrorsInv' /\ PhaseInv'
  BY <1>1, <1>8 DEF TypeOK, Fail, Move
<1>9. ASSUME NEW j \in Jobs, SendNil(j) PROVE ErrorsInv' /\ PhaseInv'
  BY <1>1, <1>9 DEF TypeOK, SendNil, Move
<1>10. ASSUME NEW j \in Jobs, Collect(j) PROVE ErrorsInv' /\ PhaseInv'
  BY <1>1, <1>10 DEF TypeOK, Collect, Move
<1>11. ASSUME NEW j \in Jobs, CollectNil(j) PROVE ErrorsInv' /\ PhaseInv'
  BY <1>1, <1>11 DEF TypeOK, CollectNil, Move
<1>12. ASSUME NEW j \in Jobs, Finish(j) PROVE ErrorsInv' /\ PhaseInv'
  <2>1. Cardinality(Added) \in Nat \ {0}
    BY <1>12, SomeAt DEF Finish, Move, Added, InFlight
  <2>2. ~Closed
    BY <1>1, <2>1 DEF IInv, WaitGroupInv
  <2> QED BY <1>1, <1>12, <2>2 DEF TypeOK, Finish, Move
<1> QED
  BY <1>2, <1>3, <1>4, <1>5, <1>6, <1>7, <1>8, <1>9, <1>10, <1>11, <1>12 DEF Next

\* The types, the counts of the wait group and of the workers, the account of
\* errors and the phases hold in every state.
THEOREM Invariance == Spec => []IInv
<1>1. IInv /\ [Next]_vars => IInv'
  BY TypeStep, CountStep, PhaseStep DEF IInv
<1> QED BY InitInv, <1>1, PTL DEF Spec

\* When the error channel is closed every job is done and all its errors were
\* collected: nothing is sent on the closed channel, nothing is missing.
LEMMA ClosedMeansDone == IInv => WaitIsComplete
<1> SUFFICES ASSUME IInv, Closed, NEW j \in Jobs
             PROVE  stage[j] = "done" /\ ers[j] = failed[j]
  BY DEF WaitIsComplete
<1>1. stage[j] \notin {"new", "added"}
  BY DEF IInv, PhaseInv, Closed, At
<1>2. stage[j] \notin {"added", "waiting"} \cup InFlight
  <2>1. Cardinality(Added) = 0
    BY DEF IInv, PhaseInv, WaitGroupInv
  <2> QED BY <2>1, SomeAt DEF Added
<1>3. stage[j] = "done"
  BY <1>1, <1>2 DEF IInv, TypeOK, InFlight
<1> QED BY <1>3 DEF IInv, TypeOK, ErrorsInv

\* Wait closes the channel and returns only when that is safe and complete.
THEOREM WaitAlwaysComplete == Spec => []WaitIsComplete
BY Invariance, ClosedMeansDone, PTL

\* A worker that is asked to quit is never one that a job waits for.
THEOREM NoJobEverLost == Spec => []NoJobLostToQuit
<1>1. IInv => NoJobLostToQuit
  BY ClosedMeansDone DEF IInv, TypeOK, PhaseInv, Closed, WaitIsComplete, NoJobLostToQuit, At
<1> QED BY Invariance, <1>1, PTL

\* Every step of the dispatcher is a step of the job pool or changes nothing
\* there: a job begins when a worker is bound to it and starts it, so no more
\* jobs run than there are workers, and the answer is given when all is done.
THEOREM ImplementsPool == Spec => Promise!Safe
<1> USE DEF Promise!Running, Promise!NoErrors
<1>1. Init => Promise!Init
  BY DEF Init, Promise!Init
<1>2. ASSUME IInv, [Next]_vars PROVE [Promise!Next]_(Promise!vars)
  <2> USE DEF Promise!vars
  <2>1. TypeOK /\ ErrorsInv /\ PhaseInv
    BY <1>2 DEF IInv
  <2>2. CASE UNCHANGED vars \/ Wait \/ CloseErrors \/ Stop \/ Done
    BY <2>1, <2>2 DEF TypeOK, vars, Wait, CloseErrors, Stop, Done
  <2>3. CASE WaitReturns
    <3>1. \A j \in Jobs : stage[j] = "done" /\ ers[j] = failed[j]
      BY <1>2, <2>3, ClosedMeansDone DEF WaitReturns, Closed, WaitIsComplete
    <3>2. ers = failed
      BY <2>1, <3>1 DEF TypeOK
    <3>3. Promise!Answer
      BY <2>1, <2>3, <3>1, <3>2 DEF TypeOK, WaitReturns, Promise!Answer
    <3> QED BY <3>3 DEF Promise!Next
  <2>4. ASSUME NEW j \in Jobs, AddJob(j) \/ Dispatch(j) \/ Offer(j)
        PROVE  UNCHANGED Promise!vars
    BY <2>1, <2>4 DEF TypeOK, AddJob, Dispatch, Offer, Move
  <2>5. ASSUME NEW j \in Jobs, SendNil(j) \/ CollectNil(j)
        PROVE  UNCHANGED Promise!vars
    BY <2>1, <2>5 DEF TypeOK, SendNil, CollectNil, Move
  <2>6. ASSUME NEW j \in Jobs, Collect(j)
        PROVE  UNCHANGED Promise!vars
    BY <2>1, <2>6 DEF TypeOK, Collect, Move
  <2>7. ASSUME NEW j \in Jobs, Fail(j)
        PROVE  Promise!Report(j)
    BY <2>1, <2>7, BoundsAssumption DEF TypeOK, ErrorsInv, Fail, Move, Promise!Report
  <2>8. ASSUME NEW j \in Jobs, Finish(j)
        PROVE  Promise!End(j)
    BY <2>1, <2>8 DEF TypeOK, Finish, Move, Promise!End
  <2>9. ASSUME NEW j \in Jobs, Start(j)
        PROVE  Promise!Begin(j)
    <3> DEFINE Run == At({"running", "sending", "sendingNil"})
    <3>1. MaxWorkers > 0 => Cardinality(Run) < MaxWorkers
      <4>1. Run \subseteq Busy \ {j} /\ j \in Busy /\ IsFiniteSet(Busy)
        BY <2>9, JobsAssumption, FS_Subset DEF Start, Move, Busy, At, InFlight
      <4>2. Cardinality(Busy \ {j}) = Cardinality(Busy) - 1 /\ IsFiniteSet(Busy \ {j})
        BY <4>1, FS_RemoveElement
      <4>3. Cardinality(Run) <= Cardinality(Busy \ {j}) /\ Cardinality(Run) \in Nat
        BY <4>1, <4>2, FS_Subset, FS_CardinalityType
      <4>4. Cardinality(Busy) \in Nat
        BY <4>1, FS_CardinalityType
      <4>5. Fixed => Cardinality(Busy) <= MaxWorkers
        BY <1>2, <2>1, <4>4, BoundsAssumption DEF IInv, TypeOK, WorkersInv, Fixed
      <4> QED BY <4>2, <4>3, <4>4, <4>5, BoundsAssumption DEF Fixed
    <3>2. Run = Promise!Running
      BY <2>1 DEF TypeOK, At
    <3> HIDE DEF Run
    <3>3. Cardinality(Run) = Promise!Cardinality(Run)
      BY Zenon DEF Cardinality, Promise!Cardinality
    <3>4. MaxWorkers > 0 => Promise!Cardinality(Promise!Running) < MaxWorkers
      BY <3>1, <3>2, <3>3, BoundsAssumption
    <3> QED BY <2>1, <2>9, <3>4 DEF TypeOK, Start, Move, Promise!Begin
  <2> QED
    BY <1>2, <2>2, <2>3, <2>4, <2>5, <2>6, <2>7, <2>8, <2>9 DEF Next, Promise!Next
<1> QED BY Invariance, <1>1, <1>2, PTL DEF Spec, Promise!Safe
=============================================================================
