---------------------------- MODULE DeployProofs ----------------------------
(***************************************************************************)
(* Proofs about the deployment of one environment, for every finite set of *)
(* configurations, every acyclic dependency graph and every limit.         *)
(***************************************************************************)
EXTENDS Deploy, FiniteSetTheorems, SequenceTheorems, TLAPS

-----------------------------------------------------------------------------
(* Components and acyclic graphs.                                          *)

\* Every configuration is in the component found from it.
LEMMA ComponentsCover ==
  ASSUME NEW E, NEW c \in Config
  PROVE  c \in ComponentOf(E, c) /\ ComponentOf(E, c) \in Components(E)
BY DEF ComponentOf, Components

\* A component consists of configurations and no edge leaves or enters it.
LEMMA ComponentsIsolated ==
  ASSUME NEW E \in SUBSET (Config \X Config), NEW k \in Components(E)
  PROVE  k \subseteq Config /\ IsolatedIn(E, k)
<1>1. PICK r \in Config : k = ComponentOf(E, r)
  BY DEF Components
<1>2. k \subseteq Config
  BY <1>1 DEF ComponentOf
<1>3. ASSUME NEW e \in E
      PROVE  e[1] \in k <=> e[2] \in k
  <2>1. e[1] \in Config /\ e[2] \in Config
    OBVIOUS
  <2>2. ASSUME NEW S \in SUBSET Config, r \in S, IsolatedIn(E, S)
        PROVE  e[1] \in S <=> e[2] \in S
    BY <2>2 DEF IsolatedIn
  <2>3. QED
    BY <1>1, <2>1, <2>2 DEF ComponentOf
<1>4. QED
  BY <1>2, <1>3 DEF IsolatedIn

\* No configuration is in two components.
LEMMA ComponentsDisjoint ==
  ASSUME NEW E \in SUBSET (Config \X Config),
         NEW j \in Components(E), NEW k \in Components(E), NEW c \in j \cap k
  PROVE  j = k
<1>1. ASSUME NEW r \in Config, c \in ComponentOf(E, r)
      PROVE  ComponentOf(E, r) = ComponentOf(E, c)
  <2>1. c \in Config
    BY <1>1 DEF ComponentOf
  <2>2. ASSUME NEW S \in SUBSET Config, IsolatedIn(E, S)
        PROVE  r \in S <=> c \in S
    <3>1. r \in S => c \in S
      BY <1>1, <2>2 DEF ComponentOf
    <3>2. r \in Config \ S => c \in Config \ S
      <4>1. IsolatedIn(E, Config \ S)
        BY <2>2 DEF IsolatedIn
      <4>. QED
        BY <1>1, <4>1 DEF ComponentOf
    <3>. QED
      BY <3>1, <3>2
  <2>. QED
    BY <2>1, <2>2 DEF ComponentOf
<1>. QED
  BY <1>1 DEF Components

-----------------------------------------------------------------------------
(* The open calls of removeChildren.                                       *)

\* What appending does to the open calls: they are those before and the new one.
LEMMA Push ==
  ASSUME NEW s \in Seq(Config), NEW c \in Config
  PROVE  /\ Append(s, c) \in Seq(Config)
         /\ Len(Append(s, c)) = Len(s) + 1
         /\ \A i \in 1..Len(s) : Append(s, c)[i] = s[i]
         /\ Append(s, c)[Len(s) + 1] = c
OBVIOUS

\* What returning from a call does: the calls below it stay as they are.
LEMMA Pop ==
  ASSUME NEW s \in Seq(Config), Len(s) > 1
  PROVE  LET t == SubSeq(s, 1, Len(s) - 1) IN
         /\ t \in Seq(Config)
         /\ Len(t) = Len(s) - 1
         /\ \A i \in 1..Len(t) : t[i] = s[i]
<1>1. \A i \in 1..(Len(s) - 1) : s[i] \in Config
  OBVIOUS
<1>2. Len(s) - 1 \in Int /\ 1 \in Int
  OBVIOUS
<1>. DEFINE t == SubSeq(s, 1, Len(s) - 1)
<1>3. /\ t \in Seq(Config)
      /\ Len(t) = IF 1 <= Len(s) - 1 THEN Len(s) - 1 - 1 + 1 ELSE 0
      /\ \A i \in 1 .. Len(s) - 1 - 1 + 1 : t[i] = s[1 + i - 1]
  BY <1>1, <1>2, SubSeqProperties
<1>4. Len(s) \in Nat
  OBVIOUS
<1>5. \A i \in 1 .. Len(s) - 1 : 1 + i - 1 = i
  BY <1>4
<1>. QED
  BY <1>3, <1>4, <1>5

-----------------------------------------------------------------------------
(* Types and the limiter.                                                  *)

\* The configurations in flight can be counted.
LEMMA InFlightFinite == IsFiniteSet(InFlight) /\ Cardinality(InFlight) \in Nat
BY ConfigAssumption, FS_Subset, FS_CardinalityType DEF InFlight

\* No goroutine runs at first, so no slot is in use.
LEMMA InitType == Init => TypeOK /\ LimiterRespected
<1>. SUFFICES ASSUME Init PROVE TypeOK /\ LimiterRespected
  OBVIOUS
<1>1. InFlight = {}
  BY DEF Init, InFlight
<1>2. TypeOK
  BY DEF Init, TypeOK, PC, Outcome
<1>. QED
  BY <1>1, <1>2, FS_EmptySet, LimiterAssumption DEF LimiterRespected, Init

\* Steps that neither take nor give back a slot.
LEMMA QuietType ==
  ASSUME TypeOK, LimiterRespected,
         pc' \in [Config -> PC], InFlight' = InFlight,
         slots' = slots, edges' = edges, skip' = skip, components' = components,
         live' \subseteq Config, outcome' \in [Config -> Outcome],
         reports' \in [Config -> Nat], entities' \subseteq Config, stack' \in Seq(Config),
         errCount' \in [components -> Nat], gathered' \subseteq components, total' \in Nat
  PROVE  TypeOK' /\ LimiterRespected'
BY DEF TypeOK, LimiterRespected

\* A configuration in flight that returns gives back exactly one slot.
LEMMA ReturnType ==
  ASSUME TypeOK, LimiterRespected, NEW c \in Config, pc[c] \in {"resolve", "deploying"},
         NEW result \in Outcome, NEW next \in PC \ {"resolve", "deploying"},
         Return(c, result, next)
  PROVE  TypeOK' /\ LimiterRespected'
<1>1. InFlight' = InFlight \ {c}
  BY DEF Return, InFlight, TypeOK
<1>2. c \in InFlight
  BY DEF InFlight
<1>3. Cardinality(InFlight') = Cardinality(InFlight) - 1 /\ Cardinality(InFlight') \in Nat
  <2>1. IsFiniteSet(InFlight \ {c}) /\ Cardinality(InFlight \ {c}) = Cardinality(InFlight) - 1
    BY <1>2, InFlightFinite, FS_RemoveElement
  <2>2. Cardinality(InFlight \ {c}) \in Nat
    BY <2>1, FS_CardinalityType
  <2>. QED
    BY <1>1, <2>1, <2>2
<1>4. slots' = Cardinality(InFlight') /\ slots' \in Nat
  BY <1>3 DEF Return, LimiterRespected
<1>5. MaxConcurrent > 0 => slots' <= MaxConcurrent
  BY <1>3, <1>4, InFlightFinite, LimiterAssumption DEF LimiterRespected, Return, TypeOK
<1>6. TypeOK'
  BY <1>4 DEF Return, TypeOK, choices, tally
<1>. QED
  BY <1>4, <1>5, <1>6 DEF LimiterRespected

\* Every step keeps the types, and the slots in use the number of configurations in flight.
LEMMA NextType == TypeOK /\ LimiterRespected /\ [Next]_vars => TypeOK' /\ LimiterRespected'
<1>. SUFFICES ASSUME TypeOK, LimiterRespected, [Next]_vars
              PROVE  TypeOK' /\ LimiterRespected'
  OBVIOUS
<1>. USE DEF choices, tally
<1>0. \A k \in components : k \subseteq Config
  BY GraphsAssumption, ComponentsIsolated DEF TypeOK
<1>1. ASSUME NEW k \in components, ComponentStep(k)
      PROVE  TypeOK' /\ LimiterRespected'
  <2>1. CASE StartWave(k)
    BY <2>1, <1>0, QuietType DEF StartWave, TypeOK, InFlight, PC, Roots
  <2>2. ASSUME NEW c \in k, Collect(k, c)
        PROVE  TypeOK' /\ LimiterRespected'
    BY <2>2, <1>0, QuietType DEF Collect, TypeOK, InFlight, PC
  <2>3. CASE EndWave(k)
    BY <2>3, QuietType DEF EndWave, TypeOK, InFlight, PC
  <2>4. CASE Gather(k)
    BY <2>4, QuietType DEF Gather, TypeOK, InFlight, PC
  <2>. QED
    BY <1>1, <2>1, <2>2, <2>3, <2>4 DEF ComponentStep
<1>2. ASSUME NEW c \in Config, NodeStep(c)
      PROVE  TypeOK' /\ LimiterRespected'
  <2>1. CASE Launch(c)
    BY <2>1, QuietType DEF Launch, TypeOK, InFlight, PC
  <2>2. CASE Acquire(c)
    <3>1. InFlight' = InFlight \cup {c} /\ c \notin InFlight
      BY <2>2 DEF Acquire, InFlight, TypeOK
    <3>2. Cardinality(InFlight') = Cardinality(InFlight) + 1
      BY <3>1, InFlightFinite, FS_AddElement
    <3>3. TypeOK'
      BY <2>2 DEF Acquire, TypeOK, PC
    <3>4. MaxConcurrent > 0 => slots' <= MaxConcurrent
      BY <2>2, LimiterAssumption DEF Acquire, TypeOK
    <3>. QED
      BY <2>2, <3>2, <3>3, <3>4 DEF Acquire, LimiterRespected
  <2>3. CASE Exclude(c) \/ ResolveError(c) \/ DeployOk(c) \/ DeployError(c)
    BY <2>3, ReturnType DEF Exclude, ResolveError, DeployOk, DeployError, PC, Outcome
  <2>4. CASE Resolve(c)
    BY <2>4, QuietType DEF Resolve, TypeOK, InFlight, PC
  <2>5. CASE Lock(c)
    BY <2>5, QuietType DEF Lock, TypeOK, InFlight, PC
  <2>6. CASE Put(c)
    BY <2>6, QuietType DEF Put, TypeOK, InFlight, PC
  <2>7. CASE Report(c)
    BY <2>7, QuietType DEF Report, TypeOK, InFlight, PC
  <2>8. CASE Unlock(c)
    BY <2>8, QuietType, EmptySeq DEF Unlock, TypeOK, InFlight, PC
  <2>. QED
    BY <1>2, <2>1, <2>2, <2>3, <2>4, <2>5, <2>6, <2>7, <2>8 DEF NodeStep
<1>3. CASE RemovalStep
  <2>1. CASE SkipChild
    BY <2>1, QuietType, Push DEF SkipChild, TypeOK, InFlight, Outcome, Remaining, Children
  <2>2. CASE RemoveChild
    BY <2>2, QuietType, Pop DEF RemoveChild, TypeOK, InFlight
  <2>. QED
    BY <1>3, <2>1, <2>2 DEF RemovalStep
<1>4. CASE UNCHANGED vars
  BY <1>4 DEF vars, TypeOK, LimiterRespected, InFlight
<1>. QED
  BY <1>1, <1>2, <1>3, <1>4 DEF Next, Done

\* The type invariant, and that every way out of deployConfig gives back its slot.
THEOREM TypeCorrect == Spec => [](TypeOK /\ LimiterRespected)
BY InitType, NextType, PTL DEF Spec

-----------------------------------------------------------------------------
(* What the two steps that pick nodes of the graph may rely on.            *)

\* Nodes removeChildren has been called on.
LEMMA TopFacts ==
  ASSUME IInv, stack # <<>>
  PROVE  /\ Len(stack) \in Nat \ {0}
         /\ Top \in Config /\ Top \in live
         /\ outcome[Top] \in Settled
         /\ pc[stack[1]] = "removing" /\ stack[1] \in Config
<1>1. Len(stack) \in Nat \ {0} /\ stack[1] \in Config /\ Top \in Config
  BY DEF IInv, TypeOK, Top
<1>2. pc[stack[1]] = "removing"
  BY <1>1 DEF IInv, StackInv
<1>3. CASE Len(stack) = 1
  BY <1>1, <1>2, <1>3 DEF IInv, OutcomeInv, GraphInv, Top, Settled, AtWork, PC
<1>4. CASE Len(stack) # 1
  <2>1. Len(stack) \in 2..Len(stack)
    <3>1. \A n \in Nat : n # 0 /\ n # 1 => n \in 2..n
      OBVIOUS
    <3>. QED
      BY <3>1, <1>1, <1>4
  <2>2. \A i \in 2..Len(stack) : stack[i] \in live /\ outcome[stack[i]] = "skipped"
    BY DEF IInv, StackInv
  <2>3. Top \in live /\ outcome[Top] = "skipped"
    BY <2>1, <2>2 DEF Top
  <2>. QED
    BY <1>1, <1>2, <2>3 DEF Settled
<1>. QED
  BY <1>1, <1>2, <1>3, <1>4

\* A child still in the graph has no outcome yet: it cannot be a root, since its
\* parent is in the graph, and a skipped one would close a cycle with the stack.
LEMMA ChildFresh ==
  ASSUME IInv, stack # <<>>, NEW c \in Remaining
  PROVE  /\ c \in Config /\ c \in live /\ <<Top, c>> \in edges
         /\ pc[c] = "idle" /\ outcome[c] = "none"
<1>1. c \in Config /\ c \in live /\ <<Top, c>> \in edges
  BY DEF Remaining, Children
<1>2. Top \in Parents(edges, c) \cap live
  BY <1>1, TopFacts DEF Parents
<1>3. pc[c] = "idle"
  BY <1>1, <1>2 DEF IInv, GraphInv, AtWork, TypeOK
<1>4. ASSUME outcome[c] # "none"
      PROVE  FALSE
  <2>1. PICK i \in 2..Len(stack) : stack[i] = c
    BY <1>1, <1>3, <1>4 DEF IInv, GraphInv, OutcomeInv
  <2>. DEFINE S == {stack[j] : j \in i..Len(stack)}
  <2>2. S \in SUBSET Config /\ S # {}
    BY <2>1, TopFacts DEF IInv, TypeOK
  <2>3. PICK r \in Roots(edges, S) : TRUE
    BY <2>2, GraphsAssumption DEF IInv, TypeOK, IsAcyclic
  <2>4. PICK j \in i..Len(stack) : r = stack[j]
    BY <2>3 DEF Roots
  <2>5. CASE j = i
    <3>1. Top \in S
      BY <2>1, TopFacts DEF Top
    <3>. QED
      BY <3>1, <1>2, <2>1, <2>3, <2>4, <2>5 DEF Roots
  <2>6. CASE j # i
    <3>1. j \in 2..Len(stack) /\ j - 1 \in i..Len(stack) /\ j - 1 \in 1..Len(stack)
      BY <2>1, <2>4, <2>6, TopFacts
    <3>2. <<stack[j-1], r>> \in edges
      BY <2>4, <3>1 DEF IInv, StackInv
    <3>3. stack[j-1] \in S /\ stack[j-1] \in Config
      BY <3>1 DEF IInv, TypeOK
    <3>. QED
      BY <2>3, <3>2, <3>3 DEF Roots, Parents
  <2>. QED
    BY <2>5, <2>6
<1>. QED
  BY <1>1, <1>3, <1>4

\* Between two waves, what is left of a component was never attempted.
LEMMA WaveFresh ==
  ASSUME IInv, NEW k \in components, StartWave(k), NEW c \in k \cap live
  PROVE  /\ c \in Config /\ pc[c] = "idle" /\ outcome[c] = "none"
         /\ c \in Roots(edges, k \cap live) => Parents(edges, c) \cap live = {}
<1>1. k \subseteq Config /\ IsolatedIn(edges, k)
  BY GraphsAssumption, ComponentsIsolated DEF IInv, TypeOK
<1>2. pc[c] = "idle"
  BY <1>1 DEF StartWave, IInv, GraphInv
<1>3. ASSUME outcome[c] # "none"
      PROVE  FALSE
  <2>1. PICK i \in 2..Len(stack) : stack[i] = c
    BY <1>1, <1>2, <1>3 DEF IInv, GraphInv, OutcomeInv
  <2>2. stack # <<>> /\ i \in 1..Len(stack)
    BY <2>1 DEF IInv, TypeOK
  <2>3. stack[1] \in k
    BY <2>1, <2>2 DEF IInv, StackInv
  <2>. QED
    BY <2>2, <2>3, TopFacts DEF StartWave
<1>4. ASSUME c \in Roots(edges, k \cap live), NEW p \in Parents(edges, c), p \in live
      PROVE  FALSE
  <2>1. <<p, c>> \in edges /\ p \in Config
    BY <1>4 DEF Parents
  <2>2. p \in k
    BY <1>1, <2>1 DEF IsolatedIn
  <2>. QED
    BY <1>4, <2>1, <2>2 DEF Roots, Parents
<1>. QED
  BY <1>1, <1>2, <1>3, <1>4

-----------------------------------------------------------------------------
(* The conjuncts of the inductive invariant, one lemma each.               *)

\* Every step keeps the outcome of a configuration in line with where its goroutine is.
LEMMA OutcomeStep == IInv /\ [Next]_vars => OutcomeInv'
<1>. SUFFICES ASSUME IInv, [Next]_vars PROVE OutcomeInv'
  OBVIOUS
<1>. USE DEF choices, tally
<1>0. TypeOK /\ OutcomeInv
  BY DEF IInv
<1>1. ASSUME NEW k \in components, ComponentStep(k)
      PROVE  OutcomeInv'
  <2>1. CASE StartWave(k)
    <3>1. \A c \in Roots(edges, k \cap live) : pc[c] = "idle" /\ outcome[c] = "none"
      BY <2>1, WaveFresh DEF Roots
    <3>. QED
      BY <1>0, <2>1, <3>1 DEF StartWave, OutcomeInv, TypeOK, InConfig
  <2>2. ASSUME NEW c \in k, Collect(k, c)
        PROVE  OutcomeInv'
    BY <1>0, <2>2 DEF Collect, OutcomeInv, TypeOK, InConfig
  <2>3. CASE EndWave(k)
    BY <1>0, <2>3 DEF EndWave, OutcomeInv, TypeOK, InConfig
  <2>4. CASE Gather(k)
    BY <1>0, <2>4 DEF Gather, OutcomeInv
  <2>. QED
    BY <1>1, <2>1, <2>2, <2>3, <2>4 DEF ComponentStep
<1>2. ASSUME NEW c \in Config, NodeStep(c)
      PROVE  OutcomeInv'
  <2>1. CASE Launch(c) \/ Acquire(c) \/ Resolve(c)
    BY <1>0, <2>1 DEF Launch, Acquire, Resolve, OutcomeInv, TypeOK, InConfig
  <2>2. CASE Exclude(c) \/ ResolveError(c) \/ DeployError(c)
    BY <1>0, <2>2 DEF Exclude, ResolveError, DeployError, Return, OutcomeInv, TypeOK, InConfig
  <2>3. CASE DeployOk(c)
    BY <1>0, <2>3 DEF DeployOk, Return, OutcomeInv, TypeOK, InConfig
  <2>4. CASE Lock(c) \/ Unlock(c)
    BY <1>0, <2>4 DEF Lock, Unlock, OutcomeInv, TypeOK, InConfig
  <2>5. CASE Put(c)
    BY <1>0, <2>5 DEF Put, OutcomeInv, TypeOK, InConfig
  <2>6. CASE Report(c)
    BY <1>0, <2>6 DEF Report, OutcomeInv, TypeOK, InConfig
  <2>. QED
    BY <1>2, <2>1, <2>2, <2>3, <2>4, <2>5, <2>6 DEF NodeStep
<1>3. CASE SkipChild
  <2>1. PICK c \in Remaining : /\ outcome' = [outcome EXCEPT ![c] = "skipped"]
                               /\ reports' = [reports EXCEPT ![c] = @ + 1]
    BY <1>3 DEF SkipChild
  <2>2. c \in Config /\ pc[c] = "idle" /\ outcome[c] = "none"
    BY <1>3, ChildFresh DEF SkipChild
  <2>3. pc' = pc /\ entities' = entities /\ skip' = skip
    BY <1>3 DEF SkipChild
  <2>. QED
    BY <1>0, <2>1, <2>2, <2>3 DEF OutcomeInv, TypeOK, InConfig
<1>4. CASE RemoveChild
  BY <1>0, <1>4 DEF RemoveChild, OutcomeInv
<1>5. CASE UNCHANGED vars
  BY <1>0, <1>5 DEF vars, OutcomeInv
<1>. QED
  BY <1>1, <1>2, <1>3, <1>4, <1>5 DEF Next, RemovalStep, Done

\* Every step keeps a reason for each skipped configuration: outcomes are never revised.
LEMMA SkippedStep == IInv /\ [Next]_vars => SkippedBelowFailure'
<1>. SUFFICES ASSUME IInv, [Next]_vars PROVE SkippedBelowFailure'
  OBVIOUS
<1>. USE DEF choices, tally
<1>0. TypeOK /\ OutcomeInv /\ SkippedBelowFailure /\ edges' = edges
  BY DEF IInv, Next, ComponentStep, StartWave, Collect, EndWave, Gather, NodeStep, Launch,
         Acquire, Exclude, Resolve, ResolveError, DeployOk, DeployError, Return, Lock, Unlock,
         Put, Report, RemovalStep, SkipChild, RemoveChild, Done, vars
<1>1. CASE UNCHANGED outcome
  BY <1>0, <1>1 DEF SkippedBelowFailure
<1>2. ASSUME NEW c \in Config, NEW result, outcome[c] = "none", result # "skipped",
             outcome' = [outcome EXCEPT ![c] = result]
      PROVE  SkippedBelowFailure'
  BY <1>0, <1>2 DEF SkippedBelowFailure, Settled, Parents, TypeOK
<1>3. CASE SkipChild
  <2>1. PICK c \in Remaining : outcome' = [outcome EXCEPT ![c] = "skipped"]
    BY <1>3 DEF SkipChild
  <2>2. stack # <<>>
    BY <1>3 DEF SkipChild
  <2>3. /\ c \in Config /\ outcome[c] = "none"
        /\ Top \in Parents(edges, c) /\ outcome[Top] \in Settled
    BY <2>1, <2>2, ChildFresh, TopFacts DEF Parents
  <2>. QED
    BY <1>0, <2>1, <2>3 DEF SkippedBelowFailure, Settled, Parents, TypeOK
<1>4. ASSUME NEW c \in Config, Exclude(c) \/ ResolveError(c) \/ DeployOk(c) \/ DeployError(c)
      PROVE  SkippedBelowFailure'
  <2>1. outcome[c] = "none"
    BY <1>0, <1>4 DEF OutcomeInv, InConfig, Exclude, ResolveError, DeployOk, DeployError
  <2>. QED
    BY <1>2, <1>4, <2>1 DEF Exclude, ResolveError, DeployOk, DeployError, Return
<1>. QED
  BY <1>1, <1>3, <1>4 DEF Next, ComponentStep, StartWave, Collect, EndWave, Gather, NodeStep,
     Launch, Acquire, Resolve, Lock, Unlock, Put, Report, RemovalStep, RemoveChild, Done, vars

\* All ways out of deployConfig, as far as other goroutines can tell.
LEMMA Returning ==
  ASSUME TypeOK, NEW c \in Config, Exclude(c) \/ ResolveError(c) \/ DeployOk(c) \/ DeployError(c)
  PROVE  /\ pc[c] \in {"resolve", "deploying"}
         /\ pc' = [pc EXCEPT ![c] = "failing"] \/ pc' = [pc EXCEPT ![c] = "put"]
         /\ outcome'[c] # "deployed" => pc' = [pc EXCEPT ![c] = "failing"]
         /\ \A d \in Config \ {c} : outcome'[d] = outcome[d]
         /\ UNCHANGED <<stack, edges, components, live, tally>>
BY DEF TypeOK, choices, tally, Exclude, ResolveError, DeployOk, DeployError, Return

\* A goroutine that neither holds nor takes the lock leaves the stack's facts alone.
LEMMA StackFrame ==
  ASSUME TypeOK, StackInv, NEW c \in Config, pc[c] \notin {"idle", "removing"},
         NEW place \in PC \ {"removing"}, pc' = [pc EXCEPT ![c] = place],
         \A d \in Config \ {c} : outcome'[d] = outcome[d],
         UNCHANGED <<stack, components, edges, live>>
  PROVE  StackInv'
<1>1. \A i \in 2..Len(stack) : stack[i] \in Config \ {c}
  <2>1. \A i \in 2..Len(stack) : stack[i] \in Config
    BY DEF TypeOK
  <2>2. \A i \in 2..Len(stack) : pc[stack[i]] = "idle"
    BY DEF StackInv
  <2>. QED
    BY <2>1, <2>2
<1>2. \A d \in Config : pc'[d] = "removing" <=> pc[d] = "removing"
  BY DEF TypeOK
<1>3. \A d \in Config \ {c} : pc'[d] = pc[d]
  BY DEF TypeOK
<1>. QED
  BY <1>1, <1>2, <1>3 DEF StackInv

\* Every step keeps the stack a path of skipped nodes below the holder of the lock.
LEMMA StackStep == IInv /\ [Next]_vars => StackInv'
<1>. SUFFICES ASSUME IInv, [Next]_vars PROVE StackInv'
  OBVIOUS
<1>. USE DEF choices, tally
<1>0. TypeOK /\ OutcomeInv /\ GraphInv /\ StackInv
  BY DEF IInv
<1>a. \A i \in 1..Len(stack) : stack[i] \in Config
  BY <1>0 DEF TypeOK
<1>1. ASSUME NEW k \in components, ComponentStep(k)
      PROVE  StackInv'
  <2>1. CASE StartWave(k)
    <3>1. \A c \in Roots(edges, k \cap live) : pc[c] = "idle" /\ outcome[c] = "none"
      BY <2>1, WaveFresh DEF Roots
    <3>. QED
      <4>1. \A c \in Config : pc'[c] # pc[c] => pc[c] = "idle" /\ outcome[c] = "none" /\ pc'[c] = "queued"
        BY <2>1, <3>1 DEF StartWave
      <4>2. \A i \in 2..Len(stack) : outcome[stack[i]] = "skipped" /\ stack[i] \in Config
        BY <1>0 DEF StackInv, TypeOK
      <4>3. \A i \in 2..Len(stack) : pc'[stack[i]] = pc[stack[i]]
        BY <4>1, <4>2
      <4>4. \A c \in Config : pc'[c] = "removing" <=> pc[c] = "removing"
        BY <4>1
      <4>5. UNCHANGED <<stack, components, edges, live, outcome>>
        BY <2>1 DEF StartWave
      <4>. QED
        BY <1>0, <4>3, <4>4, <4>5 DEF StackInv
  <2>2. ASSUME NEW c \in k, Collect(k, c)
        PROVE  StackInv'
    BY <1>0, <1>a, <2>2 DEF Collect, StackInv, TypeOK
  <2>3. CASE EndWave(k)
    BY <1>0, <1>a, <2>3 DEF EndWave, StackInv, TypeOK
  <2>4. CASE Gather(k)
    BY <1>0, <2>4 DEF Gather, StackInv
  <2>. QED
    BY <1>1, <2>1, <2>2, <2>3, <2>4 DEF ComponentStep
<1>2. ASSUME NEW c \in Config, NodeStep(c)
      PROVE  StackInv'
  <2>1. CASE Launch(c) \/ Acquire(c) \/ Resolve(c)
    BY <1>0, <2>1, StackFrame DEF Launch, Acquire, Resolve, PC
  <2>2. CASE Exclude(c) \/ ResolveError(c) \/ DeployOk(c) \/ DeployError(c)
    BY <1>0, <2>2, Returning, StackFrame DEF PC
  <2>3. CASE Lock(c)
    BY <1>0, <2>3 DEF Lock, StackInv, TypeOK
  <2>4. CASE Unlock(c)
    BY <1>0, <2>4 DEF Unlock, StackInv, TypeOK
  <2>5. CASE Put(c) \/ Report(c)
    BY <1>0, <2>5, StackFrame DEF Put, Report, PC
  <2>. QED
    BY <1>2, <2>1, <2>2, <2>3, <2>4, <2>5 DEF NodeStep
<1>3. CASE SkipChild
  <2>1. PICK c \in Remaining : /\ outcome' = [outcome EXCEPT ![c] = "skipped"]
                               /\ stack' = Append(stack, c)
    BY <1>3 DEF SkipChild
  <2>2. /\ c \in Config /\ c \in live /\ <<Top, c>> \in edges
        /\ pc[c] = "idle" /\ outcome[c] = "none"
    BY <1>3, ChildFresh DEF SkipChild
  <2>3. UNCHANGED <<pc, live, edges, components>> /\ stack # <<>>
    BY <1>3 DEF SkipChild
  <2>4. /\ Len(stack') = Len(stack) + 1 /\ Len(stack) \in Nat \ {0}
        /\ \A i \in 1..Len(stack) : stack'[i] = stack[i]
        /\ stack'[Len(stack) + 1] = c
        /\ stack' # <<>>
    BY <1>0, <2>1, <2>2, <2>3, TopFacts, Push DEF TypeOK
  <2>5. \A k \in components : Top \in k <=> c \in k
    BY <1>0, <2>2, GraphsAssumption, ComponentsIsolated DEF TypeOK, IsolatedIn
  <2>6. \A d \in Config : pc'[d] = "removing" <=> stack' # <<>> /\ stack'[1] = d
    BY <1>0, <2>3, <2>4 DEF StackInv
  <2>7. ASSUME NEW i \in 2..Len(stack')
        PROVE  /\ stack'[i] \in live' /\ pc'[stack'[i]] = "idle"
               /\ outcome'[stack'[i]] = "skipped" /\ <<stack'[i-1], stack'[i]>> \in edges'
    <3>1. CASE i = Len(stack) + 1
      <4>1. stack'[i] = c /\ stack'[i-1] = Top
        BY <2>4, <3>1 DEF Top
      <4>. QED
        BY <1>0, <2>1, <2>2, <2>3, <4>1 DEF TypeOK
    <3>2. CASE i # Len(stack) + 1
      <4>1. i \in 2..Len(stack) /\ i - 1 \in 1..Len(stack) /\ i \in 1..Len(stack)
        BY <2>4, <3>2
      <4>2. stack'[i] = stack[i] /\ stack'[i-1] = stack[i-1] /\ stack[i] \in Config
        BY <1>a, <2>4, <4>1
      <4>. QED
        BY <1>0, <2>1, <2>2, <2>3, <4>1, <4>2 DEF TypeOK, StackInv
    <3>. QED
      BY <3>1, <3>2
  <2>8. ASSUME NEW k \in components, NEW i \in 1..Len(stack')
        PROVE  stack'[i] \in k <=> stack'[1] \in k
    <3>1. CASE i = Len(stack) + 1
      <4>1. stack'[i] = c /\ stack'[1] = stack[1] /\ Len(stack) \in 1..Len(stack)
        BY <2>4, <3>1
      <4>2. Top \in k <=> stack[1] \in k
        BY <1>0, <4>1 DEF StackInv, Top
      <4>. QED
        BY <2>5, <4>1, <4>2
    <3>2. CASE i # Len(stack) + 1
      BY <1>0, <2>4, <3>2 DEF StackInv
    <3>. QED
      BY <3>1, <3>2
  <2>9. ASSUME NEW i \in 1..Len(stack'), NEW j \in 1..Len(stack'), stack'[i] = stack'[j]
        PROVE  i = j
    <3>1. \A m \in 1..Len(stack) : stack[m] # c
      <4>1. \A m \in 2..Len(stack) : outcome[stack[m]] = "skipped"
        BY <1>0 DEF StackInv
      <4>2. stack[1] # c
        BY <2>2, <2>3, TopFacts
      <4>3. \A m \in 1..Len(stack) : m = 1 \/ m \in 2..Len(stack)
        BY <2>4
      <4>. QED
        BY <2>2, <4>1, <4>2, <4>3
    <3>2. (i = Len(stack) + 1 \/ i \in 1..Len(stack)) /\ (j = Len(stack) + 1 \/ j \in 1..Len(stack))
      BY <2>4
    <3>. QED
      BY <1>0, <2>4, <2>9, <3>1, <3>2 DEF StackInv
  <2>. QED
    BY <2>3, <2>6, <2>7, <2>8, <2>9 DEF StackInv
<1>4. CASE RemoveChild
  <2>. DEFINE n == Len(stack)
  <2>1. /\ Len(stack') = n - 1 /\ n \in Nat /\ n > 1 /\ stack' # <<>>
        /\ \A i \in 1..Len(stack') : stack'[i] = stack[i]
    <3>1. stack' = SubSeq(stack, 1, n - 1) /\ n > 1 /\ stack \in Seq(Config)
      BY <1>0, <1>4 DEF RemoveChild, TypeOK
    <3>2. Len(stack') = n - 1 /\ \A i \in 1..Len(stack') : stack'[i] = stack[i]
      BY <3>1, Pop
    <3>3. n \in Nat
      BY <3>1
    <3>4. stack' \in Seq(Config) /\ Len(stack') # 0
      BY <3>1, <3>2, <3>3, Pop
    <3>5. stack' # <<>>
      BY <3>4
    <3>. QED
      BY <3>1, <3>2, <3>3, <3>5
  <2>2. UNCHANGED <<pc, outcome, edges, components>> /\ live' = live \ {Top}
    BY <1>4 DEF RemoveChild
  <2>3. \A i \in 1..Len(stack') : i \in 1..n /\ stack[i] # Top
    <3>1. \A i \in 1..Len(stack') : i \in 1..n /\ n \in 1..n /\ i # n
      BY <2>1
    <3>. QED
      BY <1>0, <3>1 DEF StackInv, Top
  <2>4. /\ \A i \in 2..Len(stack') : i \in 2..n /\ i \in 1..Len(stack') /\ i - 1 \in 1..Len(stack')
        /\ 1 \in 1..Len(stack') /\ stack # <<>>
    BY <1>0, <2>1 DEF TypeOK
  <2>5. \A i \in 2..Len(stack') :
           /\ stack'[i] \in live' /\ pc'[stack'[i]] = "idle"
           /\ outcome'[stack'[i]] = "skipped" /\ <<stack'[i-1], stack'[i]>> \in edges'
    BY <1>0, <2>1, <2>2, <2>3, <2>4 DEF StackInv
  <2>6. \A d \in Config : pc'[d] = "removing" <=> stack' # <<>> /\ stack'[1] = d
    BY <1>0, <2>1, <2>2, <2>4 DEF StackInv
  <2>7. \A i, j \in 1..Len(stack') : stack'[i] = stack'[j] => i = j
    BY <1>0, <2>1, <2>3 DEF StackInv
  <2>8. \A k \in components' : \A i \in 1..Len(stack') : stack'[i] \in k <=> stack'[1] \in k
    BY <1>0, <2>1, <2>2, <2>3, <2>4 DEF StackInv
  <2>. QED
    BY <2>5, <2>6, <2>7, <2>8 DEF StackInv
<1>5. CASE UNCHANGED vars
  BY <1>0, <1>5 DEF vars, StackInv
<1>. QED
  BY <1>1, <1>2, <1>3, <1>4, <1>5 DEF Next, RemovalStep, Done

\* The failures received can be counted, those of any number of components too.
LEMMA FailuresFinite ==
  ASSUME TypeOK, NEW K \in SUBSET components
  PROVE  /\ UNION {Failures(k) : k \in K} \subseteq Config
         /\ IsFiniteSet(UNION {Failures(k) : k \in K})
         /\ Cardinality(UNION {Failures(k) : k \in K}) \in Nat
<1>1. \A k \in components : k \subseteq Config
  BY GraphsAssumption, ComponentsIsolated DEF TypeOK
<1>2. UNION {Failures(k) : k \in K} \subseteq Config
  BY <1>1 DEF Failures
<1>. QED
  BY <1>2, ConfigAssumption, FS_Subset, FS_CardinalityType

\* Where no failure is received, no count changes.
LEMMA CountSame ==
  ASSUME TypeOK, CountInv, UNCHANGED <<components, tally>>,
         \A k \in components : Failures(k)' = Failures(k),
         \A k \in gathered : k \cap live' = {} /\ \A c \in k : pc'[c] \in {"idle", "removed"}
  PROVE  CountInv'
<1>1. \A k \in components : errCount'[k] = Cardinality(Failures(k)')
  BY DEF CountInv, tally
<1>2. {Failures(k)' : k \in gathered} = {Failures(k) : k \in gathered}
  BY DEF TypeOK
<1>3. total' = Cardinality(UNION {Failures(k)' : k \in gathered})
  BY <1>2 DEF CountInv, tally
<1>. QED
  BY <1>1, <1>3 DEF CountInv, tally

\* A goroutine whose result is still to come changes no count.
LEMMA CountFrame ==
  ASSUME TypeOK, CountInv, NEW c \in Config, pc[c] \in AtWork \ {"collected"},
         NEW place \in AtWork \ {"collected"}, pc' = [pc EXCEPT ![c] = place],
         \A d \in Config \ {c} : outcome'[d] = outcome[d],
         UNCHANGED <<components, edges, live, tally>>
  PROVE  CountInv'
<1>. USE DEF tally
<1>0. \A k \in components : k \subseteq Config
  BY GraphsAssumption, ComponentsIsolated DEF TypeOK
<1>1. \A d \in Config \ {c} : pc'[d] = pc[d] /\ outcome'[d] = outcome[d]
  BY DEF TypeOK
<1>2. pc[c] \notin {"idle", "collected", "removed"} /\ pc'[c] \notin {"idle", "collected", "removed"}
  BY DEF TypeOK, AtWork
<1>3. \A k \in gathered : c \notin k
  BY <1>2 DEF CountInv
<1>4. \A k \in components : Failures(k)' = Failures(k)
  BY <1>0, <1>1, <1>2 DEF Failures
<1>5. \A k \in gathered : k \cap live' = {} /\ \A d \in k : pc'[d] \in {"idle", "removed"}
  BY <1>0, <1>1, <1>3 DEF CountInv, TypeOK
<1>. QED
  BY <1>4, <1>5, CountSame

\* Every step keeps the error counts those of the failures received.
LEMMA CountStep == IInv /\ [Next]_vars => CountInv'
<1>. SUFFICES ASSUME IInv, [Next]_vars PROVE CountInv'
  OBVIOUS
<1>. USE DEF choices, tally
<1>0. TypeOK /\ OutcomeInv /\ GraphInv /\ CountInv
  BY DEF IInv
<1>a. \A k \in components : k \subseteq Config
  BY <1>0, GraphsAssumption, ComponentsIsolated DEF TypeOK
<1>1. ASSUME NEW k \in components, ComponentStep(k)
      PROVE  CountInv'
  <2>1. CASE StartWave(k)
    <3>1. \A c \in Config : c \in Roots(edges, k \cap live) => c \in live /\ pc[c] = "idle"
      BY <2>1, WaveFresh DEF Roots
    <3>2. \A c \in Config : pc'[c] # pc[c] => c \in live /\ pc[c] = "idle" /\ pc'[c] = "queued"
      BY <2>1, <3>1 DEF StartWave
    <3>3. UNCHANGED <<live, outcome, components, errCount, gathered, total>>
      BY <2>1 DEF StartWave
    <3>4. \A j \in components : Failures(j)' = Failures(j)
      <4>1. \A j \in components : \A c \in j :
               pc'[c] \in {"collected", "removed"} <=> pc[c] \in {"collected", "removed"}
        BY <1>a, <3>2
      <4>. QED
        BY <3>3, <4>1 DEF Failures
    <3>5. \A j \in gathered : \A c \in j : pc'[c] = pc[c]
      BY <1>0, <1>a, <3>2 DEF CountInv, TypeOK
    <3>. QED
      BY <1>0, <3>3, <3>4, <3>5, CountSame DEF CountInv
  <2>2. ASSUME NEW c \in k, Collect(k, c)
        PROVE  CountInv'
    <3>1. /\ pc[c] = "send" /\ pc' = [pc EXCEPT ![c] = "collected"] /\ c \in Config
          /\ errCount' = [errCount EXCEPT ![k] = IF outcome[c] = "failed" THEN @ + 1 ELSE @]
          /\ UNCHANGED <<live, outcome, components, gathered, total>>
      BY <1>a, <2>2 DEF Collect
    <3>2. \A j \in gathered : c \notin j
      BY <1>0, <3>1 DEF CountInv
    <3>3. \A j \in components \ {k} : c \notin j
      BY <1>0, <2>2, GraphsAssumption, ComponentsDisjoint DEF TypeOK
    <3>4. \A d \in Config \ {c} : pc'[d] = pc[d]
      BY <1>0, <3>1 DEF TypeOK
    <3>5. \A j \in gathered : j \in components /\ errCount'[j] = errCount[j]
      BY <1>0, <2>2, <3>1, <3>2 DEF TypeOK
    <3>6. \A j \in gathered : j \cap live' = {} /\ \A d \in j : pc'[d] \in {"idle", "removed"}
      BY <1>0, <1>a, <3>1, <3>2, <3>4, <3>5 DEF CountInv
    <3>7. ASSUME NEW j \in components, j # k
          PROVE  Failures(j)' = Failures(j) /\ errCount'[j] = errCount[j]
      BY <1>0, <1>a, <3>1, <3>3, <3>4, <3>7 DEF Failures, TypeOK
    <3>8. errCount'[k] = Cardinality(Failures(k)')
      <4>1. /\ IsFiniteSet(Failures(k)) /\ Cardinality(Failures(k)) \in Nat
            /\ errCount[k] = Cardinality(Failures(k)) /\ c \notin Failures(k)
        <5>1. UNION {Failures(j) : j \in {k}} = Failures(k)
          OBVIOUS
        <5>2. IsFiniteSet(Failures(k)) /\ Cardinality(Failures(k)) \in Nat
          BY <1>0, <5>1, FailuresFinite
        <5>3. c \notin Failures(k)
          BY <3>1 DEF Failures
        <5>. QED
          BY <1>0, <5>2, <5>3 DEF CountInv
      <4>2. CASE outcome[c] = "failed"
        <5>1. Failures(k)' = Failures(k) \cup {c}
          BY <1>0, <1>a, <2>2, <3>1, <3>4, <4>2 DEF Failures, TypeOK
        <5>2. errCount'[k] = errCount[k] + 1
          BY <1>0, <3>1, <4>2 DEF TypeOK
        <5>. QED
          BY <4>1, <5>1, <5>2, FS_AddElement
      <4>3. CASE outcome[c] # "failed"
        <5>1. Failures(k)' = Failures(k)
          BY <1>a, <3>1, <3>4, <4>3 DEF Failures
        <5>2. errCount'[k] = errCount[k]
          BY <1>0, <3>1, <4>3 DEF TypeOK
        <5>. QED
          BY <4>1, <5>1, <5>2
      <4>. QED
        BY <4>2, <4>3
    <3>9. \A j \in components : errCount'[j] = Cardinality(Failures(j)')
      BY <1>0, <3>7, <3>8 DEF CountInv
    <3>10. {Failures(j)' : j \in gathered} = {Failures(j) : j \in gathered}
      BY <1>0, <2>2, <3>2, <3>7 DEF TypeOK
    <3>11. total' = Cardinality(UNION {Failures(j)' : j \in gathered})
      BY <1>0, <3>1, <3>10 DEF CountInv
    <3>. QED
      BY <3>1, <3>6, <3>9, <3>11 DEF CountInv
  <2>3. CASE EndWave(k)
    <3>1. UNCHANGED <<outcome, components, errCount, gathered, total>> /\ live' \subseteq live
      BY <2>3 DEF EndWave
    <3>2. \A c \in Config : pc'[c] # pc[c] => pc[c] = "collected" /\ pc'[c] = "removed"
      BY <1>a, <2>3 DEF EndWave
    <3>3. \A j \in components : Failures(j)' = Failures(j)
      <4>1. \A j \in components : \A c \in j :
               pc'[c] \in {"collected", "removed"} <=> pc[c] \in {"collected", "removed"}
        BY <1>a, <3>2
      <4>. QED
        BY <3>1, <4>1 DEF Failures
    <3>4. \A j \in gathered : \A c \in j : pc'[c] = pc[c]
      BY <1>0, <1>a, <3>2 DEF CountInv, TypeOK
    <3>. QED
      BY <1>0, <3>1, <3>3, <3>4, CountSame DEF CountInv
  <2>4. CASE Gather(k)
    <3>1. /\ k \notin gathered /\ gathered' = gathered \cup {k} /\ total' = total + errCount[k]
          /\ UNCHANGED <<components, live, pc, outcome, errCount>>
          /\ k \cap live = {} /\ \A c \in k : pc[c] \in {"idle", "removed"}
      BY <2>4 DEF Gather
    <3>2. \A j \in components : Failures(j)' = Failures(j)
      BY <3>1 DEF Failures
    <3>. DEFINE before == UNION {Failures(j) : j \in gathered}
    <3>3. /\ IsFiniteSet(before) /\ Cardinality(before) \in Nat
      BY <1>0, FailuresFinite DEF TypeOK
    <3>4. IsFiniteSet(Failures(k)) /\ Cardinality(Failures(k)) \in Nat
      <4>1. UNION {Failures(j) : j \in {k}} = Failures(k)
        OBVIOUS
      <4>. QED
        BY <1>0, <4>1, FailuresFinite
    <3>5. before \cap Failures(k) = {}
      <4>1. \A j \in gathered : j \cap k = {}
        BY <1>0, <3>1, GraphsAssumption, ComponentsDisjoint DEF TypeOK
      <4>. QED
        BY <4>1 DEF Failures
    <3>6. UNION {Failures(j)' : j \in gathered'} = before \cup Failures(k)
      BY <1>0, <3>1, <3>2 DEF TypeOK
    <3>7. Cardinality(before \cup Failures(k)) = Cardinality(before) + Cardinality(Failures(k))
      BY <3>3, <3>4, <3>5, FS_Union, FS_EmptySet
    <3>8. total' = Cardinality(UNION {Failures(j)' : j \in gathered'})
      BY <1>0, <3>1, <3>6, <3>7 DEF CountInv
    <3>. QED
      BY <1>0, <3>1, <3>2, <3>8 DEF CountInv
  <2>. QED
    BY <1>1, <2>1, <2>2, <2>3, <2>4 DEF ComponentStep
<1>2. ASSUME NEW c \in Config, NodeStep(c)
      PROVE  CountInv'
  <2>1. CASE Launch(c) \/ Acquire(c) \/ Resolve(c) \/ Lock(c) \/ Unlock(c) \/ Put(c) \/ Report(c)
    BY <1>0, <2>1, CountFrame DEF Launch, Acquire, Resolve, Lock, Unlock, Put, Report, AtWork, PC
  <2>2. CASE Exclude(c) \/ ResolveError(c) \/ DeployOk(c) \/ DeployError(c)
    BY <1>0, <2>2, Returning, CountFrame DEF AtWork, PC
  <2>. QED
    BY <1>2, <2>1, <2>2 DEF NodeStep
<1>3. CASE SkipChild
  <2>1. PICK c \in Remaining : outcome' = [outcome EXCEPT ![c] = "skipped"]
    BY <1>3 DEF SkipChild
  <2>2. c \in Config /\ outcome[c] = "none"
    BY <1>3, ChildFresh DEF SkipChild
  <2>3. \A k \in components : Failures(k)' = Failures(k)
    BY <1>0, <1>a, <1>3, <2>1, <2>2 DEF SkipChild, Failures, TypeOK
  <2>. QED
    BY <1>0, <1>3, <2>3, CountSame DEF SkipChild, CountInv
<1>4. CASE RemoveChild
  <2>1. \A k \in components : Failures(k)' = Failures(k)
    BY <1>4 DEF RemoveChild, Failures
  <2>. QED
    BY <1>0, <1>4, <2>1, CountSame DEF RemoveChild, CountInv
<1>5. CASE UNCHANGED vars
  <2>1. \A k \in components : Failures(k)' = Failures(k)
    BY <1>5 DEF vars, Failures
  <2>. QED
    BY <1>0, <1>5, <2>1, CountSame DEF vars, CountInv
<1>. QED
  BY <1>1, <1>2, <1>3, <1>4, <1>5 DEF Next, RemovalStep, Done

\* A goroutine at work that changes neither the graph nor the skipped nodes.
LEMMA GraphFrame ==
  ASSUME TypeOK, GraphInv, NEW c \in Config, pc[c] \in AtWork,
         NEW place \in AtWork, pc' = [pc EXCEPT ![c] = place],
         \A d \in Config \ {c} : outcome'[d] = outcome[d],
         UNCHANGED <<edges, live>>,
         \A i \in 2..Len(stack) : i \in 2..Len(stack') /\ stack'[i] = stack[i],
         place \in {"report", "send", "collected"} /\ outcome'[c] # "deployed" =>
            Children(edges, c) \cap live = {}
  PROVE  GraphInv'
<1>1. pc'[c] \in AtWork /\ \A d \in Config \ {c} : pc'[d] = pc[d]
  BY DEF TypeOK
<1>2. pc[c] \notin {"idle", "removed"} /\ pc'[c] \notin {"idle", "removed"}
  BY <1>1 DEF AtWork
<1>3. c \in live /\ Parents(edges, c) \cap live = {}
  BY DEF GraphInv
<1>4. ASSUME NEW d \in Config
      PROVE  /\ pc'[d] \in AtWork => d \in live' /\ Parents(edges, d)' \cap live' = {}
             /\ pc'[d] = "idle" /\ outcome'[d] = "none" => d \in live'
             /\ pc'[d] = "removed" => d \notin live'
             /\ pc'[d] = "idle" /\ outcome'[d] = "skipped" /\ d \in live' =>
                   \E i \in 2..Len(stack') : stack'[i] = d
             /\ pc'[d] \in {"report", "send", "collected"} /\ outcome'[d] # "deployed" =>
                   Children(edges, d)' \cap live' = {}
  <2>1. CASE d = c
    BY <1>1, <1>2, <1>3, <2>1 DEF Parents, Children, TypeOK
  <2>2. CASE d # c
    BY <1>1, <2>2 DEF Parents, Children, GraphInv
  <2>. QED
    BY <2>1, <2>2
<1>5. ASSUME NEW d \in Config, d \in live', NEW p \in Parents(edges, d)' \ live'
      PROVE  outcome'[p] = "deployed" /\ pc'[p] = "removed"
  <2>1. d \in live /\ p \in Parents(edges, d) \ live /\ p \in Config /\ p # c
    BY <1>3, <1>5 DEF Parents
  <2>. QED
    BY <1>1, <2>1 DEF GraphInv
<1>. QED
  BY <1>4, <1>5 DEF GraphInv

\* Every step keeps what is known of the nodes that left the graph and of those still in it.
LEMMA GraphStep == IInv /\ [Next]_vars => GraphInv'
<1>. SUFFICES ASSUME IInv, [Next]_vars PROVE GraphInv'
  OBVIOUS
<1>. USE DEF choices, tally
<1>0. TypeOK /\ OutcomeInv /\ GraphInv /\ StackInv
  BY DEF IInv
<1>a. \A k \in components : k \subseteq Config
  BY <1>0, GraphsAssumption, ComponentsIsolated DEF TypeOK
<1>1. ASSUME NEW k \in components, StartWave(k)
      PROVE  GraphInv'
  <2>1. \A c \in Roots(edges, k \cap live) :
           pc[c] = "idle" /\ outcome[c] = "none" /\ c \in live /\ Parents(edges, c) \cap live = {}
    BY <1>1, WaveFresh DEF Roots
  <2>2. \A c \in Config : pc'[c] # pc[c] =>
           /\ pc[c] = "idle" /\ pc'[c] = "queued" /\ outcome[c] = "none"
           /\ c \in live /\ Parents(edges, c) \cap live = {}
    BY <1>1, <2>1 DEF StartWave
  <2>3. UNCHANGED <<edges, live, outcome, stack>>
    BY <1>1 DEF StartWave
  <2>. QED
    BY <1>0, <2>2, <2>3 DEF GraphInv, Parents, Children
<1>2. ASSUME NEW k \in components, EndWave(k)
      PROVE  GraphInv'
  <2>. DEFINE wave == {c \in k : pc[c] = "collected"}
  <2>1. /\ live' = live \ wave
        /\ \A c \in Config : pc'[c] = IF c \in wave THEN "removed" ELSE pc[c]
        /\ UNCHANGED <<edges, outcome, stack>>
    BY <1>2 DEF EndWave
  <2>2. \A c \in wave : c \in Config /\ pc[c] = "collected"
    BY <1>a
  <2>3. ASSUME NEW c \in Config, c \in live', NEW p \in Parents(edges, c) \ live'
        PROVE  outcome[p] = "deployed" /\ pc'[p] = "removed"
    <3>1. p \in Config /\ c \in Children(edges, p) \cap live
      BY <2>1, <2>3 DEF Parents, Children
    <3>2. CASE p \in live
      BY <1>0, <2>1, <2>2, <2>3, <3>1, <3>2 DEF GraphInv
    <3>3. CASE p \notin live
      BY <1>0, <2>1, <2>2, <2>3, <3>1, <3>3 DEF GraphInv
    <3>. QED
      BY <3>2, <3>3
  <2>4. ASSUME NEW c \in Config
        PROVE  /\ pc'[c] \in AtWork => c \in live' /\ Parents(edges, c) \cap live' = {}
               /\ pc'[c] = "idle" /\ outcome[c] = "none" => c \in live'
               /\ pc'[c] = "removed" => c \notin live'
               /\ pc'[c] = "idle" /\ outcome[c] = "skipped" /\ c \in live' =>
                     \E i \in 2..Len(stack) : stack[i] = c
               /\ pc'[c] \in {"report", "send", "collected"} /\ outcome[c] # "deployed" =>
                     Children(edges, c) \cap live' = {}
    <3>1. CASE c \in wave
      BY <2>1, <3>1 DEF AtWork
    <3>2. CASE c \notin wave
      BY <1>0, <2>1, <2>2, <3>2 DEF GraphInv
    <3>. QED
      BY <3>1, <3>2
  <2>. QED
    BY <2>1, <2>3, <2>4 DEF GraphInv, Parents, Children
<1>3. ASSUME NEW k \in components, NEW c \in k, Collect(k, c)
      PROVE  GraphInv'
  BY <1>0, <1>a, <1>3, GraphFrame DEF Collect, GraphInv, AtWork, PC
<1>4. ASSUME NEW k \in components, Gather(k)
      PROVE  GraphInv'
  BY <1>0, <1>4 DEF Gather, GraphInv, Parents, Children
<1>5. ASSUME NEW c \in Config, NodeStep(c)
      PROVE  GraphInv'
  <2>1. CASE Launch(c) \/ Acquire(c) \/ Resolve(c)
    BY <1>0, <2>1, GraphFrame DEF Launch, Acquire, Resolve, AtWork, PC
  <2>2. CASE Exclude(c) \/ ResolveError(c) \/ DeployOk(c) \/ DeployError(c)
    BY <1>0, <2>2, Returning, GraphFrame DEF AtWork, PC
  <2>3. CASE Lock(c)
    <3>1. Len(stack) = 0
      BY <2>3 DEF Lock
    <3>2. \A i \in 2..Len(stack) : FALSE
      BY <3>1
    <3>. QED
      BY <1>0, <2>3, <3>2, GraphFrame DEF Lock, AtWork, PC
  <2>4. CASE Unlock(c)
    <3>1. Len(stack) = 1 /\ Top = c
      BY <2>4 DEF Unlock, Top
    <3>2. Children(edges, c) \cap live = {}
      BY <2>4, <3>1 DEF Unlock, Remaining
    <3>3. \A i \in 2..Len(stack) : FALSE
      BY <3>1
    <3>. QED
      BY <1>0, <2>4, <3>2, <3>3, GraphFrame DEF Unlock, AtWork, PC
  <2>5. CASE Put(c)
    BY <1>0, <2>5, GraphFrame DEF Put, AtWork, PC, OutcomeInv
  <2>6. CASE Report(c)
    BY <1>0, <2>6, GraphFrame DEF Report, AtWork, PC, GraphInv
  <2>. QED
    BY <1>5, <2>1, <2>2, <2>3, <2>4, <2>5, <2>6 DEF NodeStep
<1>6. CASE SkipChild
  <2>1. PICK c \in Remaining : /\ outcome' = [outcome EXCEPT ![c] = "skipped"]
                               /\ stack' = Append(stack, c)
    BY <1>6 DEF SkipChild
  <2>2. c \in Config /\ pc[c] = "idle" /\ outcome[c] = "none"
    BY <1>6, ChildFresh DEF SkipChild
  <2>3. UNCHANGED <<edges, live, pc>>
    BY <1>6 DEF SkipChild
  <2>4. /\ Len(stack') \in 2..Len(stack') /\ stack'[Len(stack')] = c
        /\ \A i \in 2..Len(stack) : i \in 2..Len(stack') /\ stack'[i] = stack[i]
    <3>1. /\ Len(stack') = Len(stack) + 1 /\ Len(stack) \in Nat \ {0}
          /\ \A i \in 1..Len(stack) : stack'[i] = stack[i]
          /\ stack'[Len(stack) + 1] = c
      BY <1>0, <1>6, <2>1, <2>2, TopFacts, Push DEF TypeOK, SkipChild
    <3>. QED
      BY <3>1
  <2>5. \A d \in Config \ {c} : outcome'[d] = outcome[d]
    BY <1>0, <2>1 DEF TypeOK
  <2>. QED
    BY <1>0, <2>2, <2>3, <2>4, <2>5 DEF GraphInv, Parents, Children
<1>7. CASE RemoveChild
  <2>1. /\ live' = live \ {Top} /\ stack' = SubSeq(stack, 1, Len(stack) - 1) /\ Len(stack) > 1
        /\ UNCHANGED <<edges, pc, outcome>>
    BY <1>7 DEF RemoveChild
  <2>2. stack # <<>> /\ Len(stack) \in Nat
    BY <1>0, <2>1 DEF TypeOK
  <2>3. /\ Len(stack') = Len(stack) - 1
        /\ \A i \in 1..Len(stack') : stack'[i] = stack[i]
    BY <1>0, <2>1, Pop DEF TypeOK
  <2>4. pc[Top] = "idle" /\ outcome[Top] = "skipped" /\ Top \in Config
    <3>1. Len(stack) \in 2..Len(stack)
      BY <2>1, <2>2
    <3>. QED
      BY <1>0, <2>2, <3>1, TopFacts DEF StackInv, Top
  <2>5. \A c \in Config : c \in live' => Top \notin Parents(edges, c)
    BY <1>7, <2>1 DEF RemoveChild, Remaining, Children, Parents
  <2>6. ASSUME NEW c \in Config, pc[c] = "idle", outcome[c] = "skipped", c \in live'
        PROVE  \E i \in 2..Len(stack') : stack'[i] = c
    <3>1. PICK i \in 2..Len(stack) : stack[i] = c
      BY <1>0, <2>1, <2>6 DEF GraphInv
    <3>2. i # Len(stack)
      BY <2>1, <2>6, <3>1 DEF Top
    <3>3. i \in 2..Len(stack') /\ i \in 1..Len(stack')
      BY <2>2, <2>3, <3>1, <3>2
    <3>. QED
      BY <2>3, <3>1, <3>3
  <2>. QED
    BY <1>0, <2>1, <2>4, <2>5, <2>6 DEF GraphInv, Parents, Children, AtWork
<1>8. CASE UNCHANGED vars
  BY <1>0, <1>8 DEF vars, GraphInv, Parents, Children
<1>. QED
  BY <1>1, <1>2, <1>3, <1>4, <1>5, <1>6, <1>7, <1>8 DEF Next, ComponentStep, RemovalStep, Done

-----------------------------------------------------------------------------
(* The theorems.                                                           *)

\* The inductive invariant holds at first: nothing was launched, removed or counted.
LEMMA InitInv == Init => IInv
<1>. SUFFICES ASSUME Init PROVE IInv
  OBVIOUS
<1>1. TypeOK /\ LimiterRespected
  BY InitType
<1>2. OutcomeInv /\ SkippedBelowFailure
  BY DEF Init, OutcomeInv, InConfig, SkippedBelowFailure
<1>3. \A c \in Config : Parents(edges, c) \ live = {} /\ pc[c] = "idle" /\ outcome[c] = "none" /\ c \in live
  BY DEF Init, Parents
<1>4. GraphInv
  BY <1>3 DEF GraphInv, AtWork
<1>5. StackInv
  <2>1. stack = <<>> /\ Len(stack) = 0
    BY DEF Init
  <2>2. \A i \in 1..Len(stack) : FALSE
    BY <2>1
  <2>3. \A i \in 2..Len(stack) : FALSE
    BY <2>1
  <2>. QED
    BY <1>3, <2>1, <2>2, <2>3 DEF StackInv
<1>6. CountInv
  <2>1. \A k \in components : k \subseteq Config
    BY <1>1, GraphsAssumption, ComponentsIsolated DEF TypeOK
  <2>2. \A k \in components : Failures(k) = {}
    BY <1>3, <2>1 DEF Failures
  <2>3. UNION {Failures(k) : k \in gathered} = {}
    BY DEF Init
  <2>. QED
    BY <2>2, <2>3, FS_EmptySet DEF Init, CountInv
<1>. QED
  BY <1>1, <1>2, <1>4, <1>5, <1>6 DEF IInv

\* The inductive invariant holds throughout.
THEOREM Invariance == Spec => []IInv
<1>1. IInv /\ [Next]_vars => IInv'
  BY NextType, OutcomeStep, GraphStep, StackStep, CountStep, SkippedStep DEF IInv
<1>. QED
  BY InitInv, <1>1, PTL DEF Spec

\* Whatever the graph, the failures and the schedule, no configuration is
\* resolved before all it references in the graph is in resolvedEntities.
THEOREM ReferencesAlwaysResolvable == Spec => []ReferencesResolvable
<1>1. IInv => ReferencesResolvable
  <2>. SUFFICES ASSUME IInv, NEW c \in Config, pc[c] = "resolve", NEW p \in Parents(edges, c)
                PROVE  p \in entities
    BY DEF ReferencesResolvable
  <2>1. c \in live /\ p \notin live /\ p \in Config
    BY DEF IInv, GraphInv, AtWork, PC, Parents
  <2>2. outcome[p] = "deployed" /\ pc[p] = "removed"
    BY <2>1 DEF IInv, GraphInv
  <2>. QED
    BY <2>1, <2>2 DEF IInv, OutcomeInv
<1>. QED
  BY Invariance, <1>1, PTL

\* No configuration is ever reported twice.
THEOREM NeverReportedTwice == Spec => []ReportedAtMostOnce
<1>1. IInv => ReportedAtMostOnce
  <2>. SUFFICES ASSUME IInv, NEW c \in Config PROVE reports[c] <= 1
    BY DEF ReportedAtMostOnce
  <2>1. reports[c] = 0 \/ reports[c] = 1
    BY DEF IInv, OutcomeInv
  <2>. QED
    BY <2>1
<1>. QED
  BY Invariance, <1>1, PTL

\* A configuration is skipped only below one that was not deployed.
THEOREM SkippedForAReason == Spec => []SkippedBelowFailure
<1>1. IInv => SkippedBelowFailure
  BY DEF IInv
<1>. QED
  BY Invariance, <1>1, PTL

\* When the deployment returns, every configuration was reported exactly once,
\* and the number of errors is exactly that of the configurations that failed.
THEOREM EveryConfigAccountedFor == Spec => []FinalAccount
<1>1. IInv => FinalAccount
  <2>. SUFFICES ASSUME IInv, Finished
                PROVE  /\ \A c \in Config : reports[c] = 1 /\ outcome[c] # "none"
                       /\ total = Cardinality({c \in Config : outcome[c] = "failed"})
    BY DEF FinalAccount
  <2>1. ASSUME NEW c \in Config
        PROVE  /\ \E k \in components : c \in k
               /\ c \notin live /\ pc[c] \in {"idle", "removed"}
    <3>1. PICK k \in components : c \in k
      BY ComponentsCover DEF IInv, TypeOK
    <3>. QED
      BY <3>1 DEF IInv, CountInv, Finished
  <2>2. \A c \in Config : reports[c] = 1 /\ outcome[c] # "none"
    BY <2>1 DEF IInv, GraphInv, OutcomeInv
  <2>3. \A k \in components : k \subseteq Config
    BY GraphsAssumption, ComponentsIsolated DEF IInv, TypeOK
  <2>4. ASSUME NEW c \in Config, outcome[c] = "failed"
        PROVE  pc[c] = "removed"
    BY <2>1, <2>4 DEF IInv, OutcomeInv
  <2>5. total = Cardinality(UNION {Failures(k) : k \in components})
    BY DEF IInv, CountInv, Finished
  <2>6. UNION {Failures(k) : k \in components} = {c \in Config : outcome[c] = "failed"}
    BY <2>1, <2>3, <2>4 DEF Failures
  <2>. QED
    BY <2>2, <2>5, <2>6
<1>. QED
  BY Invariance, <1>1, PTL

\* Whoever removes a node, the holder of the lock or the end of a wave, nobody is
\* at it or has it still before them, and what was not deployed goes last.
THEOREM RemovalsAlwaysAgree == Spec => RemovalsAgree
<1>1. IInv /\ [Next]_vars =>
        [\A c \in live \ live' :
           /\ \A i \in 1..Len(stack') : stack'[i] # c
           /\ stack' = stack => \A i \in 1..Len(stack) : <<stack[i], c>> \notin edges
           /\ outcome[c] # "deployed" => Children(edges, c) \cap live = {}]_vars
  <2>. SUFFICES ASSUME IInv, [Next]_vars, NEW c \in live, c \notin live'
                PROVE  /\ \A i \in 1..Len(stack') : stack'[i] # c
                       /\ stack' = stack => \A i \in 1..Len(stack) : <<stack[i], c>> \notin edges
                       /\ outcome[c] # "deployed" => Children(edges, c) \cap live = {}
    OBVIOUS
  <2>0. TypeOK /\ OutcomeInv /\ GraphInv /\ StackInv /\ c \in Config
    BY DEF IInv, TypeOK
  <2>1. CASE RemoveChild
    <3>1. c = Top /\ Remaining = {} /\ Len(stack) > 1
      BY <2>1 DEF RemoveChild
    <3>2. /\ Len(stack) \in Nat /\ Len(stack') = Len(stack) - 1
          /\ \A i \in 1..Len(stack') : stack'[i] = stack[i]
      BY <2>0, <2>1, Pop DEF RemoveChild, TypeOK
    <3>3. \A i \in 1..Len(stack') : stack'[i] # c
      <4>. SUFFICES ASSUME NEW i \in 1..Len(stack'), stack[i] = stack[Len(stack)] PROVE FALSE
        BY <3>1, <3>2 DEF Top
      <4>1. i \in 1..Len(stack) /\ Len(stack) \in 1..Len(stack) /\ i # Len(stack)
        BY <3>1, <3>2
      <4>. QED
        BY <4>1, <2>0 DEF StackInv
    <3>. QED
      BY <3>1, <3>2, <3>3 DEF Remaining
  <2>2. ASSUME NEW k \in components, EndWave(k)
        PROVE  /\ \A i \in 1..Len(stack') : stack'[i] # c
               /\ \A i \in 1..Len(stack) : <<stack[i], c>> \notin edges
               /\ outcome[c] # "deployed" => Children(edges, c) \cap live = {}
    <3>1. pc[c] = "collected" /\ stack' = stack
      BY <2>2 DEF EndWave
    <3>2. Parents(edges, c) \cap live = {}
      BY <2>0, <3>1 DEF GraphInv, AtWork, PC
    <3>3. \A i \in 1..Len(stack) : stack[i] \in live /\ pc[stack[i]] # "collected"
      <4>. SUFFICES ASSUME NEW i \in 1..Len(stack)
                    PROVE  stack[i] \in live /\ pc[stack[i]] # "collected"
        OBVIOUS
      <4>1. CASE i = 1
        <5>1. stack # <<>> /\ stack[1] \in Config
          BY <2>0, <4>1 DEF TypeOK
        <5>2. pc[stack[1]] = "removing"
          BY <5>1, <2>0 DEF StackInv
        <5>. QED
          BY <2>0, <4>1, <5>1, <5>2 DEF GraphInv, AtWork, PC
      <4>2. CASE i # 1
        <5>1. i \in 2..Len(stack)
          BY <4>2, <2>0 DEF TypeOK
        <5>. QED
          BY <5>1, <2>0 DEF StackInv
      <4>. QED
        BY <4>1, <4>2
    <3>4. \A i \in 1..Len(stack) : <<stack[i], c>> \notin edges
      BY <2>0, <3>2, <3>3 DEF Parents, TypeOK
    <3>. QED
      BY <2>0, <3>1, <3>3, <3>4 DEF GraphInv
  <2>3. CASE UNCHANGED live
    BY <2>3
  <2>. QED
    BY <2>1, <2>2, <2>3 DEF Next, ComponentStep, StartWave, Collect, Gather, NodeStep,
       Launch, Acquire, Exclude, Resolve, ResolveError, DeployOk, DeployError, Return, Lock,
       Unlock, Put, Report, RemovalStep, SkipChild, Done, vars
<1>. QED
  BY Invariance, <1>1, PTL DEF Spec, RemovalsAgree

\* An attempt of the abstract specification, from the facts about its guard.
LEMMA Attempting ==
  ASSUME NEW c \in Config, Parents(edges, c) \subseteq Promise!Deployed,
         \/ c \in skip    /\ Promise!Decide(c, "excluded")
         \/ c \notin skip /\ Promise!Decide(c, "deployed")
         \/ c \notin skip /\ Promise!Decide(c, "failed")
  PROVE  Promise!Next
<1>1. Promise!Attempt(c)
  BY DEF Promise!Attempt, Promise!Parents, Parents
<1>. QED
  BY <1>1 DEF Promise!Next

\* The deployment implements the safety part of what DeployAbstract promises.
THEOREM ImplementsPromise == Spec => Promise!Safe
<1>1. Init => Promise!Init
  BY DEF Init, Promise!Init
<1>2. IInv /\ [Next]_vars => [Promise!Next]_(Promise!vars)
  <2>. SUFFICES ASSUME IInv, [Next]_vars PROVE [Promise!Next]_(Promise!vars)
    OBVIOUS
  <2>0. TypeOK /\ OutcomeInv /\ GraphInv
    BY DEF IInv
  <2>1. ASSUME NEW c \in Config, Exclude(c) \/ ResolveError(c) \/ DeployOk(c) \/ DeployError(c)
        PROVE  Promise!Next
    <3>1. outcome[c] = "none" /\ c \in live /\ Parents(edges, c) \cap live = {}
      BY <2>0, <2>1 DEF OutcomeInv, GraphInv, InConfig, AtWork, PC,
         Exclude, ResolveError, DeployOk, DeployError
    <3>2. Parents(edges, c) \subseteq Promise!Deployed
      BY <2>0, <3>1 DEF GraphInv, Promise!Deployed, Parents
    <3>3. c \in Promise!Undecided /\ UNCHANGED <<edges, skip>>
      BY <2>1, <3>1 DEF Promise!Undecided, Exclude, ResolveError, DeployOk, DeployError, Return, choices
    <3>4. CASE Exclude(c)
      <4>1. c \in skip /\ Promise!Decide(c, "excluded")
        BY <3>3, <3>4 DEF Exclude, Return, Promise!Decide
      <4>. QED
        BY <3>2, <4>1, Attempting
    <3>5. CASE ResolveError(c) \/ DeployError(c)
      <4>1. c \notin skip /\ Promise!Decide(c, "failed")
        BY <2>0, <3>3, <3>5 DEF ResolveError, DeployError, Return, Promise!Decide, OutcomeInv
      <4>. QED
        BY <3>2, <4>1, Attempting
    <3>6. CASE DeployOk(c)
      <4>1. c \notin skip /\ Promise!Decide(c, "deployed")
        BY <2>0, <3>3, <3>6 DEF DeployOk, Return, Promise!Decide, OutcomeInv
      <4>. QED
        BY <3>2, <4>1, Attempting
    <3>. QED
      BY <2>1, <3>4, <3>5, <3>6
  <2>2. CASE SkipChild
    <3>1. PICK c \in Remaining : outcome' = [outcome EXCEPT ![c] = "skipped"]
      BY <2>2 DEF SkipChild
    <3>2. /\ c \in Config /\ outcome[c] = "none" /\ Top \in Parents(edges, c)
          /\ outcome[Top] \in Settled
      BY <2>2, <3>1, ChildFresh, TopFacts DEF SkipChild, Parents
    <3>3. Top \in Promise!GivenUp
      BY <3>2 DEF Promise!GivenUp, Promise!Undecided, Promise!Deployed, Settled, Parents
    <3>4. Promise!Decide(c, "skipped")
      BY <2>2, <3>1, <3>2 DEF SkipChild, Promise!Decide, Promise!Undecided, choices
    <3>. QED
      <4>1. Promise!GiveUp(c)
        BY <3>2, <3>3, <3>4 DEF Promise!GiveUp, Promise!Parents, Parents
      <4>. QED
        BY <3>2, <4>1 DEF Promise!Next
  <2>3. CASE UNCHANGED <<edges, skip, outcome>>
    BY <2>3 DEF Promise!vars
  <2>. QED
    BY <2>1, <2>2, <2>3 DEF Next, ComponentStep, StartWave, Collect, EndWave, Gather, NodeStep,
       Launch, Acquire, Resolve, Lock, Unlock, Put, Report, RemovalStep, RemoveChild, Done,
       choices, vars
<1>. QED
  BY Invariance, <1>1, <1>2, PTL DEF Spec, Promise!Safe
=============================================================================
