------------------------------- MODULE Deploy -------------------------------
(***************************************************************************)
(* The deployment of one environment (pkg/deploy/deploy.go, deploy down to *)
(* deployConfig).  Every independent component of the dependency graph has *)
(* a goroutine that runs deployGraph: it deploys the graph in waves.  A    *)
(* wave launches one goroutine per root of what is left of the graph,      *)
(* collects one result from each of them and then removes the roots.  A    *)
(* goroutine that could not deploy its configuration first removes all     *)
(* that depends on it from the graph, under the one lock of the package.   *)
(* An optional limiter bounds the deployments in flight in all components. *)
(*                                                                         *)
(* A step is what happens between two points where goroutines can affect   *)
(* each other.  Parameter values, templates and the remote API appear only *)
(* as the choice between success and failure.                              *)
(***************************************************************************)
EXTENDS ConfigGraph, Naturals, Sequences, FiniteSets

CONSTANTS Graphs,         \* the dependency graphs considered
          MaxConcurrent   \* slots of the deployment limiter, 0 for no limiter

ASSUME ConfigAssumption == IsFiniteSet(Config)
ASSUME GraphsAssumption ==
    \A E \in Graphs : E \subseteq Config \X Config /\ IsAcyclic(E)
ASSUME LimiterAssumption == MaxConcurrent \in Nat

VARIABLES
    edges,       \* the dependency graph of this deployment, never changed
    skip,        \* the configurations with Skip set, never changed
    components,  \* the independent components of the graph, never changed
    live,        \* configGraph: the nodes not removed yet, in all components
    pc,          \* where the goroutine of a configuration is
    outcome,     \* how deployConfig, or a removal, settled a configuration
    reports,     \* deployment records given to the reporter, per configuration
    entities,    \* resolvedEntities: the configurations references resolve to
    slots,       \* deployments between limiter.Acquire and limiter.Release
    stack,       \* the holder of lock and the open calls of its removeChildren
    errCount,    \* errCount of deployGraph, per component
    gathered,    \* components whose result deployComponents received
    total        \* errCount of deployComponents

choices == <<edges, skip, components>>
graph   == <<live, stack>>
tally   == <<errCount, gathered, total>>
vars    == <<choices, live, pc, outcome, reports, entities, slots, stack, tally>>

Outcome == {"none", "deployed", "failed", "excluded", "skipped"}

\* idle       not a root yet            removing   holds lock
\* queued     root, not launched        put        deployed, to be entered
\* acquire    waits for a slot          report     to be reported
\* resolve    in deployConfig           send       result offered on errChan
\* deploying  API call outstanding      collected  result received
\* failing    waits for lock            removed    root of an earlier wave
PC == {"idle", "queued", "acquire", "resolve", "deploying", "failing",
       "removing", "put", "report", "send", "collected", "removed"}

TypeOK ==
    /\ edges \in Graphs
    /\ skip \subseteq Config
    /\ components = Components(edges)
    /\ live \subseteq Config
    /\ pc \in [Config -> PC]
    /\ outcome \in [Config -> Outcome]
    /\ reports \in [Config -> Nat]
    /\ entities \subseteq Config
    /\ slots \in Nat
    /\ stack \in Seq(Config)
    /\ errCount \in [components -> Nat]
    /\ gathered \subseteq components
    /\ total \in Nat

Init ==
    /\ edges \in Graphs
    /\ skip \in SUBSET Config
    /\ components = Components(edges)
    /\ live = Config
    /\ pc = [c \in Config |-> "idle"]
    /\ outcome = [c \in Config |-> "none"]
    /\ reports = [c \in Config |-> 0]
    /\ entities = {}
    /\ slots = 0
    /\ stack = <<>>
    /\ errCount = [k \in components |-> 0]
    /\ gathered = {}
    /\ total = 0

-----------------------------------------------------------------------------
(* deployGraph, the goroutine of component k.                              *)

\* A wave begins: the roots of what is left of the component are computed.
StartWave(k) ==
    /\ k \cap live # {}
    /\ \A c \in k : pc[c] \in {"idle", "removed"}
    /\ pc' = [c \in Config |-> IF c \in Roots(edges, k \cap live) THEN "queued" ELSE pc[c]]
    /\ UNCHANGED <<choices, live, outcome, reports, entities, slots, stack, tally>>

\* The goroutine of root c is launched, after the waiting time of its API.
Launch(c) ==
    /\ pc[c] = "queued"
    /\ pc' = [pc EXCEPT ![c] = "acquire"]
    /\ UNCHANGED <<choices, live, outcome, reports, entities, slots, stack, tally>>

\* Fault: a configuration left alone because of Skip counts as an error.
CollectCountingSkips(k, c) ==
    /\ c \in k
    /\ pc[c] = "send"
    /\ \A d \in k : pc[d] # "queued"
    /\ pc' = [pc EXCEPT ![c] = "collected"]
    /\ errCount' = [errCount EXCEPT ![k] = IF outcome[c] = "deployed" THEN @ ELSE @ + 1]
    /\ UNCHANGED <<choices, live, outcome, reports, entities, slots, stack, gathered, total>>

\* Once all roots are launched, one result is received from each of them.
Collect(k, c) ==
    /\ c \in k
    /\ pc[c] = "send"
    /\ \A d \in k : pc[d] # "queued"
    /\ pc' = [pc EXCEPT ![c] = "collected"]
    /\ errCount' = [errCount EXCEPT ![k] = IF outcome[c] = "failed" THEN @ + 1 ELSE @]
    /\ UNCHANGED <<choices, live, outcome, reports, entities, slots, stack, gathered, total>>

\* Fault: only the first result is waited for, and then the whole wave is removed.
EndWaveAtFirstResult(k) ==
    LET wave == {c \in k : pc[c] \notin {"idle", "removed"}} IN
    /\ \E c \in wave : pc[c] = "collected"
    /\ live' = live \ wave
    /\ pc' = [c \in Config |-> IF c \in wave THEN "removed" ELSE pc[c]]
    /\ UNCHANGED <<choices, outcome, reports, entities, slots, stack, tally>>

\* All results are in: the roots are removed, without taking the lock.
EndWave(k) ==
    LET wave == {c \in k : pc[c] = "collected"} IN
    /\ wave # {}
    /\ \A c \in k : pc[c] \in {"idle", "collected", "removed"}
    /\ live' = live \ wave
    /\ pc' = [c \in Config |-> IF c \in wave THEN "removed" ELSE pc[c]]
    /\ UNCHANGED <<choices, outcome, reports, entities, slots, stack, tally>>

-----------------------------------------------------------------------------
(* deployConfig, called by the goroutine of root c.                        *)

\* Fault: one deployment too many is let in.
AcquireOneMore(c) ==
    /\ pc[c] = "acquire"
    /\ MaxConcurrent > 0 => slots <= MaxConcurrent
    /\ slots' = slots + 1
    /\ pc' = [pc EXCEPT ![c] = "resolve"]
    /\ UNCHANGED <<choices, live, outcome, reports, entities, stack, tally>>

Acquire(c) ==
    /\ pc[c] = "acquire"
    /\ MaxConcurrent > 0 => slots < MaxConcurrent
    /\ slots' = slots + 1
    /\ pc' = [pc EXCEPT ![c] = "resolve"]
    /\ UNCHANGED <<choices, live, outcome, reports, entities, stack, tally>>

\* Fault: the slot is released explicitly and by the deferred call.
ReturnTwice(c, result, next) ==
    /\ slots' = slots - 2
    /\ outcome' = [outcome EXCEPT ![c] = result]
    /\ pc' = [pc EXCEPT ![c] = next]
    /\ UNCHANGED <<choices, live, reports, entities, stack, tally>>

\* deployConfig returns: its slot is released and the outcome is settled.
Return(c, result, next) ==
    /\ slots' = slots - 1
    /\ outcome' = [outcome EXCEPT ![c] = result]
    /\ pc' = [pc EXCEPT ![c] = next]
    /\ UNCHANGED <<choices, live, reports, entities, stack, tally>>

\* Fault: the way out for Skip comes before the deferred release.
ExcludeKeepingSlot(c) ==
    /\ pc[c] = "resolve"
    /\ c \in skip
    /\ outcome' = [outcome EXCEPT ![c] = "excluded"]
    /\ pc' = [pc EXCEPT ![c] = "failing"]
    /\ UNCHANGED <<choices, live, reports, entities, slots, stack, tally>>

\* A configuration with Skip set is left alone: errSkip.
Exclude(c) ==
    /\ pc[c] = "resolve"
    /\ c \in skip
    /\ Return(c, "excluded", "failing")

\* Every reference is looked up in resolvedEntities, then the template is rendered.
Resolve(c) ==
    /\ pc[c] = "resolve"
    /\ c \notin skip
    /\ Parents(edges, c) \subseteq entities
    /\ pc' = [pc EXCEPT ![c] = "deploying"]
    /\ UNCHANGED <<choices, live, outcome, reports, entities, slots, stack, tally>>

\* A reference is missing, or anything else about values or template is wrong.
ResolveError(c) ==
    /\ pc[c] = "resolve"
    /\ c \notin skip
    /\ Return(c, "failed", "failing")

\* Fault: the error of a successful deployment is not recognised as nil.
DeployOkAsError(c) ==
    /\ pc[c] = "deploying"
    /\ Return(c, "deployed", "failing")

DeployOk(c) ==
    /\ pc[c] = "deploying"
    /\ Return(c, "deployed", "put")

DeployError(c) ==
    /\ pc[c] = "deploying"
    /\ Return(c, "failed", "failing")

-----------------------------------------------------------------------------
(* deployNode, after deployConfig returned, and removeChildren.            *)

\* Fault: removeChildren is called without the lock.
LockFree(c) ==
    /\ pc[c] = "failing"
    /\ stack' = <<c>>
    /\ pc' = [pc EXCEPT ![c] = "removing"]
    /\ UNCHANGED <<choices, live, outcome, reports, entities, slots, tally>>

Lock(c) ==
    /\ pc[c] = "failing"
    /\ stack = <<>>
    /\ stack' = <<c>>
    /\ pc' = [pc EXCEPT ![c] = "removing"]
    /\ UNCHANGED <<choices, live, outcome, reports, entities, slots, tally>>

\* The node whose children the innermost call of removeChildren visits, and the
\* children its iterator still has: those removed meanwhile are not produced.
Top == stack[Len(stack)]
Remaining == Children(edges, Top) \cap live

\* A child is reported as skipped and its own children are visited.
SkipChild ==
    /\ stack # <<>>
    /\ \E c \in Remaining :
        /\ outcome' = [outcome EXCEPT ![c] = "skipped"]
        /\ reports' = [reports EXCEPT ![c] = @ + 1]
        /\ stack' = Append(stack, c)
    /\ UNCHANGED <<choices, live, pc, entities, slots, tally>>

\* Fault: the child is reported but stays in the graph.
RemoveChildForgotten ==
    /\ Len(stack) > 1
    /\ Remaining = {}
    /\ stack' = SubSeq(stack, 1, Len(stack) - 1)
    /\ UNCHANGED <<choices, live, pc, outcome, reports, entities, slots, tally>>

\* Fault: only direct children are removed, without the recursive call.
RemoveChildShallow ==
    /\ Len(stack) > 1
    /\ live' = live \ {Top}
    /\ stack' = SubSeq(stack, 1, Len(stack) - 1)
    /\ UNCHANGED <<choices, pc, outcome, reports, entities, slots, tally>>

\* A recursive call returns and its caller removes the child.
RemoveChild ==
    /\ Len(stack) > 1
    /\ Remaining = {}
    /\ live' = live \ {Top}
    /\ stack' = SubSeq(stack, 1, Len(stack) - 1)
    /\ UNCHANGED <<choices, pc, outcome, reports, entities, slots, tally>>

\* Fault: the visit of the children ends before all of them were seen.
UnlockEarly(c) ==
    /\ pc[c] = "removing"
    /\ stack = <<c>>
    /\ pc' = [pc EXCEPT ![c] = "report"]
    /\ stack' = <<>>
    /\ UNCHANGED <<choices, live, outcome, reports, entities, slots, tally>>

\* The outermost call returns and the lock is released.
Unlock(c) ==
    /\ pc[c] = "removing"
    /\ stack = <<c>>
    /\ Remaining = {}
    /\ pc' = [pc EXCEPT ![c] = "report"]
    /\ stack' = <<>>
    /\ UNCHANGED <<choices, live, outcome, reports, entities, slots, tally>>

Put(c) ==
    /\ pc[c] = "put"
    /\ entities' = entities \cup {c}
    /\ pc' = [pc EXCEPT ![c] = "report"]
    /\ UNCHANGED <<choices, live, outcome, reports, slots, stack, tally>>

\* ReportSuccessfulDeployment, ReportFailedDeployment or ReportExcludedDeployment.
Report(c) ==
    /\ pc[c] = "report"
    /\ reports' = [reports EXCEPT ![c] = @ + 1]
    /\ pc' = [pc EXCEPT ![c] = "send"]
    /\ UNCHANGED <<choices, live, outcome, entities, slots, stack, tally>>

-----------------------------------------------------------------------------
(* deployComponents.                                                       *)

\* The graph of k is empty, so deployGraph returned; its errors are added up.
Gather(k) ==
    /\ k \notin gathered
    /\ k \cap live = {}
    /\ \A c \in k : pc[c] \in {"idle", "removed"}
    /\ gathered' = gathered \cup {k}
    /\ total' = total + errCount[k]
    /\ UNCHANGED <<choices, live, pc, outcome, reports, entities, slots, stack, errCount>>

Finished == gathered = components

\* deployComponents returned.
Done == Finished /\ UNCHANGED vars

ComponentStep(k) ==
    \/ StartWave(k)
    \/ \E c \in k : Collect(k, c)
    \/ EndWave(k)
    \/ Gather(k)

NodeStep(c) ==
    \/ Launch(c)
    \/ Acquire(c)
    \/ Exclude(c)
    \/ Resolve(c)
    \/ ResolveError(c)
    \/ DeployOk(c)
    \/ DeployError(c)
    \/ Lock(c)
    \/ Unlock(c)
    \/ Put(c)
    \/ Report(c)

RemovalStep == SkipChild \/ RemoveChild

Next ==
    \/ \E k \in components : ComponentStep(k)
    \/ \E c \in Config : NodeStep(c)
    \/ RemovalStep
    \/ Done

\* The Go scheduler runs some goroutine that can run, and every API call returns.
Spec == Init /\ [][Next]_vars /\ WF_vars(Next)

-----------------------------------------------------------------------------
(* Properties.                                                             *)

Settled  == {"failed", "excluded", "skipped"}
InFlight == {c \in Config : pc[c] \in {"resolve", "deploying"}}

\* deployGraph: when deployConfig looks up the references of a configuration,
\* all that the graph knows of are in resolvedEntities, so that no deployment
\* fails because something it references is still on its way.
ReferencesResolvable ==
    \A c \in Config : pc[c] = "resolve" /\ c \notin skip => Parents(edges, c) \subseteq entities

\* removeChildren and deployNode: no configuration has two deployment records,
\* not even one that several failed roots would each have removed.
ReportedAtMostOnce == \A c \in Config : reports[c] <= 1

\* removeChildren: a configuration is skipped only if something it depends on
\* directly failed, was excluded or was itself skipped.
SkippedBelowFailure ==
    \A c \in Config : outcome[c] = "skipped" =>
        \E p \in Parents(edges, c) : outcome[p] \in Settled

\* deployComponents: when it returns, every configuration has exactly one record
\* and the number of errors is the number of configurations that failed; those
\* skipped or excluded do not count.
FinalAccount ==
    Finished =>
        /\ \A c \in Config : reports[c] = 1 /\ outcome[c] # "none"
        /\ total = Cardinality({c \in Config : outcome[c] = "failed"})

\* deployConfig: every way out of it gives its slot back, so that the slots in
\* use are those of the configurations in flight and never exceed the limit.
LimiterRespected ==
    /\ slots = Cardinality(InFlight)
    /\ MaxConcurrent > 0 => slots <= MaxConcurrent

\* deployGraph and removeChildren: nodes leave the graph in two places, one of them
\* without the lock ("since all subroutines are done, we need not to lock here").
\* Nobody takes away what another is at: no open call of removeChildren visits the
\* children of a node that leaves, a removal made without the lock changes nothing
\* that an open iteration of any component may still produce, and a node that was
\* not deployed leaves only after everything below it.
RemovalsAgree ==
    [][ \A c \in live \ live' :
          /\ \A i \in 1..Len(stack') : stack'[i] # c
          /\ stack' = stack => \A i \in 1..Len(stack) : <<stack[i], c>> \notin edges
          /\ outcome[c] # "deployed" => Children(edges, c) \cap live = {} ]_vars

\* deployComponents returns, however many deployments fail and whatever the
\* number of slots.
Termination == <>Finished

\* The deployment does what DeployAbstract promises.
Promise == INSTANCE DeployAbstract
Implements == Promise!Spec

-----------------------------------------------------------------------------
(* The inductive invariant behind the safety properties.                   *)

InConfig == {"queued", "acquire", "resolve", "deploying"}   \* not settled yet
AtWork   == PC \ {"idle", "removed"}                         \* root of a wave

\* What the place of its goroutine says about the outcome of a configuration.
OutcomeInv ==
    \A c \in Config :
        /\ pc[c] = "idle" => outcome[c] \in {"none", "skipped"}
        /\ pc[c] \in InConfig => outcome[c] = "none"
        /\ pc[c] = "deploying" => c \notin skip
        /\ pc[c] \in {"failing", "removing"} => outcome[c] \in {"failed", "excluded"}
        /\ pc[c] = "put" => outcome[c] = "deployed"
        /\ pc[c] \in {"report", "send", "collected", "removed"} =>
              outcome[c] \in {"deployed", "failed", "excluded"}
        /\ outcome[c] = "deployed" /\ pc[c] # "put" => c \in entities
        /\ reports[c] = IF outcome[c] = "skipped" \/ pc[c] \in {"send", "collected", "removed"}
                        THEN 1 ELSE 0

\* What left the graph, and what it left behind.
GraphInv ==
    \A c \in Config :
        /\ pc[c] \in AtWork => c \in live /\ Parents(edges, c) \cap live = {}
        /\ pc[c] = "idle" /\ outcome[c] = "none" => c \in live
        /\ pc[c] = "removed" => c \notin live
        /\ pc[c] = "idle" /\ outcome[c] = "skipped" /\ c \in live =>
              \E i \in 2..Len(stack) : stack[i] = c
        /\ c \in live => \A p \in Parents(edges, c) \ live : outcome[p] = "deployed" /\ pc[p] = "removed"
        /\ pc[c] \in {"report", "send", "collected"} /\ outcome[c] # "deployed" =>
              Children(edges, c) \cap live = {}

\* The stack is a path of skipped nodes below the root whose goroutine has the lock.
StackInv ==
    /\ \A c \in Config : pc[c] = "removing" <=> stack # <<>> /\ stack[1] = c
    /\ \A i \in 2..Len(stack) :
          /\ stack[i] \in live
          /\ pc[stack[i]] = "idle"
          /\ outcome[stack[i]] = "skipped"
          /\ <<stack[i-1], stack[i]>> \in edges
    /\ \A i, j \in 1..Len(stack) : stack[i] = stack[j] => i = j
    /\ \A k \in components : \A i \in 1..Len(stack) : stack[i] \in k <=> stack[1] \in k

\* What the error counts stand for: the failures received so far.
Failures(k) == {c \in k : outcome[c] = "failed" /\ pc[c] \in {"collected", "removed"}}

CountInv ==
    /\ \A k \in components : errCount[k] = Cardinality(Failures(k))
    /\ \A k \in gathered : k \cap live = {} /\ \A c \in k : pc[c] \in {"idle", "removed"}
    /\ total = Cardinality(UNION {Failures(k) : k \in gathered})

IInv ==
    /\ TypeOK /\ LimiterRespected
    /\ OutcomeInv /\ GraphInv /\ StackInv /\ CountInv
    /\ SkippedBelowFailure
=============================================================================
