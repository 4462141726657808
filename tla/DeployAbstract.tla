--------------------------- MODULE DeployAbstract ---------------------------
(***************************************************************************)
(* What the deployment of one environment promises, whatever the number of *)
(* goroutines, the order of their steps and the waves they run in: every   *)
(* configuration gets exactly one outcome, it is attempted only after      *)
(* everything it depends on was deployed, and it is given up only because  *)
(* something it depends on was not.                                        *)
(***************************************************************************)
EXTENDS ConfigGraph

CONSTANT Graphs     \* the dependency graphs considered

VARIABLES edges,    \* the dependency graph of this deployment
          skip,     \* the configurations marked with skip
          outcome   \* what became of every configuration

vars == <<edges, skip, outcome>>

Undecided == {c \in Config : outcome[c] = "none"}
Deployed  == {c \in Config : outcome[c] = "deployed"}

\* Not deployed, and never going to be.
GivenUp == Config \ (Undecided \cup Deployed)

Init ==
    /\ edges \in Graphs
    /\ skip \in SUBSET Config
    /\ outcome = [c \in Config |-> "none"]

Decide(c, result) ==
    /\ c \in Undecided
    /\ outcome' = [outcome EXCEPT ![c] = result]
    /\ UNCHANGED <<edges, skip>>

\* A configuration is attempted when all it depends on is deployed.
Attempt(c) ==
    /\ Parents(edges, c) \subseteq Deployed
    /\ \/ c \in skip    /\ Decide(c, "excluded")
       \/ c \notin skip /\ Decide(c, "deployed")
       \/ c \notin skip /\ Decide(c, "failed")

\* A configuration is given up when something it depends on was.
GiveUp(c) ==
    /\ Parents(edges, c) \cap GivenUp # {}
    /\ Decide(c, "skipped")

Next == \E c \in Config : Attempt(c) \/ GiveUp(c)

\* Attempted in order and given up for a reason, and in the end all decided.
Safe == Init /\ [][Next]_vars
Spec == Safe /\ WF_vars(Next)
=============================================================================
