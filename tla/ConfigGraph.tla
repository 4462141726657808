---------------------------- MODULE ConfigGraph ----------------------------
(***************************************************************************)
(* The dependency graph of one environment, as package graph hands it to   *)
(* the deployment (pkg/graph/graph.go).  A graph is its set E of edges over *)
(* the nodes Config; an edge <<p, c>> says that c references p, so that p  *)
(* has to be deployed before c.  Deployment removes nodes from the graph;  *)
(* L is then the set of nodes still in it, and an edge is in the graph as  *)
(* long as both of its ends are.                                           *)
(*                                                                         *)
(* Reachability is stated through closed sets instead of by recursion, so  *)
(* that the facts the deployment's proofs need follow without induction.   *)
(***************************************************************************)
CONSTANT Config     \* the configurations of the environment (graph.ConfigNode)

\* The neighbours g.To(c) and g.From(p) of a node.
Parents(E, c)  == {p \in Config : <<p, c>> \in E}
Children(E, p) == {c \in Config : <<p, c>> \in E}

\* graph.Roots: the nodes without incoming edges.
Roots(E, L) == {c \in L : Parents(E, c) \cap L = {}}

\* A set no edge leaves or enters.
IsolatedIn(E, S) == \A e \in E : e[1] \in S <=> e[2] \in S

\* findConnectedComponents: the undirected graph is traversed from every node
\* not visited yet, so the components are the smallest isolated sets.
ComponentOf(E, c) ==
    {d \in Config : \A S \in SUBSET Config : c \in S /\ IsolatedIn(E, S) => d \in S}
Components(E) == {ComponentOf(E, c) : c \in Config}

\* A graph that passed the sorting of GetIndependentlySortedConfigs has no cycle:
\* every set of nodes has one that depends on no other node of the set.
IsAcyclic(E) == \A S \in SUBSET Config : S # {} => Roots(E, S) # {}
=============================================================================
