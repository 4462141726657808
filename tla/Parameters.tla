------------------------------ MODULE Parameters ------------------------------
(***************************************************************************)
(* Resolving the parameters of one configuration: they are sorted by the   *)
(* references between them (Kahn's algorithm, getSortedParameters and      *)
(* TopologySort) and then resolved one by one, the last one sorted first,  *)
(* from the parameters resolved before and from the configurations         *)
(* deployed before.                                                        *)
(*                                                                         *)
(* A value is "plain" or a "map"; a map has one key.  A reference is to a  *)
(* parameter (name) of a configuration, or to the key of it (nested).      *)
(***************************************************************************)
EXTENDS Naturals, Sequences, FiniteSets

CONSTANTS
    Alphabet,     \* the names of the parameters, each once, in their order
    Own,          \* the configuration whose parameters are resolved
    Entities,     \* what the entity map holds of other configurations
    ParameterSets \* what the parameters of these names may be

VARIABLES
    params,      \* the parameters: their kinds and references
    matrix,      \* edges of the sort that are left: <<i, j>> if j refers to i
    nodes,       \* the queue of the sort
    sorted,      \* the sorted names
    unresolved,  \* how many of these are still to be resolved
    properties,  \* the values resolved so far
    wrongParams, \* the parameters an error was reported for
    resolving    \* what is done with the parameters

parameterVars == <<params, matrix, nodes, sorted, unresolved, properties, wrongParams, resolving>>

ParamNames == {Alphabet[i] : i \in DOMAIN Alphabet}

ASSUME ParametersAssumption ==
    /\ Alphabet \in Seq(ParamNames)
    /\ \A i, j \in DOMAIN Alphabet : Alphabet[i] = Alphabet[j] => i = j
    /\ \A ps \in ParameterSets :
          /\ DOMAIN ps = ParamNames
          /\ \A n \in ParamNames : ps[n].kind = "reference" => \E ref \in ps[n].refs : ps[n].refs = {ref}

-----------------------------------------------------------------------------
\* The value of a property, or of the key of a map, among the given ones.
HasProp(ref, props) ==
    /\ ref.name \in DOMAIN props
    /\ ref.nested => props[ref.name] = "map"

PropValue(ref, props) == IF ref.nested THEN "plain" ELSE props[ref.name]

\* GetReferences: plain values, environment variables and lists have none.
References(p) == IF p.kind \in {"reference", "compound"} THEN p.refs ELSE {}

\* A reference makes an edge if it names the parameter, or a key of a map
\* that is written down as a value.
Matches(ref, name) ==
    /\ ref.config = Own
    /\ ref.name = name
    /\ ref.nested => params[name].kind = "map"

Edges == {e \in ParamNames \X ParamNames :
             e[1] # e[2] /\ \E ref \in References(params[e[2]]) : Matches(ref, e[1])}

\* Names without an edge to them left, and names in alphabetical order.
Leaves(edges, names) == {i \in names : ~\E e \in edges : e[1] = i}

InOrder(names) ==
    {s \in [1..Cardinality(names) -> names] :
        /\ {s[i] : i \in DOMAIN s} = names
        /\ \A x, y \in DOMAIN Alphabet : \A i, j \in DOMAIN s :
              s[i] = Alphabet[x] /\ s[j] = Alphabet[y] => (i < j <=> x < y)}

ParametersInit ==
    /\ params \in ParameterSets
    /\ matrix = Edges
    /\ nodes \in InOrder(Leaves(Edges, ParamNames))
    /\ sorted = <<>>
    /\ unresolved = 0
    /\ properties = <<>>
    /\ wrongParams = {}
    /\ resolving = "sort"

\* One turn of the sort: the edges from the first node go, and what has none
\* left joins the queue.
Pop ==
    /\ resolving = "sort"
    /\ nodes # <<>>
    /\ matrix' = {e \in matrix : e[2] # Head(nodes)}
    /\ \E free \in InOrder(Leaves(matrix', {e[1] : e \in matrix \ matrix'})) : nodes' = Tail(nodes) \o free
    /\ sorted' = Append(sorted, Head(nodes))
    /\ UNCHANGED <<params, unresolved, properties, wrongParams, resolving>>

\* Nodes with edges left are circular: nothing is resolved then.
Circular ==
    /\ resolving = "sort"
    /\ nodes = <<>>
    /\ matrix # {}
    /\ wrongParams' = {e[1] : e \in matrix}
    /\ resolving' = "done"
    /\ UNCHANGED <<params, matrix, nodes, sorted, unresolved, properties>>

Sorted ==
    /\ resolving = "sort"
    /\ nodes = <<>>
    /\ matrix = {}
    /\ unresolved' = Len(sorted)
    /\ resolving' = "resolve"
    /\ UNCHANGED <<params, matrix, nodes, sorted, properties, wrongParams>>

-----------------------------------------------------------------------------
\* What validateParameterReferences refuses before a value is looked up.
Unreferable(n) ==
    \E ref \in References(params[n]) :
        \/ ref.config = Own /\ ref.name = n /\ ~ref.nested
        \/ ref.config # Own /\ ref.config \notin DOMAIN Entities
        \/ ref.config # Own /\ Entities[ref.config].skip

\* Whether a parameter has a value, given those resolved, and which.
Found(ref, props) ==
    IF ref.config = Own THEN HasProp(ref, props)
                        ELSE HasProp(ref, Entities[ref.config].props)

HasValue(n, props) ==
    /\ ~Unreferable(n)
    /\ params[n].kind # "unset"
    /\ params[n].kind = "reference" => \A ref \in params[n].refs : Found(ref, props)
    /\ params[n].kind = "compound" =>
           \A ref \in params[n].refs : ~ref.nested /\ ref.name \in DOMAIN props

\* The name is converted to a string, whatever its value is.
NameParameter == "name"

ResolveValue(n, props) ==
    IF n = NameParameter THEN "plain"
    ELSE CASE params[n].kind = "map" -> "map"
           [] params[n].kind = "reference" ->
                  LET ref == CHOOSE r \in params[n].refs : TRUE
                  IN  PropValue(ref, IF ref.config = Own THEN props ELSE Entities[ref.config].props)
           [] OTHER -> "plain"

With(props, n, v) == [m \in DOMAIN props \cup {n} |-> IF m = n THEN v ELSE props[m]]

\* Fault: the sorted parameters are not turned round.
NextForward == sorted[Len(sorted) + 1 - unresolved]

NextToResolve == sorted[unresolved]

\* The next parameter is validated and resolved; an error does not stop the rest.
ResolveParameter ==
    /\ resolving = "resolve"
    /\ unresolved > 0
    /\ IF HasValue(NextToResolve, properties)
       THEN /\ properties' = With(properties, NextToResolve, ResolveValue(NextToResolve, properties))
            /\ UNCHANGED wrongParams
       ELSE /\ wrongParams' = wrongParams \cup {NextToResolve}
            /\ UNCHANGED properties
    /\ unresolved' = unresolved - 1
    /\ UNCHANGED <<params, matrix, nodes, sorted, resolving>>

ReturnProperties ==
    /\ resolving = "resolve"
    /\ unresolved = 0
    /\ resolving' = "done"
    /\ UNCHANGED <<params, matrix, nodes, sorted, unresolved, properties, wrongParams>>

ParametersDone == resolving = "done" /\ UNCHANGED parameterVars

ParametersNext == Pop \/ Circular \/ Sorted \/ ResolveParameter \/ ReturnProperties \/ ParametersDone

ParametersSpec == ParametersInit /\ [][ParametersNext]_parameterVars

-----------------------------------------------------------------------------
\* Orders in which parameters could be resolved: those before each of them.
Orderings ==
    {before \in [ParamNames -> SUBSET ParamNames] :
        \A n \in ParamNames : n \notin before[n] /\ \A m \in before[n] : before[m] \subseteq before[n]}

\* Each parameter can be resolved from those before it, and has that value.
Solves(values, before) ==
    \A n \in ParamNames :
        LET known == [m \in before[n] |-> values[m]]
        IN  HasValue(n, known) /\ values[n] = ResolveValue(n, known)

\* Nothing orders a reference to a key of a parameter that is itself a
\* reference, or of a composed parameter to another configuration's.
ReferencesOrder ==
    \A n \in ParamNames : \A ref \in References(params[n]) :
        /\ ref.config = Own /\ ref.nested /\ ref.name \in ParamNames => params[ref.name].kind # "reference"
        /\ params[n].kind = "compound" => ref.config = Own

\* Resolution is as good as the best order: a configuration is resolved,
\* with the right values, if there is any order in which all its parameters
\* can be, and an error is returned otherwise (sort.go, resolve.go; it is
\* what "resolved in the right order" in the comment of config.go:193 means).
ResolvedInRightOrder ==
    resolving = "done" /\ ReferencesOrder =>
        /\ wrongParams = {} => DOMAIN properties = ParamNames /\ \E before \in Orderings : Solves(properties, before)
        /\ wrongParams # {} =>
               \A before \in Orderings : \A values \in [ParamNames -> {"plain", "map"}] : ~Solves(values, before)
=============================================================================
