---------------------------- MODULE MCParameters ----------------------------
(* The name and two parameters, each a value, a map, an unset environment  *)
(* variable, a reference to any parameter or key of this configuration or   *)
(* of another one, which may be deployed, skipped or unknown, or composed   *)
(* of others.                                                               *)

MCEntities == [dep  |-> [skip |-> FALSE, props |-> [m |-> "map", v |-> "plain"]],
               skip |-> [skip |-> TRUE,  props |-> <<>>]]

MCOrder == <<"a", "b", "name">>

MCTargets == [config : {"this"}, name : {"a", "b", "name"}, nested : BOOLEAN]
    \cup [config : {"dep"}, name : {"m", "v"}, nested : BOOLEAN]
    \cup [config : {"skip", "absent"}, name : {"v"}, nested : {FALSE}]

MCPlain(n) == [config |-> "this", name |-> n, nested |-> FALSE]

MCParameters == [kind : {"value", "map", "unset"}, refs : {{}}]
    \cup [kind : {"reference"}, refs : {{t} : t \in MCTargets}]
    \cup [kind : {"compound"}, refs : {{MCPlain(n) : n \in S} : S \in SUBSET {"a", "b", "name"} \ {{}}}]

MCCases == [{"a", "b", "name"} -> MCParameters]
=============================================================================
