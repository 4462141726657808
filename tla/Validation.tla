------------------------------ MODULE Validation ------------------------------
(***************************************************************************)
(* The checks of all configurations before a deployment: that no two       *)
(* classic configurations of one type, scope and environment have the same *)
(* name, as far as names can be known, and that settings are put after     *)
(* settings of their own schema and scope.  The validators see one         *)
(* configuration after the other, types in any order, and the one for      *)
(* names remembers what it has accepted.                                   *)
(***************************************************************************)
EXTENDS Naturals, Sequences

CONSTANTS ProjectLists,   \* the lists of projects considered
          NonUniqueNames, \* classic types whose names need not be unique
          None            \* no scope, nothing to be put after

VARIABLES given,       \* the projects: their ids and configurations
          atProject,   \* the one whose configurations are validated
          unseen,      \* places of those that are still to be seen
          uniqueNames, \* accepted configurations that have a name of their own
          refusals,    \* the errors: configuration, environment and validator
          accepted     \* the outcome, None before

checkVars == <<given, atProject, unseen, uniqueNames, refusals, accepted>>

\* Loaded projects hold configurations of their own, and none of them twice.
ASSUME ProjectsAssumption ==
    \A list \in ProjectLists :
        /\ DOMAIN list = 1..Len(list) /\ Len(list) \in Nat
        /\ \A i \in DOMAIN list : \A n \in DOMAIN list[i].configs :
              list[i].configs[n].coord.project = list[i].id
        /\ \A i, j \in DOMAIN list : \A n \in DOMAIN list[i].configs, m \in DOMAIN list[j].configs :
              list[i].configs[n] = list[j].configs[m] => i = j /\ n = m

ConfigsOf(i) == given[i].configs
Members(i)   == {ConfigsOf(i)[n] : n \in DOMAIN ConfigsOf(i)}

-----------------------------------------------------------------------------
\* A name is a value, or composed of values, or of what is known only when
\* another configuration is deployed; so is every other parameter.
Resolvable(c) == c.name.kind \in {"value", "compound"} /\ c.name.known /\ ~c.open

\* Compounds name parameters of their own configuration.
SameUnresolved(c, d) ==
    \/ c.name.kind = "reference" /\ d.name.kind = "reference" /\ c.name.to = d.name.to
    \/ /\ c.name.kind = "compound" /\ d.name.kind = "compound"
       /\ c.name.format = d.name.format /\ c.coord = d.coord

DuplicateNames(c, d) ==
    \/ Resolvable(c) /\ Resolvable(d) /\ c.name.text = d.name.text
    \/ SameUnresolved(c, d)

\* Key user actions are told apart by their payload.
HasUniqueName(c) ==
    c.type = "classic" /\ c.coord.type \notin NonUniqueNames \cup {"key-user-actions-web"}

\* Fault: configurations of one name are compared in any scope only if none has one.
UnscopedOnly(c) == {d \in uniqueNames : d.env = c.env /\ d.coord.type = c.coord.type /\ d.scope = None /\ c.scope = None}

\* Accepted ones of the same environment, type and scope.
Comparable(c) == {d \in uniqueNames : d.env = c.env /\ d.coord.type = c.coord.type /\ d.scope = c.scope}

NameClash(c) == HasUniqueName(c) /\ \E d \in Comparable(c) : DuplicateNames(c, d)

-----------------------------------------------------------------------------
GetConfigFor(env, coord) ==
    {d \in UNION {Members(i) : i \in {j \in DOMAIN given : given[j].id = coord.project}} :
        d.env = env /\ d.coord = coord}

Static(scope) == scope # None /\ scope.kind = "value"

\* A settings object is put after one of another schema or scope, or after one
\* the environment does not have.
InsertAfterWrong(c) ==
    /\ ~c.skip /\ c.type = "settings" /\ c.after # None
    /\ \/ c.after.type # c.coord.type
       \/ GetConfigFor(c.env, c.after) = {}
       \/ \E d \in GetConfigFor(c.env, c.after) : Static(c.scope) /\ Static(d.scope) /\ c.scope # d.scope

-----------------------------------------------------------------------------
CheckInit ==
    /\ given \in ProjectLists
    /\ atProject = 0
    /\ unseen = {}
    /\ uniqueNames = {}
    /\ refusals = {}
    /\ accepted = None

\* Those of one environment and type are seen in their order.
Earlier(n) == {m \in unseen : m < n /\ ConfigsOf(atProject)[m].env = ConfigsOf(atProject)[n].env
                                    /\ ConfigsOf(atProject)[m].coord.type = ConfigsOf(atProject)[n].coord.type}

ValidateConfig(n) ==
    /\ n \in unseen
    /\ Earlier(n) = {}
    /\ LET c == ConfigsOf(atProject)[n]
       IN  /\ refusals' = refusals \cup (IF NameClash(c) THEN {<<c, c.env, "name">>} ELSE {})
                                   \cup (IF InsertAfterWrong(c) THEN {<<c, c.env, "insertAfter">>} ELSE {})
           /\ uniqueNames' = IF HasUniqueName(c) /\ ~NameClash(c) THEN uniqueNames \cup {c} ELSE uniqueNames
    /\ unseen' = unseen \ {n}
    /\ UNCHANGED <<given, atProject, accepted>>

NextProject ==
    /\ unseen = {}
    /\ atProject < Len(given)
    /\ atProject' = atProject + 1
    /\ unseen' = DOMAIN ConfigsOf(atProject + 1)
    /\ UNCHANGED <<given, uniqueNames, refusals, accepted>>

Answer ==
    /\ unseen = {}
    /\ atProject = Len(given)
    /\ accepted = None
    /\ accepted' = IF refusals = {} THEN "yes" ELSE "no"
    /\ UNCHANGED <<given, atProject, unseen, uniqueNames, refusals>>

Answered == accepted # None /\ UNCHANGED checkVars

CheckNext == (\E n \in unseen : ValidateConfig(n)) \/ NextProject \/ Answer \/ Answered

CheckSpec == CheckInit /\ [][CheckNext]_checkVars

-----------------------------------------------------------------------------
All == UNION {Members(i) : i \in DOMAIN given}

\* Two configurations that will surely have one name where names are unique.
Clash(c, d) ==
    /\ c # d
    /\ HasUniqueName(c) /\ HasUniqueName(d)
    /\ c.env = d.env /\ c.coord.type = d.coord.type /\ c.scope = d.scope
    /\ DuplicateNames(c, d)

\* Settings that cannot be ordered as they say.
Misplaced(c) ==
    /\ ~c.skip /\ c.type = "settings" /\ c.after # None
    /\ LET targets == {d \in All : d.coord = c.after /\ d.env = c.env}
       IN  \/ c.after.type # c.coord.type
           \/ targets = {}
           \/ \E d \in targets : Static(c.scope) /\ Static(d.scope) /\ c.scope # d.scope

\* Whatever the order of the configurations, a deployment is refused exactly
\* when two of them clash or one is misplaced, and every environment in which
\* this is so is named (Validate of validate.go and the validators).
RefusedExactly ==
    accepted # None =>
        /\ accepted = "no" <=> refusals # {}
        /\ {e[2] : e \in refusals} =
              {c.env : c \in {x \in All : Misplaced(x) \/ \E y \in All : Clash(x, y)}}
=============================================================================
