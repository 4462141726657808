------------------------- MODULE EnvironmentsProofs -------------------------
(***************************************************************************)
(* What holds of a deployment over all environments, for any environments, *)
(* configurations and options: a deployer always has a client, and what    *)
(* the command returns names the environments that failed.  And of the     *)
(* checks before it, for any projects: in whatever order configurations    *)
(* are seen, they are refused exactly if one is wrong.  And of loading     *)
(* projects, however they refer to each other: all that is needed and no   *)
(* other is loaded.  And of the parameters of a configuration: they are    *)
(* resolved if any order allows it.  And of manifests: what is loaded is   *)
(* what was asked for, and what is written is read as it was.  And of the  *)
(* files of configurations: all that is acceptable and written is loaded   *)
(* again as it was.                                                        *)
(***************************************************************************)
EXTENDS Environments, Validation, ProjectLoader, Manifest, Parameters, ConfigFiles,
        FiniteSetTheorems, SequenceTheorems, WellFoundedInduction, NaturalsInduction, TLAPS

\* The types there are deployers for.
Types == {"classic", "settings", "permitted settings", "automation", "bucket", "document",
          "openpipeline", "segment", "slo"}

TypesKnown == \A k \in Cases : \A c \in k.configs : c.type \in Types

Invalid == {e \in Envs : ~case.envs[e].valid}

\* The environment has had its turn.
Complete(env) == \A c \in In(env) : c \in touched <=> Ready(c)

AllAllowed == \A c \in Configs : Allowed(c)

AllClients == clients = [e \in Envs |-> CreateClientSet(e)]

-----------------------------------------------------------------------------
\* Before the first environment nothing has been written, and only the
\* validation may have left errors, if the deployment is to go on.
Checking == {"manifest", "verify", "projects", "environments", "credentials", "clients", "validate", "sort"}

CheckInv ==
    step \in Checking =>
        /\ touched = {} /\ broken = {} /\ caches = {} /\ left = Envs /\ outcome = Nil
        /\ errors = IF step = "sort" THEN Invalid ELSE {}

\* Each check that has passed stays true: the case does not change.
PassedInv ==
    /\ step \in {"credentials", "clients", "validate", "sort", "next", "preload", "deploy"} => WithEnvironments
    /\ step \in {"clients", "validate", "sort", "next", "preload", "deploy"} => AllAllowed
    /\ step \in {"validate", "sort", "next", "preload", "deploy"} => AllClients
    /\ step \in {"sort", "next", "preload", "deploy"} => (GoOn \/ Invalid = {})

\* Environments that had no turn yet are untouched.
LeftInv == \A e \in left, c \in touched : c.env # e

\* Between two environments: the errors are about all that failed, and those
\* that had their turn are complete.
NextInv ==
    step = "next" =>
        /\ caches = {} /\ outcome = Nil
        /\ Failing \subseteq Envs \ left
        /\ errors = Invalid \cup Failing
        /\ \A e \in Envs \ left : Complete(e)
        /\ GoOn \/ broken = {}

\* During one: it is not among the errors yet, and only its caches are filled.
CurrentInv ==
    step \in {"preload", "deploy"} =>
        /\ outcome = Nil
        /\ current \in Envs \ left
        /\ Failing \subseteq Envs \ left
        /\ errors = Invalid \cup (Failing \ {current})
        /\ \A e \in Envs \ (left \cup {current}) : Complete(e)
        /\ \A c \in In(current) \cap touched : Ready(c)
        /\ \A x \in caches : x[1] = current
        /\ GoOn \/ Failing \subseteq {current}
        /\ step = "preload" => current \notin Failing /\ \A c \in touched : c.env # current

\* What FailuresNamed says of single configurations.
Turns ==
    \A e \in Envs \ {current} : \A c \in In(e) : c \in touched <=> e \notin left /\ Ready(c)

EndInv == step = "end" => caches = {} /\ FailuresNamed

IInv ==
    /\ step \in Checking \cup {"next", "preload", "deploy", "end"}
    /\ left \subseteq Envs
    /\ touched \subseteq Configs /\ broken \subseteq touched
    /\ CheckInv /\ PassedInv /\ LeftInv /\ NextInv /\ CurrentInv /\ EndInv
-----------------------------------------------------------------------------
\* Everything that is computed from the case stays as it is.
LEMMA SameCase ==
    ASSUME case' = case
    PROVE  /\ Envs' = Envs /\ Configs' = Configs /\ Invalid' = Invalid
           /\ WithEnvironments' <=> WithEnvironments
           /\ AllAllowed' <=> AllAllowed
           /\ GoOn' <=> GoOn
           /\ clients' = clients => (AllClients' <=> AllClients)
           /\ \A e : In(e)' = In(e)
           /\ \A c : Needs(c)' = Needs(c)
           /\ broken' = broken => Failing' = Failing
           /\ UNCHANGED <<touched, broken>> => \A c : Ready(c)' <=> Ready(c)
           /\ UNCHANGED <<touched, broken>> => \A e : Complete(e)' <=> Complete(e)
<1>1. Envs' = Envs /\ Configs' = Configs
  BY DEF Envs, Configs
<1>2. Invalid' = Invalid
  BY <1>1 DEF Invalid
<1>3. WithEnvironments' <=> WithEnvironments
  BY <1>1 DEF WithEnvironments, HasPlatform
<1>4. AllAllowed' <=> AllAllowed
  BY <1>1 DEF AllAllowed, Allowed, HasPlatform
<1>5. GoOn' <=> GoOn
  BY DEF GoOn
<1>6. clients' = clients => (AllClients' <=> AllClients)
  BY <1>1 DEF AllClients, CreateClientSet, HasPlatform
<1>7. /\ \A e : In(e)' = In(e)
      /\ \A c : Needs(c)' = Needs(c)
      /\ broken' = broken => Failing' = Failing
  BY <1>1 DEF In, Needs, Failing
<1>8. UNCHANGED <<touched, broken>> => \A c : Ready(c)' <=> Ready(c)
  BY <1>7 DEF Ready
<1>9. UNCHANGED <<touched, broken>> => \A e : Complete(e)' <=> Complete(e)
  BY <1>7, <1>8 DEF Complete
<1>. QED
  BY <1>1, <1>2, <1>3, <1>4, <1>5, <1>6, <1>7, <1>8, <1>9

LEMMA InitInv == Init => IInv
  BY DEF Init, IInv, CheckInv, PassedInv, LeftInv, NextInv, CurrentInv, EndInv, Checking, Configs

\* Environments without a turn are untouched, and the others complete.
LEMMA TurnsKnown ==
    ASSUME LeftInv, \A e \in Envs \ (left \cup {current}) : Complete(e)
    PROVE  Turns
<1>. SUFFICES ASSUME NEW e \in Envs \ {current}, NEW c \in In(e)
              PROVE  c \in touched <=> e \notin left /\ Ready(c)
  BY DEF Turns
<1>1. CASE e \in left
  BY <1>1 DEF LeftInv, In
<1>2. CASE e \notin left
  BY <1>2 DEF Complete
<1>. QED
  BY <1>1, <1>2

\* Before anything is touched, no environment is complete or failed.
LEMMA Untouched ==
    ASSUME touched = {}, broken = {}, left = Envs
    PROVE  /\ Failing = {} /\ Cardinality(Failing) = 0
           /\ Turns
<1>1. Failing = {}
  BY DEF Failing
<1>. QED
  BY <1>1, FS_EmptySet DEF Turns, In

-----------------------------------------------------------------------------
\* The checks: each may refuse, and then nothing has happened.
LEMMA Refusing ==
    ASSUME IInv, step \in Checking, Refuse,
           UNCHANGED <<case, left, caches, touched, broken>>
    PROVE  IInv'
<1>1. step' = "end" /\ outcome' = [kind |-> "refused", envs |-> {}]
  BY DEF Refuse, Stop
<1>2. touched = {} /\ broken = {} /\ caches = {} /\ left = Envs
  BY DEF IInv, CheckInv
<1>3. FailuresNamed'
  <2>1. (touched = {} /\ broken = {} /\ left = Envs)'
    BY <1>2, SameCase
  <2>2. /\ (Cardinality(Failing) = 0)'
        /\ Turns'
    BY <2>1, Untouched, PTL
  <2>. QED
    BY <1>1, <1>2, <2>1, <2>2 DEF FailuresNamed, Turns
<1>. QED
  BY <1>1, <1>2, <1>3, SameCase
     DEF IInv, CheckInv, PassedInv, LeftInv, NextInv, CurrentInv, EndInv, Checking

LEMMA CheckStep ==
    ASSUME IInv,
           LoadManifest \/ VerifyAuthentication \/ LoadProjects \/ ValidateWithEnvironments
           \/ ValidateCredentials \/ CreateClients
    PROVE  IInv'
<1>. USE DEF Go, Quiet
<1>1. step \in Checking /\ UNCHANGED <<case, errors, left, current, loading, caches, touched, broken>>
  BY DEF LoadManifest, VerifyAuthentication, LoadProjects, ValidateWithEnvironments, ValidateCredentials,
         CreateClients, Checking
<1>2. CASE Refuse
  BY <1>1, <1>2, Refusing
<1>3. CASE ~Refuse
  <2>1. /\ step \in Checking \ {"validate", "sort"} /\ step' \in Checking \ {"manifest", "sort"}
        /\ outcome' = outcome
    BY <1>3 DEF LoadManifest, VerifyAuthentication, LoadProjects, ValidateWithEnvironments,
                ValidateCredentials, CreateClients, Checking
  <2>2. CheckInv' /\ NextInv' /\ CurrentInv' /\ EndInv'
    BY <1>1, <2>1, SameCase DEF IInv, CheckInv, LeftInv, NextInv, CurrentInv, EndInv, Checking
  <2>3. PassedInv'
    <3>1. CASE LoadManifest \/ VerifyAuthentication \/ LoadProjects
      BY <1>3, <3>1 DEF LoadManifest, VerifyAuthentication, LoadProjects, PassedInv
    <3>2. CASE ValidateWithEnvironments
      BY <1>1, <1>3, <3>2, SameCase DEF ValidateWithEnvironments, PassedInv
    <3>3. CASE ValidateCredentials
      BY <1>1, <1>3, <3>3, SameCase DEF ValidateCredentials, PassedInv, IInv, AllAllowed
    <3>4. CASE CreateClients
      <4>1. step = "clients" /\ step' = "validate" /\ clients' = [e \in Envs |-> CreateClientSet(e)]
        BY <1>3, <3>4 DEF CreateClients
      <4>2. AllClients'
        <5>1. \A e : CreateClientSet(e)' = CreateClientSet(e)
          BY <1>1 DEF CreateClientSet, HasPlatform
        <5>. QED
          BY <1>1, <4>1, <5>1, SameCase DEF AllClients
      <4>. QED
        BY <1>1, <4>1, <4>2, SameCase DEF PassedInv, IInv
    <3>. QED
      BY <3>1, <3>2, <3>3, <3>4
  <2>. QED
    BY <1>1, <2>1, <2>2, <2>3, SameCase DEF IInv, LeftInv, Checking
<1>. QED
  BY <1>2, <1>3

LEMMA ValidateStep ==
    ASSUME IInv, Validate \/ Sort
    PROVE  IInv'
<1>. USE DEF Go, Quiet
<1>1. /\ step \in Checking /\ UNCHANGED <<case, clients, left, current, loading, caches, touched, broken>>
      /\ touched = {} /\ broken = {} /\ caches = {} /\ left = Envs /\ outcome = Nil
  BY DEF Validate, Sort, Checking, IInv, CheckInv
<1>2. CASE Refuse
  BY <1>1, <1>2, Refusing
<1>3. CASE Validate
  <2>1. step = "validate" /\ errors = {}
    BY <1>3 DEF Validate, IInv, CheckInv, Checking
  <2>2. CASE step' = "sort" /\ outcome' = outcome /\ errors' = Invalid /\ (GoOn \/ Invalid = {})
    BY <1>1, <2>1, <2>2, SameCase
       DEF IInv, CheckInv, PassedInv, LeftInv, NextInv, CurrentInv, EndInv, Checking
  <2>3. CASE step' = "end" /\ outcome' = [kind |-> "failed", envs |-> Invalid] /\ ~GoOn
    <3>1. FailuresNamed'
      <4>1. (touched = {} /\ broken = {} /\ left = Envs)'
        BY <1>1, SameCase
      <4>2. /\ (Failing = {} /\ Cardinality(Failing) = 0)'
            /\ Turns'
        BY <4>1, Untouched, PTL
      <4>. QED
        BY <1>1, <2>3, <4>1, <4>2, SameCase DEF FailuresNamed, Turns, Invalid
    <3>. QED
      BY <1>1, <2>3, <3>1, SameCase
         DEF IInv, CheckInv, PassedInv, LeftInv, NextInv, CurrentInv, EndInv, Checking
  <2>. QED
    BY <1>3, <2>1, <2>2, <2>3 DEF Validate, Stop, Invalid
<1>4. CASE Sort /\ ~Refuse
  <2>1. step = "sort" /\ step' = "next" /\ outcome' = outcome /\ errors' = errors
    BY <1>4 DEF Sort
  <2>2. errors = Invalid /\ (GoOn \/ Invalid = {})
    BY <2>1 DEF IInv, CheckInv, PassedInv, Checking
  <2>3. NextInv'
    <3>1. Failing' = {} /\ Envs' = Envs
      BY <1>1, SameCase DEF Failing
    <3>. QED
      BY <1>1, <2>1, <2>2, <3>1, SameCase DEF NextInv
  <2>4. PassedInv'
    BY <1>1, <2>1, <2>2, SameCase DEF IInv, PassedInv
  <2>5. CheckInv' /\ LeftInv' /\ CurrentInv' /\ EndInv'
    BY <1>1, <2>1 DEF CheckInv, LeftInv, CurrentInv, EndInv, Checking
  <2>. QED
    BY <1>1, <2>1, <2>3, <2>4, <2>5, SameCase DEF IInv
<1>. QED
  BY <1>2, <1>3, <1>4

-----------------------------------------------------------------------------
LEMMA BeginStep ==
    ASSUME IInv, NEW e \in left, Begin(e)
    PROVE  IInv'
<1>1. /\ step = "next" /\ step' = "preload" /\ left' = left \ {e} /\ current' = e
      /\ UNCHANGED <<case, clients, errors, caches, touched, broken, outcome>>
  BY DEF Begin, Go
<1>2. CurrentInv'
  <2>1. e \in Envs /\ Failing \subseteq Envs \ left /\ caches = {}
    BY <1>1 DEF IInv, NextInv
  <2>2. \A c \in touched : c.env # e
    BY DEF IInv, LeftInv
  <2>. QED
    BY <1>1, <2>1, <2>2, SameCase DEF IInv, NextInv, CurrentInv, In, Failing
<1>3. PassedInv'
  BY <1>1, SameCase DEF IInv, PassedInv
<1>4. CheckInv' /\ LeftInv' /\ NextInv' /\ EndInv'
  BY <1>1 DEF IInv, CheckInv, LeftInv, NextInv, EndInv, Checking
<1>. QED
  BY <1>1, <1>2, <1>3, <1>4, SameCase DEF IInv

LEMMA PreloadStep ==
    ASSUME IInv, (\E t \in loading : Cached(t)) \/ Preloaded
    PROVE  IInv'
<1>1. /\ step = "preload" /\ step' \in {"preload", "deploy"}
      /\ UNCHANGED <<case, clients, errors, left, current, touched, broken, outcome>>
      /\ \A x \in caches' : x \in caches \/ x[1] = current
  BY DEF Cached, Preloaded, Go, Quiet
<1>2. CurrentInv'
  BY <1>1, SameCase DEF IInv, CurrentInv
<1>. QED
  BY <1>1, <1>2, SameCase DEF IInv, CheckInv, PassedInv, LeftInv, NextInv, EndInv, Checking

\* What was deployed stays deployed: only the configuration itself may fail.
LEMMA ConfigStep ==
    ASSUME IInv, NEW c, DeployConfig(c)
    PROVE  IInv'
<1>1. /\ step = "deploy" /\ c \in In(current) \ touched /\ Ready(c) /\ touched' = touched \cup {c}
      /\ broken' \in {broken, broken \cup {c}} /\ c.env = current /\ c \in Configs
      /\ UNCHANGED <<case, step, clients, errors, left, current, loading, caches, outcome>>
  BY DEF DeployConfig, In
<1>2. /\ Failing \subseteq Failing' /\ Failing' \subseteq Failing \cup {current}
      /\ \A e : In(e)' = In(e)
  BY <1>1, SameCase DEF Failing
<1>3. /\ touched \ broken \subseteq touched' \ broken'
      /\ \A d : d \in touched' \ broken' => d \in touched \ broken \/ d = c
  BY <1>1 DEF IInv
<1>4. \A d : Ready(d) => Ready(d)'
  BY <1>1, <1>3, SameCase DEF Ready
<1>5. \A d : Ready(d)' /\ d.env # current => Ready(d)
  BY <1>1, <1>3, SameCase DEF Ready, Needs
<1>6. \A e \in Envs \ (left \cup {current}) : Complete(e) => Complete(e)'
  BY <1>1, <1>2, <1>4, <1>5 DEF Complete, In
<1>7. CurrentInv'
  <2>1. \A d \in In(current)' \cap touched' : Ready(d)'
    BY <1>1, <1>2, <1>4 DEF IInv, CurrentInv
  <2>2. \A e \in Envs' \ (left' \cup {current'}) : Complete(e)'
    BY <1>1, <1>6, SameCase DEF IInv, CurrentInv
  <2>. QED
    BY <1>1, <1>2, <2>1, <2>2, SameCase DEF IInv, CurrentInv
<1>8. touched' \subseteq Configs' /\ broken' \subseteq touched' /\ LeftInv'
  BY <1>1, SameCase DEF IInv, CurrentInv, LeftInv
<1>. QED
  BY <1>1, <1>7, <1>8, SameCase DEF IInv, CheckInv, PassedInv, NextInv, EndInv, Checking

LEMMA FinishStep ==
    ASSUME IInv, Finish
    PROVE  IInv'
<1>1. /\ step = "deploy" /\ \A c \in In(current) \ touched : ~Ready(c)
      /\ caches' = {x \in caches : x[1] # current}
      /\ UNCHANGED <<case, clients, left, touched, broken>>
      /\ Failing' = Failing
  BY SameCase DEF Finish
<1>2. caches' = {}
  BY <1>1 DEF IInv, CurrentInv
<1>3. /\ \A e \in Envs \ left : Complete(e)
      /\ LeftInv'
  BY <1>1 DEF IInv, CurrentInv, Complete, LeftInv
<1>4. CASE step' = "next"
  <2>1. outcome' = outcome /\ errors' = Invalid \cup Failing /\ (GoOn \/ Failing = {})
    BY <1>1, <1>4 DEF Finish, Go, Stop, AddError, IInv, CurrentInv
  <2>2. Failing = {} => broken = {}
    BY DEF Failing
  <2>3. NextInv'
    BY <1>1, <1>2, <1>3, <2>1, <2>2, SameCase DEF IInv, CurrentInv, NextInv
  <2>. QED
    BY <1>1, <1>3, <1>4, <2>3, SameCase DEF IInv, CheckInv, PassedInv, CurrentInv, EndInv, Checking
<1>5. CASE step' # "next"
  <2>1. /\ step' = "end" /\ ~GoOn /\ current \in Failing /\ Invalid = {} /\ Failing = {current}
        /\ outcome' = [kind |-> "failed", envs |-> Failing]
    BY <1>1, <1>5 DEF Finish, Go, Stop, AddError, IInv, CurrentInv, PassedInv
  <2>2. Cardinality({current}) = 1
    BY FS_Singleton
  <2>3. Turns'
    <3>1. LeftInv' /\ (\A e \in Envs \ (left \cup {current}) : Complete(e))'
      BY <1>1, <1>3, SameCase
    <3>. QED
      BY <3>1, TurnsKnown, PTL
  <2>4. FailuresNamed'
    BY <1>1, <1>2, <2>1, <2>2, <2>3, SameCase DEF FailuresNamed, Turns, Invalid
  <2>. QED
    BY <1>1, <1>2, <1>3, <2>1, <2>4, SameCase DEF IInv, CheckInv, PassedInv, NextInv, CurrentInv, EndInv, Checking
<1>. QED
  BY <1>4, <1>5

LEMMA EndStep ==
    ASSUME IInv, End
    PROVE  IInv'
<1>1. /\ step = "next" /\ step' = "end" /\ left = {}
      /\ outcome' = IF errors = {} THEN [kind |-> "deployed", envs |-> {}]
                    ELSE [kind |-> "failed", envs |-> errors]
      /\ UNCHANGED <<case, clients, left, current, caches, touched, broken>>
      /\ Failing' = Failing
  BY SameCase DEF End, Stop, Quiet
<1>2. /\ caches = {} /\ errors = Invalid \cup Failing /\ (GoOn \/ broken = {}) /\ (GoOn \/ Invalid = {})
      /\ \A e \in Envs \ left : Complete(e)
      /\ LeftInv
  BY <1>1 DEF IInv, NextInv, PassedInv
<1>3. Turns'
  <2>1. LeftInv' /\ (\A e \in Envs \ (left \cup {current}) : Complete(e))'
    BY <1>1, <1>2, SameCase DEF LeftInv
  <2>. QED
    BY <2>1, TurnsKnown, PTL
<1>4. FailuresNamed'
  <2>1. Cardinality({}) = 0
    BY FS_EmptySet
  <2>2. (Failing = {} => broken = {}) /\ (broken = {} => Failing = {})
    BY DEF Failing
  <2>3. /\ \A x \in caches' : x[1] = current'
        /\ ~GoOn' => Cardinality(Failing') <= 1 /\ Invalid' = {}
    <3>1. caches' = {} /\ Failing' = Failing /\ Invalid' = Invalid /\ (GoOn' <=> GoOn)
      BY <1>1, <1>2, SameCase
    <3>2. ~GoOn => Cardinality(Failing) = 0 /\ Invalid = {}
      BY <1>2, <2>1, <2>2
    <3>. QED
      BY <3>1, <3>2
  <2>4. CASE errors = {}
    <3>0. Invalid = {} /\ Failing = {}
      BY <1>2, <2>4
    <3>1. outcome'.kind = "deployed" /\ broken' = {} /\ Invalid' = {} /\ left' = {}
      BY <1>1, <2>2, <2>4, <3>0, SameCase
    <3>2. ~GoOn' => Cardinality(Failing') <= 1 /\ (touched' # {} => Invalid' = {})
      BY <2>3
    <3>. QED
      BY <1>3, <2>3, <3>1, <3>2 DEF FailuresNamed, Turns, Invalid
  <2>5. CASE errors # {}
    <3>1. outcome'.kind = "failed" /\ outcome'.envs = Failing' \cup Invalid' /\ left' = {}
      BY <1>1, <1>2, <2>5, SameCase
    <3>. QED
      BY <1>3, <2>3, <3>1 DEF FailuresNamed, Turns, Invalid
  <2>. QED
    BY <2>4, <2>5
<1>. QED
  BY <1>1, <1>2, <1>4, SameCase DEF IInv, CheckInv, PassedInv, LeftInv, NextInv, CurrentInv, EndInv, Checking

LEMMA Step == IInv /\ [Next]_vars => IInv'
<1>. SUFFICES ASSUME IInv, [Next]_vars PROVE IInv'
  OBVIOUS
<1>1. CASE LoadManifest \/ VerifyAuthentication \/ LoadProjects \/ ValidateWithEnvironments
           \/ ValidateCredentials \/ CreateClients
  BY <1>1, CheckStep
<1>2. CASE Validate \/ Sort
  BY <1>2, ValidateStep
<1>3. CASE \E e \in left : Begin(e)
  BY <1>3, BeginStep
<1>4. CASE (\E t \in loading : Cached(t)) \/ Preloaded
  BY <1>4, PreloadStep
<1>5. CASE \E c \in case.configs : DeployConfig(c)
  BY <1>5, ConfigStep
<1>6. CASE Finish
  BY <1>6, FinishStep
<1>7. CASE End
  BY <1>7, EndStep
<1>8. CASE UNCHANGED vars
  <2>1. FailuresNamed' <=> FailuresNamed
    BY <1>8, SameCase DEF vars, FailuresNamed
  <2>. QED
    BY <1>8, <2>1, SameCase DEF vars, IInv, CheckInv, PassedInv, LeftInv, NextInv, CurrentInv, EndInv
<1>. QED
  BY <1>1, <1>2, <1>3, <1>4, <1>5, <1>6, <1>7, <1>8 DEF Next, Done

\* The inductive invariant of a deployment over all environments.
THEOREM Invariance == Spec => []IInv
  BY InitInv, Step, PTL DEF Spec

-----------------------------------------------------------------------------
\* The case is one of those considered.
LEMMA CaseStays == Spec => [](case \in Cases)
<1>1. Init => case \in Cases
  BY DEF Init
<1>2. case \in Cases /\ [Next]_vars => (case \in Cases)'
  BY DEF Next, vars, LoadManifest, VerifyAuthentication, LoadProjects, ValidateWithEnvironments, Quiet,
         ValidateCredentials, CreateClients, Validate, Sort, Begin, Cached, Preloaded, DeployConfig, Finish,
         End, Done
<1>. QED
  BY <1>1, <1>2, PTL DEF Spec

\* What a configuration is allowed with is what its client is made from.
LEMMA ClientForAllowed ==
    ASSUME NEW c \in Configs, c.env \in Envs, c.type \in Types, Allowed(c)
    PROVE  ClientsFor(c.type) \cap CreateClientSet(c.env) # {}
<1>1. CASE case.dryRun
  BY <1>1 DEF CreateClientSet, ClientsFor, Types
<1>2. CASE ~case.dryRun
  <2>1. CASE c.type \in {"classic", "settings", "permitted settings"}
    BY <1>2, <2>1 DEF CreateClientSet, ClientsFor, Allowed
  <2>2. CASE c.type \notin {"classic", "settings", "permitted settings"}
    BY <1>2, <2>2 DEF CreateClientSet, ClientsFor, Allowed, Types
  <2>. QED
    BY <2>1, <2>2
<1>. QED
  BY <1>1, <1>2

\* No deployer is given a configuration without a client that can write it, for
\* any credentials and any configurations of types there is a deployer for:
\* what the checks ask for is what the clients are made from
\* (validateAuthenticationWithProjectConfigs, CreateClientSetWithOptions).
THEOREM AlwaysAClient == TypesKnown => (Spec => []NoMissingClient)
<1>. SUFFICES ASSUME TypesKnown PROVE Spec => []NoMissingClient
  OBVIOUS
<1>1. IInv /\ case \in Cases => NoMissingClient
  <2>. SUFFICES ASSUME IInv, case \in Cases, step = "deploy", NEW c \in In(current)
               PROVE  ClientsFor(c.type) \cap clients[current] # {}
    BY DEF NoMissingClient
  <2>1. /\ c \in Configs /\ c.env = current /\ current \in Envs
        /\ clients[current] = CreateClientSet(current) /\ Allowed(c)
    BY DEF IInv, PassedInv, CurrentInv, AllAllowed, AllClients, In
  <2>2. c.type \in Types
    BY <2>1 DEF TypesKnown, Configs
  <2>. QED
    BY <2>1, <2>2, ClientForAllowed
<1>. QED
  BY <1>1, Invariance, CaseStays, PTL

\* What a deployment returns names exactly the environments that are invalid or
\* have failed.  Without an error, and whenever it is to go on, every environment
\* has had its turn, and there exactly what refers to deployed configurations only
\* was deployed or failed itself: the rest is below a failed or skipped one.  Before
\* all checks have passed nothing was, and only a deployment that is to go on goes
\* on after a failure (deployConfigs, DeployForAllEnvironments, deployGraph).
THEOREM FailuresAlwaysNamed == Spec => []FailuresNamed
<1>1. IInv => FailuresNamed
  <2>. SUFFICES ASSUME IInv PROVE FailuresNamed
    OBVIOUS
  <2>0. /\ Cardinality({}) = 0 /\ Cardinality({current}) = 1
        /\ broken = {} => Failing = {}
        /\ Failing \subseteq {current} => Failing = {} \/ Failing = {current}
    BY FS_EmptySet, FS_Singleton DEF Failing
  <2>1. CASE step \in Checking
    <3>1. outcome = Nil /\ caches = {} /\ touched = {} /\ broken = {} /\ left = Envs
      BY <2>1 DEF IInv, CheckInv
    <3>. QED
      BY <2>0, <3>1, Untouched DEF FailuresNamed, Turns
  <2>2. CASE step = "next"
    <3>1. /\ outcome = Nil /\ caches = {} /\ (GoOn \/ broken = {}) /\ (GoOn \/ Invalid = {})
          /\ Turns
      BY <2>2, TurnsKnown DEF IInv, NextInv, PassedInv
    <3>. QED
      BY <2>0, <3>1 DEF FailuresNamed, Turns, Invalid
  <2>3. CASE step \in {"preload", "deploy"}
    <3>1. /\ outcome = Nil /\ (GoOn \/ Failing \subseteq {current}) /\ (GoOn \/ Invalid = {})
          /\ \A x \in caches : x[1] = current
          /\ Turns
      BY <2>3, TurnsKnown DEF IInv, CurrentInv, PassedInv
    <3>2. ~GoOn => Cardinality(Failing) <= 1
      BY <2>0, <3>1
    <3>. QED
      BY <3>1, <3>2 DEF FailuresNamed, Turns, Invalid
  <2>4. CASE step = "end"
    BY <2>4 DEF IInv, EndInv
  <2>. QED
    BY <2>1, <2>2, <2>3, <2>4 DEF IInv
<1>. QED
  BY <1>1, Invariance, PTL

-----------------------------------------------------------------------------
(* The checks: the inductive invariant.                                    *)

\* The configurations that were seen.
Seen(i, n) == i < atProject \/ (i = atProject /\ n \notin unseen)
SeenOnes   == {c \in All : \E i \in DOMAIN given : \E n \in DOMAIN ConfigsOf(i) : c = ConfigsOf(i)[n] /\ Seen(i, n)}

Refused == {e[2] : e \in refusals}
Wrong(c) == Misplaced(c) \/ \E d \in All : Clash(c, d)

PlaceInv ==
    /\ given \in ProjectLists
    /\ atProject \in 0..Len(given)
    /\ atProject = 0 => unseen = {}
    /\ atProject # 0 => unseen \subseteq DOMAIN ConfigsOf(atProject)

\* What was accepted has names of its own.
AcceptedInv ==
    /\ uniqueNames \subseteq SeenOnes
    /\ \A c \in uniqueNames : HasUniqueName(c)
    /\ \A c, d \in uniqueNames : ~Clash(c, d)

\* Who is refused is wrong, and who is wrong and seen is refused, or clashes with one that is.
RefusalInv ==
    /\ \A x \in Refused : \E c \in SeenOnes : x = c.env /\ Wrong(c)
    /\ \A c \in SeenOnes :
          /\ Misplaced(c) => c.env \in Refused
          /\ HasUniqueName(c) => c \in uniqueNames \/ c.env \in Refused

AnswerInv ==
    accepted # None =>
        /\ atProject = Len(given) /\ unseen = {}
        /\ accepted = "no" <=> refusals # {}

CheckedInv == PlaceInv /\ AcceptedInv /\ RefusalInv /\ AnswerInv

-----------------------------------------------------------------------------
LEMMA ClashSymmetric ==
  ASSUME NEW c, NEW d, Clash(c, d)
  PROVE  Clash(d, c)
BY DEF Clash, DuplicateNames, SameUnresolved

\* Settings are looked for in the project their coordinate names: all others
\* have none of that coordinate.
LEMMA WrongIsMisplaced ==
  ASSUME given \in ProjectLists, NEW c
  PROVE  InsertAfterWrong(c) <=> Misplaced(c)
<1>1. GetConfigFor(c.env, c.after) = {d \in All : d.coord = c.after /\ d.env = c.env}
  <2>1. ASSUME NEW i \in DOMAIN given, NEW d \in Members(i), d.coord = c.after
        PROVE  given[i].id = c.after.project
    BY <2>1, ProjectsAssumption DEF Members, ConfigsOf
  <2>2. QED
    BY <2>1 DEF GetConfigFor, All
<1>2. QED
  BY <1>1 DEF InsertAfterWrong, Misplaced

\* Validating a configuration is seeing it.
LEMMA SeesOne ==
  ASSUME PlaceInv, NEW n \in unseen, ValidateConfig(n)
  PROVE  /\ ConfigsOf(atProject)[n] \in All
         /\ ConfigsOf(atProject)[n] \notin SeenOnes
         /\ SeenOnes' = SeenOnes \cup {ConfigsOf(atProject)[n]}
<1>0. /\ atProject \in DOMAIN given /\ n \in DOMAIN ConfigsOf(atProject)
      /\ DOMAIN given = 1..Len(given) /\ Len(given) \in Nat
  BY ProjectsAssumption DEF PlaceInv
<1>1. DEFINE c == ConfigsOf(atProject)[n]
<1>2. c \in All
  BY <1>0 DEF All, Members
<1>3. ASSUME NEW i \in DOMAIN given, NEW m \in DOMAIN ConfigsOf(i), c = ConfigsOf(i)[m]
      PROVE  i = atProject /\ m = n
  BY <1>0, <1>3, ProjectsAssumption DEF PlaceInv, ConfigsOf
<1>4. c \notin SeenOnes
  <2>1. SUFFICES ASSUME c \in SeenOnes PROVE FALSE
    OBVIOUS
  <2>2. PICK i \in DOMAIN given : \E m \in DOMAIN ConfigsOf(i) : c = ConfigsOf(i)[m] /\ Seen(i, m)
    BY <2>1 DEF SeenOnes
  <2>3. PICK m \in DOMAIN ConfigsOf(i) : c = ConfigsOf(i)[m] /\ Seen(i, m)
    BY <2>2
  <2>4. i = atProject /\ m = n
    BY <1>3, <2>3
  <2>5. QED
    BY <1>0, <2>3, <2>4 DEF Seen
<1>5. given' = given /\ atProject' = atProject /\ unseen' = unseen \ {n}
  BY DEF ValidateConfig
<1>6. All' = All
  BY <1>5 DEF All, Members, ConfigsOf
<1>7. ASSUME NEW d \in All, NEW i \in DOMAIN given, NEW m \in DOMAIN ConfigsOf(i), d = ConfigsOf(i)[m]
      PROVE  Seen(i, m)' <=> (Seen(i, m) \/ d = c)
  <2>1. d = c => i = atProject /\ m = n
    BY <1>3, <1>7
  <2>2. i = atProject /\ m = n => d = c
    BY <1>7
  <2>3. QED
    BY <1>0, <1>5, <2>1, <2>2 DEF Seen
<1>8. SeenOnes' = SeenOnes \cup {c}
  <2>1. SeenOnes' = {d \in All : \E i \in DOMAIN given : \E m \in DOMAIN ConfigsOf(i) : d = ConfigsOf(i)[m] /\ Seen(i, m)'}
    BY <1>5, <1>6 DEF SeenOnes, ConfigsOf
  <2>2. ASSUME NEW d \in All
        PROVE  (\E i \in DOMAIN given : \E m \in DOMAIN ConfigsOf(i) : d = ConfigsOf(i)[m] /\ Seen(i, m)')
               <=> (d = c \/ \E i \in DOMAIN given : \E m \in DOMAIN ConfigsOf(i) : d = ConfigsOf(i)[m] /\ Seen(i, m))
    BY <1>0, <1>7
  <2>3. QED
    BY <1>2, <2>1, <2>2 DEF SeenOnes
<1>9. QED
  BY <1>2, <1>4, <1>8

LEMMA SameInput ==
  ASSUME given' = given
  PROVE  /\ All' = All
         /\ \A c : Misplaced(c)' <=> Misplaced(c)
         /\ \A c : Wrong(c)' <=> Wrong(c)
<1>1. All' = All
  BY DEF All, Members, ConfigsOf
<1>2. QED
  BY <1>1 DEF Misplaced, Wrong, Clash

LEMMA SecondOf ==
  ASSUME NEW x, NEW y, NEW z
  PROVE  {e[2] : e \in {<<x, y, z>>}} = {y}
<1>1. <<x, y, z>>[2] = y
  OBVIOUS
<1>2. \A e \in {<<x, y, z>>} : e[2] = y
  BY <1>1
<1>3. QED
  BY <1>2

LEMMA ValidateKeeps ==
  ASSUME CheckedInv, NEW n \in unseen, ValidateConfig(n)
  PROVE  CheckedInv'
<1>1. PICK c : c = ConfigsOf(atProject)[n]
  OBVIOUS
<1>2. /\ given' = given /\ atProject' = atProject /\ accepted' = accepted /\ unseen' = unseen \ {n}
      /\ refusals' = refusals \cup (IF NameClash(c) THEN {<<c, c.env, "name">>} ELSE {})
                              \cup (IF InsertAfterWrong(c) THEN {<<c, c.env, "insertAfter">>} ELSE {})
      /\ uniqueNames' = IF HasUniqueName(c) /\ ~NameClash(c) THEN uniqueNames \cup {c} ELSE uniqueNames
  BY <1>1 DEF ValidateConfig
<1>3. c \in All /\ c \notin SeenOnes /\ SeenOnes' = SeenOnes \cup {c}
  BY <1>1, SeesOne DEF CheckedInv
<1>4. given \in ProjectLists /\ SeenOnes \subseteq All
  BY DEF CheckedInv, PlaceInv, SeenOnes
<1>5. InsertAfterWrong(c) <=> Misplaced(c)
  BY <1>4, WrongIsMisplaced
<1>6. NameClash(c) <=> \E d \in uniqueNames : Clash(c, d)
  <2>1. \A d \in uniqueNames : HasUniqueName(d) /\ c # d
    BY <1>3 DEF CheckedInv, AcceptedInv
  <2>2. QED
    BY <2>1 DEF NameClash, Comparable, Clash
<1>7. Refused' = Refused \cup (IF NameClash(c) \/ Misplaced(c) THEN {c.env} ELSE {})
  <2>1. PICK names, places : /\ names = (IF NameClash(c) THEN {<<c, c.env, "name">>} ELSE {})
                             /\ places = (IF InsertAfterWrong(c) THEN {<<c, c.env, "insertAfter">>} ELSE {})
    OBVIOUS
  <2>2. refusals' = refusals \cup names \cup places
    BY <1>2, <2>1
  <2>3. {e[2] : e \in names} = IF NameClash(c) THEN {c.env} ELSE {}
    BY <2>1, SecondOf
  <2>4. {e[2] : e \in places} = IF Misplaced(c) THEN {c.env} ELSE {}
    BY <1>5, <2>1, SecondOf
  <2>5. Refused' = Refused \cup {e[2] : e \in names} \cup {e[2] : e \in places}
    BY <2>2 DEF Refused
  <2>6. QED
    BY <2>3, <2>4, <2>5
<1>8. PlaceInv'
  BY <1>2 DEF CheckedInv, PlaceInv, ConfigsOf
<1>9. AcceptedInv'
  <2>1. uniqueNames' \subseteq SeenOnes' /\ \A d \in uniqueNames' : HasUniqueName(d)
    BY <1>2, <1>3 DEF CheckedInv, AcceptedInv
  <2>2. \A d, e \in uniqueNames' : ~Clash(d, e)
    <3>1. ASSUME NEW d \in uniqueNames, NEW e \in uniqueNames PROVE ~Clash(d, e)
      BY DEF CheckedInv, AcceptedInv
    <3>2. ~Clash(c, c)
      BY DEF Clash
    <3>3. CASE HasUniqueName(c) /\ ~NameClash(c)
      BY <1>2, <1>6, <3>1, <3>2, <3>3, ClashSymmetric
    <3>4. QED
      BY <1>2, <3>1, <3>3
  <2>3. QED
    BY <2>1, <2>2 DEF AcceptedInv, Clash, HasUniqueName
<1>10. RefusalInv'
  <2>1. NameClash(c) => \E d \in All : Clash(c, d)
    BY <1>4, <1>6 DEF CheckedInv, AcceptedInv
  <2>2. \A x \in Refused' : \E d \in SeenOnes' : x = d.env /\ Wrong(d)
    BY <1>3, <1>7, <2>1 DEF CheckedInv, RefusalInv, Wrong
  <2>3. ASSUME NEW d \in SeenOnes'
        PROVE  /\ Misplaced(d) => d.env \in Refused'
               /\ HasUniqueName(d) => d \in uniqueNames' \/ d.env \in Refused'
    <3>1. CASE d \in SeenOnes
      BY <1>2, <1>7, <3>1 DEF CheckedInv, RefusalInv
    <3>2. CASE d = c
      BY <1>2, <1>7, <3>2
    <3>3. QED
      BY <1>3, <3>1, <3>2
  <2>4. QED
    BY <1>2, <2>2, <2>3, SameInput DEF RefusalInv, HasUniqueName
<1>11. AnswerInv'
  BY <1>2 DEF CheckedInv, AnswerInv
<1>12. QED
  BY <1>8, <1>9, <1>10, <1>11 DEF CheckedInv

LEMMA NextProjectKeeps ==
  ASSUME CheckedInv, NextProject
  PROVE  CheckedInv'
<1>1. /\ given' = given /\ atProject' = atProject + 1 /\ unseen' = DOMAIN ConfigsOf(atProject + 1)
      /\ unseen = {} /\ atProject < Len(given)
      /\ UNCHANGED <<uniqueNames, refusals, accepted>>
  BY DEF NextProject
<1>2. /\ given \in ProjectLists /\ atProject \in 0..Len(given)
      /\ DOMAIN given = 1..Len(given) /\ Len(given) \in Nat
  BY ProjectsAssumption DEF CheckedInv, PlaceInv
<1>3. SeenOnes' = SeenOnes
  <2>1. All' = All
    BY <1>1, SameInput
  <2>2. ASSUME NEW i \in DOMAIN given, NEW n \in DOMAIN ConfigsOf(i)
        PROVE  Seen(i, n)' <=> Seen(i, n)
    BY <1>1, <1>2 DEF Seen
  <2>3. SeenOnes' = {c \in All : \E i \in DOMAIN given : \E n \in DOMAIN ConfigsOf(i) : c = ConfigsOf(i)[n] /\ Seen(i, n)'}
    BY <1>1, <2>1 DEF SeenOnes, ConfigsOf
  <2>4. QED
    BY <2>2, <2>3 DEF SeenOnes
<1>4. PlaceInv'
  BY <1>1, <1>2 DEF PlaceInv, ConfigsOf
<1>5. AcceptedInv'
  BY <1>1, <1>3 DEF CheckedInv, AcceptedInv, Clash
<1>6. RefusalInv'
  BY <1>1, <1>3, SameInput DEF CheckedInv, RefusalInv, Refused
<1>7. AnswerInv'
  BY <1>1, <1>2 DEF CheckedInv, AnswerInv
<1>8. QED
  BY <1>4, <1>5, <1>6, <1>7 DEF CheckedInv

LEMMA RestKeeps ==
  ASSUME CheckedInv, UNCHANGED <<given, atProject, unseen, uniqueNames, refusals>>, AnswerInv'
  PROVE  CheckedInv'
<1>1. SeenOnes' = SeenOnes
  BY DEF SeenOnes, Seen, All, Members, ConfigsOf
<1>2. PlaceInv' /\ AcceptedInv'
  BY <1>1 DEF CheckedInv, PlaceInv, AcceptedInv, ConfigsOf, Clash
<1>3. RefusalInv'
  BY <1>1, SameInput DEF CheckedInv, RefusalInv, Refused
<1>4. QED
  BY <1>2, <1>3 DEF CheckedInv

-----------------------------------------------------------------------------
\* The inductive invariant of the checks, for any projects: who was accepted
\* clashes with no other, who was seen and is wrong is in an environment that
\* is named (validate and the validators).
THEOREM CheckInvariance == CheckSpec => []CheckedInv
<1>1. CheckInit => CheckedInv
  <2>. SUFFICES ASSUME CheckInit PROVE CheckedInv
    OBVIOUS
  <2>1. given \in ProjectLists /\ DOMAIN given = 1..Len(given) /\ Len(given) \in Nat
    BY ProjectsAssumption DEF CheckInit
  <2>2. SeenOnes = {}
    BY <2>1 DEF CheckInit, SeenOnes, Seen
  <2>3. QED
    BY <2>1, <2>2 DEF CheckInit, CheckedInv, PlaceInv, AcceptedInv, RefusalInv, Refused, AnswerInv
<1>2. CheckedInv /\ [CheckNext]_checkVars => CheckedInv'
  <2>. SUFFICES ASSUME CheckedInv, [CheckNext]_checkVars PROVE CheckedInv'
    OBVIOUS
  <2>1. CASE \E n \in unseen : ValidateConfig(n)
    BY <2>1, ValidateKeeps
  <2>2. CASE NextProject
    BY <2>2, NextProjectKeeps
  <2>3. CASE Answer
    <3>1. AnswerInv'
      BY <2>3 DEF Answer, AnswerInv
    <3>2. QED
      BY <2>3, <3>1, RestKeeps DEF Answer
  <2>4. CASE UNCHANGED checkVars
    <3>1. AnswerInv'
      BY <2>4 DEF checkVars, CheckedInv, AnswerInv
    <3>2. QED
      BY <2>4, <3>1, RestKeeps DEF checkVars
  <2>5. QED
    BY <2>1, <2>2, <2>3, <2>4 DEF CheckNext, Answered
<1>3. QED
  BY <1>1, <1>2, PTL DEF CheckSpec

\* In whatever order configurations are seen, a deployment is refused exactly
\* if one of them is wrong, and all environments in which one is are named
\* (Validate of validate.go and the validators).
THEOREM AlwaysRefusedExactly == CheckSpec => []RefusedExactly
<1>1. CheckedInv => RefusedExactly
  <2>. SUFFICES ASSUME CheckedInv, accepted # None
                PROVE  /\ accepted = "no" <=> refusals # {}
                       /\ Refused = {c.env : c \in {x \in All : Wrong(x)}}
    BY DEF RefusedExactly, Refused, Wrong
  <2>1. atProject = Len(given) /\ unseen = {} /\ (accepted = "no" <=> refusals # {})
    BY DEF CheckedInv, AnswerInv
  <2>2. All = SeenOnes
    <3>1. DOMAIN given = 1..Len(given) /\ Len(given) \in Nat
      BY ProjectsAssumption DEF CheckedInv, PlaceInv
    <3>2. QED
      BY <2>1, <3>1 DEF SeenOnes, Seen, All, Members
  <2>3. ASSUME NEW c \in All, Wrong(c) PROVE c.env \in Refused
    <3>1. CASE Misplaced(c)
      BY <2>2, <3>1 DEF CheckedInv, RefusalInv
    <3>2. CASE \E d \in All : Clash(c, d)
      <4>1. PICK d \in All : Clash(c, d)
        BY <3>2
      <4>2. HasUniqueName(c) /\ HasUniqueName(d) /\ c.env = d.env
        BY <4>1 DEF Clash
      <4>3. ~(c \in uniqueNames /\ d \in uniqueNames)
        BY <4>1 DEF CheckedInv, AcceptedInv
      <4>4. QED
        BY <2>2, <4>2, <4>3 DEF CheckedInv, RefusalInv
    <3>3. QED
      BY <2>3, <3>1, <3>2 DEF Wrong
  <2>4. QED
    BY <2>1, <2>2, <2>3 DEF CheckedInv, RefusalInv
<1>2. QED
  BY <1>1, CheckInvariance, PTL

-----------------------------------------------------------------------------
(* The projects that are loaded.                                           *)

\* What may be in the queue, and why.
Known  == Defined \cup UNION {Mentions(p) : p \in Defined}
Needed == Requested \cup UNION {Refers(id) : id \in Ids}
Noted  == Elements(toLoad) \cup seenNames

LoaderTypes ==
    /\ request \in Requests
    /\ asked \in Seq(STRING)
    /\ toLoad \in Seq(Known)
    /\ loadErrs \in BOOLEAN
    /\ loadedProjects \in Seq({Project(p) : p \in Defined})

\* Nothing needed is forgotten.
CoverInv ==
    /\ request.requested = <<>> => Defined \subseteq Noted
    /\ \A n \in Elements(request.requested) \ Elements(asked) : Matching(n) \subseteq Noted
    /\ \A id \in Ids : Refers(id) \subseteq Noted

\* What was taken from the queue and exists is loaded, or there is an error.
FailInv ==
    ~loadErrs => /\ seenNames \cap Defined \subseteq Ids
                 /\ \A n \in Elements(request.requested) \ Elements(asked) : Matching(n) # {}

\* Nothing else is looked at.
NeedInv ==
    /\ Elements(asked) \subseteq Elements(request.requested)
    /\ Elements(toLoad) \cap Defined \subseteq Needed
    /\ \A i \in DOMAIN loadedProjects :
          loadedProjects[i].id \in Requested \cup UNION {Refers(loadedProjects[j].id) : j \in 1..(i - 1)}

Reason ==
    \/ Defined = {}
    \/ \E n \in Elements(request.requested) : Matching(n) = {}
    \/ \E name \in Needed : Broken(name)

OnceInv ==
    /\ Ids \subseteq seenNames
    /\ \A i \in DOMAIN loadedProjects : \A j \in 1..(i - 1) : loadedProjects[j].id # loadedProjects[i].id

ReturnInv ==
    /\ returned \in {Absent, "loaded", "failed"}
    /\ returned = "loaded" => asked = <<>> /\ toLoad = <<>> /\ ~loadErrs
    /\ returned = "failed" => loadErrs

LoaderInv ==
    /\ LoaderTypes /\ CoverInv /\ FailInv /\ NeedInv /\ (loadErrs => Reason) /\ OnceInv /\ ReturnInv

-----------------------------------------------------------------------------
LEMMA FirstElement ==
    ASSUME NEW S, NEW s \in Seq(S), s # <<>>
    PROVE  /\ Head(s) \in S /\ Tail(s) \in Seq(S)
           /\ Elements(s) = {Head(s)} \cup Elements(Tail(s))
<1>1. Head(s) \in S /\ Tail(s) \in Seq(S) /\ Len(Tail(s)) = Len(s) - 1
      /\ Len(s) \in Nat \ {0} /\ Head(s) = s[1] /\ DOMAIN s = 1..Len(s) /\ DOMAIN Tail(s) = 1..Len(Tail(s))
  OBVIOUS
<1>2. \A i \in DOMAIN Tail(s) : Tail(s)[i] = s[i + 1]
  BY <1>1
<1>3. ASSUME NEW i \in DOMAIN s PROVE i = 1 \/ (i - 1 \in DOMAIN Tail(s) /\ s[i] = Tail(s)[i - 1])
  BY <1>1, <1>2
<1>4. \A i \in DOMAIN Tail(s) : i + 1 \in DOMAIN s
  BY <1>1
<1>5. 1 \in DOMAIN s
  BY <1>1
<1>6. Elements(s) \subseteq {Head(s)} \cup Elements(Tail(s))
  <2>1. ASSUME NEW i \in DOMAIN s PROVE s[i] = Head(s) \/ \E k \in DOMAIN Tail(s) : s[i] = Tail(s)[k]
    BY <1>1, <1>3
  <2>2. QED
    BY <2>1 DEF Elements
<1>7. {Head(s)} \cup Elements(Tail(s)) \subseteq Elements(s)
  BY <1>1, <1>2, <1>4, <1>5 DEF Elements
<1>8. QED
  BY <1>1, <1>6, <1>7

LEMMA AddedElements ==
    ASSUME NEW S, NEW s \in Seq(S), NEW t \in Seq(S)
    PROVE  s \o t \in Seq(S) /\ Elements(s \o t) = Elements(s) \cup Elements(t)
<1>1. /\ s \o t \in Seq(S) /\ DOMAIN s = 1..Len(s) /\ DOMAIN t = 1..Len(t)
      /\ DOMAIN (s \o t) = 1..(Len(s) + Len(t)) /\ Len(s) \in Nat /\ Len(t) \in Nat
  OBVIOUS
<1>2. \A i \in DOMAIN s : i \in DOMAIN (s \o t) /\ (s \o t)[i] = s[i]
  BY <1>1
<1>3. \A i \in DOMAIN t : Len(s) + i \in DOMAIN (s \o t) /\ (s \o t)[Len(s) + i] = t[i]
  BY <1>1
<1>4. ASSUME NEW i \in DOMAIN (s \o t)
      PROVE  i \in DOMAIN s \/ (i - Len(s) \in DOMAIN t /\ (s \o t)[i] = t[i - Len(s)])
  BY <1>1
<1>5. Elements(s \o t) \subseteq Elements(s) \cup Elements(t)
  BY <1>2, <1>4 DEF Elements
<1>6. Elements(s) \cup Elements(t) \subseteq Elements(s \o t)
  BY <1>2, <1>3 DEF Elements
<1>7. QED
  BY <1>1, <1>5, <1>6

LEMMA OrdersAre ==
    ASSUME NEW S, IsFiniteSet(S), NEW order \in Orders(S)
    PROVE  order \in Seq(S) /\ Elements(order) = S
<1>1. Cardinality(S) \in Nat
  BY FS_CardinalityType
<1>2. QED
  BY <1>1 DEF Orders

\* The dependencies of a project are what its configurations mention, but itself.
LEMMA DependenciesAre ==
    ASSUME request \in Requests, NEW p \in Defined
    PROVE  LET deps == UNION {Project(p).deps[e] : e \in Selected}
           IN  /\ Project(p).id = p
               /\ deps \subseteq Mentions(p) /\ Mentions(p) \subseteq deps \cup {p}
               /\ IsFiniteSet(deps)
<1>. DEFINE R == Read(p).configs
            I == InsertNetworkZoneParameter(R)
            M == MarkDuplicates(I)
            deps == UNION {Project(p).deps[e] : e \in Selected}
<1>1. /\ IsFiniteSet(ReferredTo(Written(Projects[p])))
      /\ \A c \in Written(Projects[p]) : DOMAIN c = ConfigFields /\ c.coord.project = p
      /\ \A file \in Elements(Projects[p].files) :
            file.kind \notin {"configs", "partial"} => Elements(file.configs) = {}
  BY RequestsAssumption DEF Defined, Projects
<1>2. Elements(R) = Written(Projects[p])
  <2>. DEFINE files == Projects[p].files
              places == UNION {{<<i, k>> : k \in DOMAIN LoadConfigFile(files[i]).configs} : i \in DOMAIN files}
  <2>1. R = [x \in places |-> files[x[1]].configs[x[2]]]
    BY DEF Read, LoadConfigsOfProject
  <2>2. ASSUME NEW i \in DOMAIN files PROVE DOMAIN LoadConfigFile(files[i]).configs = DOMAIN files[i].configs
    <3>1. files[i] \in Elements(files)
      BY DEF Elements
    <3>2. CASE files[i].kind \in {"configs", "partial"}
      BY <3>2 DEF LoadConfigFile
    <3>3. CASE files[i].kind \notin {"configs", "partial"}
      <4>1. LoadConfigFile(files[i]).configs = <<>>
        BY <3>3 DEF LoadConfigFile
      <4>2. DOMAIN files[i].configs = {}
        BY <1>1, <3>1, <3>3 DEF Elements
      <4>3. DOMAIN << >> = {}
        OBVIOUS
      <4>4. QED
        BY <4>1, <4>2, <4>3
    <3>4. QED
      BY <3>2, <3>3
  <2>3. ASSUME NEW x \in places PROVE files[x[1]].configs[x[2]] \in Written(Projects[p])
    <3>1. PICK i \in DOMAIN files : \E k \in DOMAIN LoadConfigFile(files[i]).configs : x = <<i, k>>
      OBVIOUS
    <3>2. PICK k \in DOMAIN LoadConfigFile(files[i]).configs : x = <<i, k>>
      BY <3>1
    <3>3. x[1] = i /\ x[2] = k /\ k \in DOMAIN files[i].configs
      BY <3>2, <2>2
    <3>4. QED
      BY <3>3 DEF Written, Elements
  <2>4. ASSUME NEW c \in Written(Projects[p]) PROVE \E x \in places : c = files[x[1]].configs[x[2]]
    <3>1. PICK i \in DOMAIN files : c \in Elements(files[i].configs)
      BY DEF Written, Elements
    <3>2. PICK k \in DOMAIN files[i].configs : c = files[i].configs[k]
      BY <3>1 DEF Elements
    <3>3. <<i, k>> \in places
      BY <3>2, <2>2
    <3>4. <<i, k>>[1] = i /\ <<i, k>>[2] = k
      OBVIOUS
    <3>5. QED
      BY <3>2, <3>3, <3>4
  <2>. HIDE DEF places
  <2>5. DOMAIN R = places /\ \A x \in places : R[x] = files[x[1]].configs[x[2]]
    BY <2>1
  <2>6. QED
    BY <2>3, <2>4, <2>5 DEF Elements
<1>3. DOMAIN I = DOMAIN R /\ DOMAIN M = DOMAIN R
  BY DEF InsertNetworkZoneParameter, MarkDuplicates
<1>4. ASSUME NEW x \in DOMAIN R
      PROVE  /\ R[x] \in Written(Projects[p])
             /\ M[x].env = R[x].env /\ M[x].skip = R[x].skip
             /\ R[x].refs \subseteq M[x].refs
             /\ \A r \in M[x].refs : r \in R[x].refs \/ r.project = p
  <2>1. \A y \in DOMAIN R : R[y] \in Written(Projects[p])
    BY <1>2 DEF Elements
  <2>2. DOMAIN R[x] = ConfigFields /\ \A y \in DOMAIN R : R[y].coord.project = p
    BY <1>1, <2>1
  <2>. DEFINE enabling == {y \in DOMAIN R : R[y].coord.type = "builtin:networkzones"}
              enabled == {R[y].coord : y \in {z \in enabling : ~\E w \in enabling : Precedes(z, w)}}
  <2>3. I[x] = IF R[x].coord.type = "networkzone" THEN [R[x] EXCEPT !.refs = @ \cup enabled] ELSE R[x]
    BY DEF InsertNetworkZoneParameter
  <2>4. \A r \in enabled : r.project = p
    BY <2>2
  <2>. HIDE DEF enabled, I
  <2>5. /\ DOMAIN I[x] = ConfigFields /\ I[x].env = R[x].env /\ I[x].skip = R[x].skip
        /\ (I[x].refs = R[x].refs \/ I[x].refs = R[x].refs \cup enabled)
    BY <2>2, <2>3 DEF ConfigFields
  <2>6. \E b : M[x] = [I[x] EXCEPT !.marked = b]
    BY <1>3 DEF MarkDuplicates
  <2>7. M[x].env = I[x].env /\ M[x].skip = I[x].skip /\ M[x].refs = I[x].refs
    BY <2>5, <2>6 DEF ConfigFields
  <2>8. QED
    BY <2>1, <2>4, <2>5, <2>7
<1>5. Project(p) = [id |-> p, configs |-> M, deps |-> [e \in Selected |-> DependenciesOf(p, M, e)]]
  BY DEF Project
<1>. HIDE DEF R, I, M
<1>6. deps = UNION {DependenciesOf(p, M, e) : e \in Selected}
  BY <1>5
<1>7. deps \subseteq Mentions(p)
  <2>. SUFFICES ASSUME NEW e \in Selected, NEW q \in DependenciesOf(p, M, e) PROVE q \in Mentions(p)
    BY <1>6
  <2>1. PICK x \in DOMAIN M : \E r \in M[x].refs : q = r.project /\ q # p /\ M[x].env = e /\ ~M[x].skip
    BY DEF DependenciesOf, ReferredTo, Elements
  <2>2. PICK r \in M[x].refs : q = r.project
    BY <2>1
  <2>3. /\ R[x] \in Written(Projects[p]) /\ R[x].env \in Selected /\ ~R[x].skip /\ r \in R[x].refs
    BY <1>3, <1>4, <2>1, <2>2
  <2>4. QED
    BY <2>2, <2>3 DEF Mentions, ReferredTo
<1>8. Mentions(p) \subseteq deps \cup {p}
  <2>. SUFFICES ASSUME NEW q \in Mentions(p), q # p PROVE \E e \in Selected : q \in DependenciesOf(p, M, e)
    BY <1>6
  <2>1. PICK c \in Written(Projects[p]) : c.env \in Selected /\ ~c.skip /\ \E r \in c.refs : q = r.project
    BY DEF Mentions, ReferredTo
  <2>2. PICK x \in DOMAIN R : c = R[x]
    BY <1>2 DEF Elements
  <2>3. x \in DOMAIN M /\ M[x].env = c.env /\ ~M[x].skip /\ c.refs \subseteq M[x].refs
    BY <1>3, <1>4, <2>1, <2>2
  <2>4. M[x] \in {d \in Elements(M) : d.env = c.env /\ ~d.skip}
    BY <2>3 DEF Elements
  <2>5. q \in DependenciesOf(p, M, c.env)
    BY <2>1, <2>3, <2>4 DEF DependenciesOf, ReferredTo
  <2>6. QED
    BY <2>1, <2>5
<1>9. IsFiniteSet(deps)
  <2>1. Mentions(p) \subseteq ReferredTo(Written(Projects[p]))
    BY DEF Mentions, ReferredTo
  <2>2. QED
    BY <1>1, <1>7, <2>1, FS_Subset
<1>10. QED
  BY <1>5, <1>7, <1>8, <1>9

-----------------------------------------------------------------------------
\* What only depends on the request does not change.
LEMMA SameRequest ==
    ASSUME request' = request
    PROVE  /\ Defined' = Defined /\ Requested' = Requested /\ Known' = Known
           /\ Elements(request.requested)' = Elements(request.requested)
           /\ \A n : Matching(n)' = Matching(n) /\ Refers(n)' = Refers(n) /\ Mentions(n)' = Mentions(n)
           /\ \A n : Project(n)' = Project(n) /\ (Broken(n)' <=> Broken(n))
<1>1. Projects' = Projects /\ Defined' = Defined
  BY DEF Projects, Defined
<1>2. \A n : Read(n)' = Read(n)
  BY <1>1 DEF Read
<1>3. \A n : Project(n)' = Project(n) /\ (Broken(n)' <=> Broken(n))
  BY <1>1, <1>2 DEF Project, Broken, Faulty
<1>4. \A n : Matching(n)' = Matching(n) /\ Mentions(n)' = Mentions(n)
  BY <1>1 DEF Matching, Mentions
<1>5. Elements(request.requested)' = Elements(request.requested)
  OBVIOUS
<1>6. Requested' = Requested /\ Known' = Known /\ \A n : Refers(n)' = Refers(n)
  BY <1>1, <1>4, <1>5 DEF Requested, Known, Refers
<1>7. QED
  BY <1>1, <1>3, <1>4, <1>5, <1>6

\* Names looked up or taken from the queue leave the projects as they are.
LEMMA SameProjects ==
    ASSUME LoaderInv, request' = request, loadedProjects' = loadedProjects
    PROVE  /\ loadedProjects' \in Seq({Project(p) : p \in Defined})'
           /\ Ids' = Ids /\ Needed' = Needed
           /\ (Reason' <=> Reason)
           /\ \A i \in DOMAIN loadedProjects' : loadedProjects'[i].id
                 \in (Requested \cup UNION {Refers(loadedProjects[j].id) : j \in 1..(i - 1)})'
           /\ \A i \in DOMAIN loadedProjects' : \A j \in 1..(i - 1) :
                 loadedProjects'[j].id # loadedProjects'[i].id
<1>1. {Project(p) : p \in Defined}' = {Project(p) : p \in Defined}
  BY SameRequest
<1>2. Ids' = Ids /\ Needed' = Needed
  BY SameRequest DEF Ids, Needed
<1>3. Reason' <=> Reason
  BY SameRequest, <1>2 DEF Reason
<1>4. \A i \in DOMAIN loadedProjects : loadedProjects[i].id
         \in (Requested \cup UNION {Refers(loadedProjects[j].id) : j \in 1..(i - 1)})'
  BY SameRequest DEF LoaderInv, NeedInv
<1>5. QED
  BY <1>1, <1>2, <1>3, <1>4 DEF LoaderInv, LoaderTypes, OnceInv

LEMMA LookUpKeeps ==
    ASSUME LoaderInv, NameToLoad
    PROVE  LoaderInv'
<1>. DEFINE n == Head(asked)
<1>1. PICK order \in Orders(Matching(n)) : toLoad' = toLoad \o order
  BY DEF NameToLoad
<1>2. /\ request' = request /\ loadedProjects' = loadedProjects /\ seenNames' = seenNames
      /\ asked # <<>> /\ asked' = Tail(asked) /\ returned' = returned
      /\ loadErrs' = (loadErrs \/ Matching(n) = {})
  BY DEF NameToLoad
<1>3. asked' \in Seq(STRING) /\ Elements(asked) = {n} \cup Elements(asked')
  BY <1>2, FirstElement DEF LoaderInv, LoaderTypes
<1>4. Matching(n) \subseteq Defined /\ IsFiniteSet(Matching(n))
  <2>1. Matching(n) \subseteq Defined
    BY DEF Matching
  <2>2. IsFiniteSet(Defined)
    BY RequestsAssumption DEF LoaderInv, LoaderTypes, Defined, Projects
  <2>3. QED
    BY <2>1, <2>2, FS_Subset
<1>5. order \in Seq(Known) /\ Elements(order) = Matching(n)
  <2>1. order \in Seq(Matching(n)) /\ Elements(order) = Matching(n)
    BY <1>4, OrdersAre
  <2>2. Matching(n) \subseteq Known
    BY <1>4 DEF Known
  <2>3. QED
    BY <2>1, <2>2
<1>6. toLoad' \in Seq(Known) /\ Elements(toLoad') = Elements(toLoad) \cup Matching(n)
  BY <1>1, <1>5, AddedElements DEF LoaderInv, LoaderTypes
<1>7. LoaderTypes'
  BY <1>2, <1>3, <1>6, SameRequest, SameProjects DEF LoaderInv, LoaderTypes
<1>8. n \in Elements(request.requested) /\ Matching(n) \subseteq Requested
  <2>1. n \in Elements(request.requested)
    BY <1>3 DEF LoaderInv, NeedInv
  <2>2. request.requested # <<>>
    BY <2>1 DEF Elements
  <2>3. QED
    BY <2>1, <2>2 DEF Requested
<1>9. CoverInv'
  <2>1. Noted \subseteq Noted' /\ Matching(n) \subseteq Noted'
    BY <1>2, <1>6 DEF Noted
  <2>2. (request.requested = <<>>)' => Defined' \subseteq Noted'
    BY <1>2, <2>1, SameRequest DEF LoaderInv, CoverInv
  <2>3. \A m \in Elements(request.requested)' \ Elements(asked') : Matching(m)' \subseteq Noted'
    BY <1>2, <1>3, <2>1, SameRequest DEF LoaderInv, CoverInv
  <2>4. \A id \in Ids' : Refers(id)' \subseteq Noted'
    BY <1>2, <2>1, SameRequest, SameProjects DEF LoaderInv, CoverInv
  <2>5. QED
    BY <2>2, <2>3, <2>4 DEF CoverInv
<1>10. FailInv'
  BY <1>2, <1>3, SameRequest, SameProjects DEF LoaderInv, FailInv
<1>11. NeedInv'
  <2>1. Elements(asked') \subseteq Elements(request.requested)'
    BY <1>3, SameRequest, <1>2 DEF LoaderInv, NeedInv
  <2>2. (Elements(toLoad) \cap Defined \subseteq Needed)'
    BY <1>2, <1>6, <1>8, SameRequest, SameProjects DEF LoaderInv, NeedInv, Needed
  <2>3. QED
    BY <2>1, <2>2, <1>2, SameProjects DEF NeedInv
<1>12. (loadErrs => Reason)'
  BY <1>2, <1>8, SameProjects DEF LoaderInv, Reason
<1>13. OnceInv'
  BY <1>2, SameProjects DEF LoaderInv, OnceInv
<1>14. ReturnInv'
  BY <1>2 DEF LoaderInv, ReturnInv
<1>15. QED
  BY <1>7, <1>9, <1>10, <1>11, <1>12, <1>13, <1>14 DEF LoaderInv

LEMMA TakenAre ==
    ASSUME LoaderInv, Taken
    PROVE  /\ request' = request /\ asked' = asked /\ returned' = returned
           /\ asked = <<>> /\ toLoad # <<>> /\ returned # "loaded"
           /\ seenNames' = seenNames \cup {Head(toLoad)}
           /\ Head(toLoad) \in Known /\ Tail(toLoad) \in Seq(Known)
           /\ Elements(toLoad) = {Head(toLoad)} \cup Elements(Tail(toLoad))
  BY FirstElement DEF LoaderInv, LoaderTypes, ReturnInv, Taken

LEMMA PassKeeps ==
    ASSUME LoaderInv, Taken, toLoad' = Tail(toLoad), loadedProjects' = loadedProjects,
           loadErrs' \in BOOLEAN, loadErrs => loadErrs', loadErrs' => Reason,
           Head(toLoad) \in seenNames \/ Head(toLoad) \notin Defined \/ loadErrs'
    PROVE  LoaderInv'
<1>1. LoaderTypes'
  BY TakenAre, SameRequest, SameProjects DEF LoaderInv, LoaderTypes
<1>2. CoverInv'
  BY TakenAre, SameRequest, SameProjects DEF LoaderInv, CoverInv, Noted
<1>3. FailInv'
  BY TakenAre, SameRequest, SameProjects DEF LoaderInv, FailInv
<1>4. NeedInv'
  <2>1. Elements(asked') \subseteq Elements(request.requested)'
    BY TakenAre, SameRequest DEF LoaderInv, NeedInv
  <2>2. (Elements(toLoad) \cap Defined \subseteq Needed)'
    BY TakenAre, SameRequest, SameProjects DEF LoaderInv, NeedInv
  <2>3. QED
    BY <2>1, <2>2, TakenAre, SameProjects DEF NeedInv
<1>5. (loadErrs => Reason)'
  BY TakenAre, SameProjects
<1>6. OnceInv'
  BY TakenAre, SameProjects DEF LoaderInv, OnceInv
<1>7. ReturnInv'
  BY TakenAre DEF LoaderInv, ReturnInv
<1>8. QED
  BY <1>1, <1>2, <1>3, <1>4, <1>5, <1>6, <1>7 DEF LoaderInv

\* A project that is loaded takes its name from the queue and puts the names
\* of those it refers to there.
LEMMA LoadKeeps ==
    ASSUME LoaderInv, LoadProject
    PROVE  LoaderInv'
<1>. DEFINE p == Head(toLoad)
            n == Len(loadedProjects)
            deps == UNION {Project(p).deps[e] : e \in Selected}
<1>1. Taken /\ p \in Defined /\ p \notin seenNames /\ loadErrs' = loadErrs
      /\ loadedProjects' = Append(loadedProjects, Project(p))
  BY DEF LoadProject
<1>2. PICK order \in Orders(deps) : toLoad' = Tail(toLoad) \o order
  BY DEF LoadProject
<1>3. /\ Project(p).id = p /\ IsFiniteSet(deps)
      /\ deps \subseteq Mentions(p) /\ Mentions(p) \subseteq deps \cup {p}
  BY <1>1, DependenciesAre DEF LoaderInv, LoaderTypes
<1>. HIDE DEF deps
<1>4. order \in Seq(Known) /\ Elements(order) = deps
  <2>1. order \in Seq(deps) /\ Elements(order) = deps
    BY <1>3, OrdersAre
  <2>2. deps \subseteq Known
    BY <1>1, <1>3 DEF Known
  <2>3. QED
    BY <2>1, <2>2
<1>5. toLoad' \in Seq(Known) /\ Elements(toLoad') = Elements(Tail(toLoad)) \cup deps
  <2>1. Tail(toLoad) \in Seq(Known)
    BY <1>1, TakenAre
  <2>2. /\ Tail(toLoad) \o order \in Seq(Known)
        /\ Elements(Tail(toLoad) \o order) = Elements(Tail(toLoad)) \cup Elements(order)
    BY <1>4, <2>1, AddedElements
  <2>3. QED
    BY <1>2, <1>4, <2>2
<1>6. /\ n \in Nat /\ DOMAIN loadedProjects = 1..n /\ DOMAIN loadedProjects' = 1..(n + 1)
      /\ \A i \in 1..n : loadedProjects'[i] = loadedProjects[i]
      /\ loadedProjects'[n + 1] = Project(p)
      /\ loadedProjects' \in Seq({Project(q) : q \in Defined})
  BY <1>1 DEF LoaderInv, LoaderTypes
<1>7. Ids' = Ids \cup {p}
  <2>1. \A i \in 1..(n + 1) : i \in 1..n \/ i = n + 1
    BY <1>6
  <2>2. 1..n \subseteq 1..(n + 1) /\ n + 1 \in 1..(n + 1)
    BY <1>6
  <2>3. Ids' \subseteq Ids \cup {p}
    BY <1>3, <1>6, <2>1 DEF Ids
  <2>4. Ids \cup {p} \subseteq Ids'
    BY <1>3, <1>6, <2>2 DEF Ids
  <2>5. QED
    BY <2>3, <2>4
<1>8. request' = request /\ Needed' = Needed \cup Refers(p)
  BY <1>1, <1>7, TakenAre, SameRequest DEF Needed
<1>9. LoaderTypes'
  <2>1. {Project(q) : q \in Defined}' = {Project(q) : q \in Defined}
    BY <1>8, SameRequest
  <2>2. QED
    BY <1>1, <1>5, <1>6, <1>8, <2>1, TakenAre, SameRequest DEF LoaderInv, LoaderTypes
<1>10. CoverInv'
  <2>1. Noted \subseteq Noted' /\ Refers(p) \subseteq Noted'
    BY <1>1, <1>3, <1>5, TakenAre DEF Noted, Refers
  <2>2. QED
    BY <1>1, <1>7, <1>8, <2>1, TakenAre, SameRequest DEF LoaderInv, CoverInv
<1>11. FailInv'
  BY <1>1, <1>7, <1>8, TakenAre, SameRequest DEF LoaderInv, FailInv
<1>12. NeedInv'
  <2>1. Elements(asked') \subseteq Elements(request.requested)'
    BY <1>1, <1>8, TakenAre, SameRequest DEF LoaderInv, NeedInv
  <2>2. (Elements(toLoad) \cap Defined \subseteq Needed)'
    BY <1>1, <1>3, <1>5, <1>8, TakenAre, SameRequest DEF LoaderInv, NeedInv, Refers
  <2>3. ASSUME NEW i \in 1..(n + 1)
        PROVE  loadedProjects'[i].id \in (Requested \cup UNION {Refers(loadedProjects[j].id) : j \in 1..(i - 1)})'
    <3>1. \A j \in 1..(i - 1) : j \in 1..n
      BY <1>6
    <3>2. (UNION {Refers(loadedProjects[j].id) : j \in 1..(i - 1)})' = UNION {Refers(loadedProjects[j].id) : j \in 1..(i - 1)}
      BY <1>6, <1>8, <3>1, SameRequest
    <3>3. CASE i \in 1..n
      BY <1>6, <1>8, <3>2, <3>3, SameRequest DEF LoaderInv, NeedInv
    <3>4. CASE i = n + 1
      <4>1. p \in Needed
        BY <1>1, TakenAre DEF LoaderInv, NeedInv
      <4>2. i - 1 = n
        BY <1>6, <3>4
      <4>3. Ids = {loadedProjects[j].id : j \in 1..n}
        BY <1>6 DEF Ids
      <4>4. Needed = Requested \cup UNION {Refers(loadedProjects[j].id) : j \in 1..(i - 1)}
        BY <4>2, <4>3 DEF Needed
      <4>5. QED
        BY <1>3, <1>6, <1>8, <3>2, <3>4, <4>1, <4>4, SameRequest
    <3>5. QED
      BY <1>6, <3>3, <3>4
  <2>4. QED
    BY <1>6, <2>1, <2>2, <2>3 DEF NeedInv
<1>13. (loadErrs => Reason)'
  BY <1>1, <1>8, SameRequest DEF LoaderInv, Reason
<1>14. OnceInv'
  <2>1. Ids' \subseteq seenNames'
    BY <1>1, <1>7, TakenAre DEF LoaderInv, OnceInv
  <2>2. ASSUME NEW i \in 1..(n + 1), NEW j \in 1..(i - 1)
        PROVE  loadedProjects'[j].id # loadedProjects'[i].id
    <3>1. j \in 1..n
      BY <1>6
    <3>2. CASE i \in 1..n
      BY <1>6, <3>1, <3>2 DEF LoaderInv, OnceInv
    <3>3. CASE i = n + 1
      <4>1. loadedProjects[j].id \in seenNames
        BY <1>6, <3>1 DEF LoaderInv, OnceInv, Ids
      <4>2. QED
        BY <1>1, <1>3, <1>6, <3>1, <3>3, <4>1
    <3>4. QED
      BY <1>6, <3>2, <3>3
  <2>3. QED
    BY <1>6, <2>1, <2>2 DEF OnceInv
<1>15. ReturnInv'
  BY <1>1, TakenAre DEF LoaderInv, ReturnInv
<1>16. QED
  BY <1>9, <1>10, <1>11, <1>12, <1>13, <1>14, <1>15 DEF LoaderInv

LEMMA StartsLoading == LoaderInit => LoaderInv
<1>. SUFFICES ASSUME LoaderInit PROVE LoaderInv
  OBVIOUS
<1>1. /\ request \in Requests /\ asked = request.requested /\ loadErrs = (Defined = {})
      /\ seenNames = {} /\ loadedProjects = <<>> /\ returned = Absent
      /\ request.requested \in Seq(STRING) /\ IsFiniteSet(Defined)
  BY RequestsAssumption DEF LoaderInit, Defined, Projects
<1>2. /\ toLoad \in Seq(Known) /\ Elements(toLoad) \subseteq Requested
      /\ request.requested = <<>> => Elements(toLoad) = Defined
  <2>1. CASE asked = <<>>
    <3>1. toLoad \in Orders(Defined)
      BY <2>1 DEF LoaderInit
    <3>2. toLoad \in Seq(Defined) /\ Elements(toLoad) = Defined
      BY <1>1, <3>1, OrdersAre
    <3>3. QED
      BY <1>1, <2>1, <3>2 DEF Known, Requested
  <2>2. CASE asked # <<>>
    <3>1. toLoad = <<>>
      BY <2>2 DEF LoaderInit
    <3>2. Elements(toLoad) = {} /\ toLoad \in Seq(Known)
      BY <3>1 DEF Elements
    <3>3. QED
      BY <1>1, <2>2, <3>2
  <2>3. QED
    BY <2>1, <2>2
<1>3. Ids = {} /\ DOMAIN loadedProjects = {}
  BY <1>1 DEF Ids
<1>4. LoaderTypes
  BY <1>1, <1>2 DEF LoaderTypes
<1>5. CoverInv /\ FailInv /\ (loadErrs => Reason) /\ OnceInv
  BY <1>1, <1>2, <1>3 DEF CoverInv, FailInv, Reason, OnceInv, Noted
<1>6. NeedInv
  BY <1>1, <1>2, <1>3 DEF NeedInv, Needed
<1>7. ReturnInv
  BY <1>1, AbsentAssumption DEF ReturnInv
<1>8. QED
  BY <1>4, <1>5, <1>6, <1>7 DEF LoaderInv

\* The inductive invariant of the project loader: whatever is needed is
\* loaded, waits to be, or has failed, and nothing else is looked at
\* (LoadProjects).
THEOREM LoaderInvariance == LoaderSpec => []LoaderInv
<1>1. LoaderInv /\ [LoaderNext]_loaderVars => LoaderInv'
  <2>. SUFFICES ASSUME LoaderInv, [LoaderNext]_loaderVars PROVE LoaderInv'
    OBVIOUS
  <2>1. CASE NameToLoad
    BY <2>1, LookUpKeeps
  <2>2. CASE Pass
    BY <2>2, PassKeeps DEF Pass, LoaderInv, LoaderTypes
  <2>3. CASE LoadProjectFails
    <3>1. Head(toLoad) \in Needed /\ Broken(Head(toLoad))
      BY <2>3, TakenAre DEF LoadProjectFails, LoaderInv, NeedInv
    <3>2. Reason
      BY <3>1 DEF Reason
    <3>3. QED
      BY <2>3, <3>2, PassKeeps DEF LoadProjectFails
  <2>4. CASE LoadProject
    BY <2>4, LoadKeeps
  <2>5. CASE ReturnProjects
    <3>1. /\ request' = request /\ loadedProjects' = loadedProjects /\ asked' = asked
          /\ toLoad' = toLoad /\ seenNames' = seenNames /\ loadErrs' = loadErrs
          /\ asked = <<>> /\ toLoad = <<>> /\ returned' = IF loadErrs THEN "failed" ELSE "loaded"
      BY <2>5 DEF ReturnProjects
    <3>2. ReturnInv'
      BY <3>1 DEF ReturnInv
    <3>3. QED
      BY <3>1, <3>2, SameRequest, SameProjects
         DEF LoaderInv, LoaderTypes, CoverInv, Noted, FailInv, NeedInv, OnceInv
  <2>6. CASE UNCHANGED loaderVars
    <3>1. /\ request' = request /\ loadedProjects' = loadedProjects /\ asked' = asked
          /\ toLoad' = toLoad /\ seenNames' = seenNames /\ loadErrs' = loadErrs /\ returned' = returned
      BY <2>6 DEF loaderVars
    <3>2. ReturnInv'
      BY <3>1 DEF LoaderInv, ReturnInv
    <3>3. QED
      BY <3>1, <3>2, SameRequest, SameProjects
         DEF LoaderInv, LoaderTypes, CoverInv, Noted, FailInv, NeedInv, OnceInv
  <2>7. QED
    BY <2>1, <2>2, <2>3, <2>4, <2>5, <2>6 DEF LoaderNext, Returned
<1>2. QED
  BY StartsLoading, <1>1, PTL DEF LoaderSpec

\* A load that succeeds has what was asked for and is closed under
\* references, with each project once and no other; one that fails has met an
\* error in what is needed (LoadProjects, toDependenciesMap).
THEOREM AlwaysLoadedClosed == LoaderSpec => []LoadedClosed
<1>1. LoaderInv => LoadedClosed
  <2>. SUFFICES ASSUME LoaderInv PROVE LoadedClosed
    OBVIOUS
  <2>1. ASSUME returned = "loaded"
        PROVE  /\ \A n \in Elements(request.requested) : Matching(n) # {}
               /\ Requested \subseteq Ids
               /\ \A name \in Ids : Refers(name) \subseteq Ids
    <3>1. asked = <<>> /\ toLoad = <<>> /\ ~loadErrs
      BY <2>1 DEF LoaderInv, ReturnInv
    <3>2. Elements(asked) = {} /\ Noted = seenNames
      BY <3>1 DEF Elements, Noted
    <3>3. seenNames \cap Defined \subseteq Ids
      BY <3>1 DEF LoaderInv, FailInv
    <3>4. Requested \subseteq Defined /\ Requested \subseteq Noted
      BY <3>2 DEF LoaderInv, CoverInv, Requested, Matching
    <3>5. QED
      BY <3>1, <3>2, <3>3, <3>4 DEF LoaderInv, CoverInv, FailInv, Refers
  <2>2. returned = "failed" => Reason
    BY DEF LoaderInv, ReturnInv
  <2>3. QED
    BY <2>1, <2>2 DEF LoadedClosed, LoaderInv, NeedInv, OnceInv, Reason, Needed
<1>2. QED
  BY <1>1, LoaderInvariance, PTL

-----------------------------------------------------------------------------
\* Parameters: those that had their turn.  The sort has the edges to the
\* names not sorted yet, and all names without one are sorted or queued.
HadTurn == {sorted[p] : p \in (unresolved + 1)..Len(sorted)}

ParameterTypes ==
    /\ params \in ParameterSets
    /\ nodes \in Seq(ParamNames)
    /\ sorted \in Seq(ParamNames)
    /\ unresolved \in 0..Len(sorted)
    /\ resolving \in {"sort", "resolve", "done"}

SortInv ==
    /\ matrix = {e \in Edges : e[2] \notin Elements(sorted)}
    /\ Elements(sorted) \cup Elements(nodes) = Leaves(matrix, ParamNames)

Distinct(s) == \A p, q \in DOMAIN s : s[p] = s[q] => p = q

EachOnceInv ==
    /\ Distinct(sorted)
    /\ Distinct(nodes)
    /\ Elements(sorted) \cap Elements(nodes) = {}

\* What refers to a name has been sorted before it.
ReferrersFirst ==
    \A p \in DOMAIN sorted : \A n \in ParamNames :
        <<sorted[p], n>> \in Edges => \E q \in 1..(p - 1) : sorted[q] = n

\* Only sorted parameters are resolved; a circle leaves names out.
StageInv ==
    /\ resolving = "sort" => unresolved = 0 /\ properties = <<>> /\ wrongParams = {}
    /\ resolving = "resolve" => Elements(sorted) = ParamNames
    /\ resolving = "done" =>
          /\ unresolved = 0
          /\ \/ Elements(sorted) = ParamNames
             \/ nodes = <<>> /\ matrix # {} /\ wrongParams = {e[1] : e \in matrix}

\* A parameter that had its turn has a value or an error, and without an
\* error each has its value from those resolved before.
KnownAt(p) == [m \in {sorted[q] : q \in (p + 1)..Len(sorted)} |-> properties[m]]

ValuesInv ==
    resolving # "sort" /\ Elements(sorted) = ParamNames =>
        /\ properties = [m \in DOMAIN properties |-> properties[m]]
        /\ DOMAIN properties \cup wrongParams = HadTurn
        /\ wrongParams = {} =>
              \A p \in (unresolved + 1)..Len(sorted) :
                  HasValue(sorted[p], KnownAt(p)) /\ properties[sorted[p]] = ResolveValue(sorted[p], KnownAt(p))

\* What can be resolved in any order has been.
BestInv ==
    resolving # "sort" /\ Elements(sorted) = ParamNames /\ ReferencesOrder =>
        \A before \in Orderings : \A values \in [ParamNames -> {"plain", "map"}] :
            Solves(values, before) => wrongParams = {} /\ \A m \in DOMAIN properties : properties[m] = values[m]

ParametersInv ==
    /\ ParameterTypes
    /\ SortInv
    /\ EachOnceInv
    /\ ReferrersFirst
    /\ StageInv
    /\ ValuesInv
    /\ BestInv

\* A set of numbers has a least one.
LEMMA FirstOf ==
    ASSUME NEW S \in SUBSET Nat, S # {}
    PROVE  \E i \in S : \A j \in S : i <= j
<1> DEFINE Less == {ss \in Nat \X Nat : ss[1] < ss[2]}
<1>1. PICK i \in S : \A j \in S : ~(<<j, i>> \in Less)
    <2>1. IsWellFoundedOn(Less, Nat)
        BY NatLessThanWellFounded DEF OpToRel
    <2> HIDE DEF Less
    <2> QED BY <2>1, WFMin
<1>2. \A j \in S : ~(j < i)
    BY <1>1
<1> QED BY <1>2

LEMMA ParamNamesFinite == IsFiniteSet(ParamNames)
<1>1. Alphabet \in Surjection(1..Len(Alphabet), ParamNames) /\ Len(Alphabet) \in Nat
  BY ParametersAssumption DEF ParamNames, Surjection
<1>2. IsFiniteSet(1..Len(Alphabet))
  BY <1>1, FS_Interval
<1>3. QED
  BY <1>1, <1>2, FS_Surjection

\* Names in their order are a sequence of each of them once.
LEMMA InOrderAre ==
    ASSUME NEW names \in SUBSET ParamNames, NEW s \in InOrder(names)
    PROVE  s \in Seq(ParamNames) /\ Elements(s) = names /\ Distinct(s)
<1>1. Cardinality(names) \in Nat
  BY ParamNamesFinite, FS_Subset, FS_CardinalityType
<1>2. /\ s \in [1..Cardinality(names) -> names]
      /\ {s[i] : i \in DOMAIN s} = names
      /\ \A x, y \in DOMAIN Alphabet : \A i, j \in DOMAIN s :
              s[i] = Alphabet[x] /\ s[j] = Alphabet[y] => (i < j <=> x < y)
  BY DEF InOrder
<1>3. s \in Seq(ParamNames) /\ Elements(s) = names
  BY <1>1, <1>2 DEF Elements
<1>4. ASSUME NEW i \in DOMAIN s, NEW j \in DOMAIN s, s[i] = s[j] PROVE i = j
  <2>1. PICK x \in DOMAIN Alphabet : s[i] = Alphabet[x]
    BY <1>2 DEF ParamNames
  <2>2. i \in Nat /\ j \in Nat /\ x \in Nat
    BY <1>1, <1>2, ParametersAssumption
  <2>3. (i < j <=> x < x) /\ (j < i <=> x < x)
    BY <1>2, <1>4, <2>1
  <2>4. QED
    BY <2>2, <2>3
<1>5. QED
  BY <1>3, <1>4 DEF Distinct

LEMMA AppendedElements ==
    ASSUME NEW S, NEW s \in Seq(S), NEW e \in S
    PROVE  /\ Append(s, e) \in Seq(S) /\ DOMAIN s = 1..Len(s) /\ Len(s) \in Nat
           /\ DOMAIN Append(s, e) = 1..(Len(s) + 1)
           /\ \A p \in DOMAIN s : Append(s, e)[p] = s[p]
           /\ Append(s, e)[Len(s) + 1] = e
           /\ Elements(Append(s, e)) = Elements(s) \cup {e}
<1>1. /\ Append(s, e) \in Seq(S) /\ DOMAIN s = 1..Len(s) /\ Len(s) \in Nat
      /\ DOMAIN Append(s, e) = 1..(Len(s) + 1)
      /\ \A p \in DOMAIN s : Append(s, e)[p] = s[p]
      /\ Append(s, e)[Len(s) + 1] = e
  OBVIOUS
<1>2. \A p \in 1..(Len(s) + 1) : p \in DOMAIN s \/ p = Len(s) + 1
  BY <1>1
<1>3. QED
  BY <1>1, <1>2 DEF Elements

\* A sequence of distinct elements stays one.
LEMMA DistinctAppend ==
    ASSUME NEW S, NEW s \in Seq(S), NEW e \in S \ Elements(s), Distinct(s)
    PROVE  Distinct(Append(s, e))
<1>1. \A p \in DOMAIN Append(s, e) : p \in DOMAIN s \/ p = Len(s) + 1
  BY AppendedElements
<1>2. \A p \in DOMAIN s : s[p] # e
  BY DEF Elements
<1>3. QED
  BY <1>1, <1>2, AppendedElements DEF Distinct

LEMMA DistinctTail ==
    ASSUME NEW S, NEW s \in Seq(S), s # <<>>, Distinct(s)
    PROVE  Distinct(Tail(s)) /\ Head(s) \notin Elements(Tail(s))
<1>1. /\ DOMAIN s = 1..Len(s) /\ DOMAIN Tail(s) = 1..(Len(s) - 1) /\ Len(s) \in Nat \ {0}
      /\ \A p \in DOMAIN Tail(s) : Tail(s)[p] = s[p + 1]
      /\ Head(s) = s[1]
  OBVIOUS
<1>2. \A p \in DOMAIN Tail(s) : p + 1 \in DOMAIN s /\ p + 1 # 1
  BY <1>1
<1>3. 1 \in DOMAIN s /\ \A p, q \in DOMAIN Tail(s) : p + 1 = q + 1 => p = q
  BY <1>1
<1>4. QED
  BY <1>1, <1>2, <1>3 DEF Distinct, Elements

LEMMA DistinctJoin ==
    ASSUME NEW S, NEW s \in Seq(S), NEW t \in Seq(S), Distinct(s), Distinct(t),
           Elements(s) \cap Elements(t) = {}
    PROVE  Distinct(s \o t)
<1>1. /\ DOMAIN s = 1..Len(s) /\ DOMAIN t = 1..Len(t) /\ Len(s) \in Nat /\ Len(t) \in Nat
      /\ DOMAIN (s \o t) = 1..(Len(s) + Len(t))
  OBVIOUS
<1>2. \A p \in DOMAIN (s \o t) : \/ p \in DOMAIN s /\ (s \o t)[p] = s[p]
                                 \/ p - Len(s) \in DOMAIN t /\ (s \o t)[p] = t[p - Len(s)]
  BY <1>1
<1>3. \A p \in DOMAIN s : \A q \in DOMAIN t : s[p] # t[q]
  BY DEF Elements
<1>4. \A p, q \in DOMAIN (s \o t) : p - Len(s) = q - Len(s) => p = q
  BY <1>1
<1>5. QED
  BY <1>2, <1>3, <1>4 DEF Distinct

\* The parameters do not change, nor what their references say.
LEMMA ParametersFrame ==
    ASSUME params' = params
    PROVE  /\ Edges' = Edges /\ ReferencesOrder' = ReferencesOrder
           /\ \A n, known : HasValue(n, known)' = HasValue(n, known)
           /\ \A n, known : ResolveValue(n, known)' = ResolveValue(n, known)
           /\ \A values, before : Solves(values, before)' = Solves(values, before)
           /\ Orderings' = Orderings
<1>1. Edges' = Edges
  BY DEF Edges, Matches
<1>2. ReferencesOrder' = ReferencesOrder
  BY DEF ReferencesOrder
<1>3. ASSUME NEW n, NEW known
      PROVE  HasValue(n, known)' = HasValue(n, known) /\ ResolveValue(n, known)' = ResolveValue(n, known)
  BY DEF HasValue, Unreferable, ResolveValue
<1>4. ASSUME NEW values, NEW before PROVE Solves(values, before)' = Solves(values, before)
  BY <1>3 DEF Solves
<1>5. QED
  BY <1>1, <1>2, <1>3, <1>4 DEF Orderings

LEMMA StartsSorting == ParametersInit => ParametersInv
<1>. SUFFICES ASSUME ParametersInit PROVE ParametersInv
  OBVIOUS
<1>1. nodes \in Seq(ParamNames) /\ Elements(nodes) = Leaves(Edges, ParamNames) /\ Distinct(nodes)
  <2>1. Leaves(Edges, ParamNames) \in SUBSET ParamNames
    BY DEF Leaves
  <2>2. QED
    BY <2>1, InOrderAre DEF ParametersInit
<1>2. sorted = <<>> /\ Elements(sorted) = {} /\ DOMAIN sorted = {} /\ Len(sorted) = 0 /\ sorted \in Seq(ParamNames)
  BY DEF ParametersInit, Elements
<1>3. ParameterTypes
  BY <1>1, <1>2 DEF ParametersInit, ParameterTypes
<1>4. SortInv
  BY <1>1, <1>2 DEF ParametersInit, SortInv
<1>5. EachOnceInv /\ ReferrersFirst
  BY <1>1, <1>2 DEF EachOnceInv, Distinct, ReferrersFirst
<1>6. StageInv /\ ValuesInv /\ BestInv
  BY DEF ParametersInit, StageInv, ValuesInv, BestInv
<1>7. QED
  BY <1>3, <1>4, <1>5, <1>6 DEF ParametersInv

\* One turn of the sort: what it frees joins the leaves.
LEMMA PopKeeps == ParametersInv /\ Pop => ParametersInv'
<1>. SUFFICES ASSUME ParametersInv, Pop PROVE ParametersInv'
  OBVIOUS
<1>. DEFINE cur == Head(nodes)
            freed == Leaves(matrix', {e[1] : e \in matrix \ matrix'})
<1>1. /\ params \in ParameterSets /\ nodes \in Seq(ParamNames) /\ sorted \in Seq(ParamNames)
      /\ Distinct(sorted) /\ Distinct(nodes) /\ Elements(sorted) \cap Elements(nodes) = {}
      /\ matrix = {e \in Edges : e[2] \notin Elements(sorted)}
      /\ Elements(sorted) \cup Elements(nodes) = Leaves(matrix, ParamNames)
      /\ Edges \subseteq ParamNames \X ParamNames
  BY DEF ParametersInv, ParameterTypes, EachOnceInv, SortInv, Edges
<1>2. /\ resolving = "sort" /\ nodes # <<>> /\ matrix' = {e \in matrix : e[2] # cur}
      /\ sorted' = Append(sorted, cur) /\ params' = params /\ unresolved' = unresolved
      /\ properties' = properties /\ wrongParams' = wrongParams /\ resolving' = resolving
  BY DEF Pop
<1>3. PICK free \in InOrder(freed) : nodes' = Tail(nodes) \o free
  BY DEF Pop
<1>4. /\ cur \in ParamNames /\ Tail(nodes) \in Seq(ParamNames) /\ Distinct(Tail(nodes))
      /\ Elements(nodes) = {cur} \cup Elements(Tail(nodes)) /\ cur \notin Elements(Tail(nodes))
  BY <1>1, <1>2, FirstElement, DistinctTail
<1>5. freed \in SUBSET ParamNames /\ free \in Seq(ParamNames) /\ Elements(free) = freed /\ Distinct(free)
  <2>1. freed \in SUBSET ParamNames
    BY <1>1 DEF Leaves
  <2>2. QED
    BY <1>3, <2>1, InOrderAre
<1>6. nodes' \in Seq(ParamNames) /\ Elements(nodes') = Elements(Tail(nodes)) \cup freed
  <2>1. /\ Tail(nodes) \o free \in Seq(ParamNames)
        /\ Elements(Tail(nodes) \o free) = Elements(Tail(nodes)) \cup Elements(free)
    <3>1. Tail(nodes) \in Seq(ParamNames) /\ free \in Seq(ParamNames)
      BY <1>4, <1>5
    <3>2. QED
      BY <3>1, AddedElements
  <2>2. QED
    BY <1>3, <1>5, <2>1
<1>7. /\ sorted' \in Seq(ParamNames) /\ Elements(sorted') = Elements(sorted) \cup {cur}
      /\ cur \notin Elements(sorted) /\ Distinct(sorted')
  BY <1>1, <1>2, <1>4, AppendedElements, DistinctAppend
<1>8. freed \cap Leaves(matrix, ParamNames) = {}
  BY DEF Leaves
<1>9. Leaves(matrix', ParamNames) = Leaves(matrix, ParamNames) \cup freed
  <2>1. Leaves(matrix', ParamNames) \subseteq Leaves(matrix, ParamNames) \cup freed
    BY DEF Leaves
  <2>2. Leaves(matrix, ParamNames) \subseteq Leaves(matrix', ParamNames)
    BY <1>2 DEF Leaves
  <2>3. freed \subseteq Leaves(matrix', ParamNames)
    BY <1>5 DEF Leaves
  <2>4. QED
    BY <2>1, <2>2, <2>3
<1>10. SortInv'
  <2>1. matrix' = {e \in Edges : e[2] \notin Elements(sorted')}
    BY <1>1, <1>2, <1>7
  <2>2. Elements(sorted') \cup Elements(nodes') = Leaves(matrix', ParamNames)
    BY <1>1, <1>4, <1>6, <1>7, <1>9
  <2>3. QED
    BY <1>2, <2>1, <2>2, ParametersFrame DEF SortInv, Leaves, Elements
<1>11. EachOnceInv'
  <2>1. Elements(Tail(nodes)) \cap Elements(free) = {}
    BY <1>1, <1>4, <1>5, <1>8
  <2>2. Distinct(nodes')
    BY <1>3, <1>4, <1>5, <2>1, DistinctJoin
  <2>3. Elements(sorted') \cap Elements(nodes') = {}
    BY <1>1, <1>4, <1>6, <1>7, <1>8
  <2>4. QED
    BY <1>7, <2>2, <2>3 DEF EachOnceInv, Distinct, Elements
<1>12. ReferrersFirst'
  <2>1. ASSUME NEW p \in DOMAIN sorted', NEW n \in ParamNames, <<sorted'[p], n>> \in Edges
        PROVE  \E q \in 1..(p - 1) : sorted'[q] = n
    <3>1. CASE p \in DOMAIN sorted
      <4>1. PICK q \in 1..(p - 1) : sorted[q] = n
        BY <1>1, <1>2, <1>4, <2>1, <3>1, AppendedElements DEF ParametersInv, ReferrersFirst
      <4>2. q \in DOMAIN sorted
        BY <1>1, <3>1
      <4>3. sorted'[q] = n
        BY <1>1, <1>2, <1>4, <4>1, <4>2, AppendedElements
      <4>4. QED
        BY <4>3
    <3>2. CASE p = Len(sorted) + 1
      <4>1. sorted'[p] = cur /\ cur \in Leaves(matrix, ParamNames)
        BY <1>1, <1>2, <1>4, <3>2, AppendedElements
      <4>2. n \in Elements(sorted)
        BY <1>1, <2>1, <4>1 DEF Leaves
      <4>3. PICK q \in DOMAIN sorted : sorted[q] = n
        BY <4>2 DEF Elements
      <4>4. sorted'[q] = n /\ q \in 1..(p - 1)
        BY <1>1, <1>2, <1>4, <3>2, <4>3, AppendedElements
      <4>5. QED
        BY <4>4
    <3>3. QED
      BY <1>1, <1>2, <1>4, <3>1, <3>2, AppendedElements
  <2>2. QED
    BY <1>2, <2>1, ParametersFrame DEF ReferrersFirst
<1>13. ParameterTypes' /\ StageInv'
  BY <1>1, <1>2, <1>6, <1>7 DEF ParametersInv, ParameterTypes, StageInv
<1>14. ValuesInv' /\ BestInv'
  BY <1>2 DEF ValuesInv, BestInv
<1>15. QED
  BY <1>10, <1>11, <1>12, <1>13, <1>14 DEF ParametersInv

\* Nothing is left to sort: all names are sorted, or a circle is left.
LEMMA StopsSorting == ParametersInv /\ (Circular \/ Sorted) => ParametersInv'
<1>. SUFFICES ASSUME ParametersInv, Circular \/ Sorted PROVE ParametersInv'
  OBVIOUS
<1>1. /\ resolving = "sort" /\ nodes = <<>> /\ params' = params /\ matrix' = matrix /\ nodes' = nodes
      /\ sorted' = sorted /\ properties' = properties /\ unresolved = 0 /\ properties = <<>> /\ wrongParams = {}
  BY DEF Circular, Sorted, ParametersInv, StageInv
<1>2. /\ sorted \in Seq(ParamNames) /\ Len(sorted) \in Nat /\ Elements(nodes) = {}
      /\ Elements(sorted) = Leaves(matrix, ParamNames)
      /\ matrix = {e \in Edges : e[2] \notin Elements(sorted)}
  BY <1>1 DEF ParametersInv, ParameterTypes, SortInv, Elements
<1>3. SortInv' /\ EachOnceInv' /\ ReferrersFirst'
  BY <1>1, ParametersFrame DEF ParametersInv, SortInv, EachOnceInv, ReferrersFirst, Leaves, Elements, Distinct
<1>4. CASE Circular
  <2>1. matrix # {} /\ wrongParams' = {e[1] : e \in matrix} /\ resolving' = "done" /\ unresolved' = unresolved
    BY <1>4 DEF Circular
  <2>2. Elements(sorted) # ParamNames
    BY <1>2, <2>1 DEF Edges
  <2>3. ParameterTypes' /\ StageInv'
    BY <1>1, <2>1 DEF ParametersInv, ParameterTypes, StageInv
  <2>4. ValuesInv' /\ BestInv'
    BY <1>1, <2>2 DEF ValuesInv, BestInv, Elements
  <2>5. QED
    BY <1>3, <2>3, <2>4 DEF ParametersInv
<1>5. CASE Sorted
  <2>1. matrix = {} /\ unresolved' = Len(sorted) /\ resolving' = "resolve" /\ wrongParams' = {}
    BY <1>1, <1>5 DEF Sorted
  <2>2. Elements(sorted) = ParamNames
    BY <1>2, <2>1 DEF Leaves
  <2>3. ParameterTypes' /\ StageInv'
    BY <1>1, <1>2, <2>1, <2>2 DEF ParametersInv, ParameterTypes, StageInv, Elements
  <2>4. (unresolved' + 1)..Len(sorted') = {} /\ DOMAIN properties' = {} /\ properties' = [m \in {} |-> properties'[m]]
    BY <1>1, <1>2, <2>1
  <2>5. ValuesInv'
    BY <2>1, <2>4 DEF ValuesInv, HadTurn
  <2>6. BestInv'
    BY <2>1, <2>4 DEF BestInv
  <2>7. QED
    BY <1>3, <2>3, <2>5, <2>6 DEF ParametersInv
<1>6. QED
  BY <1>4, <1>5

\* If parameters can be resolved in some order, a reference is to one before.
LEMMA ReferencesAreBefore ==
    ASSUME params \in ParameterSets, ReferencesOrder,
           NEW before \in Orderings, NEW values \in [ParamNames -> {"plain", "map"}], Solves(values, before),
           NEW n \in ParamNames, NEW ref \in References(params[n]), ref.config = Own
    PROVE  /\ ref.name \in before[n]
           /\ <<ref.name, n>> \in Edges
           /\ ref.nested => values[ref.name] = "map"
<1>. DEFINE known == [m \in before[n] |-> values[m]]
<1>1. HasValue(n, known) /\ n \notin before[n] /\ before[n] \subseteq ParamNames
  BY DEF Solves, Orderings
<1>2. params[n].kind \in {"reference", "compound"} /\ ref \in params[n].refs
  BY DEF References
<1>3. ref.name \in before[n] /\ (ref.nested => values[ref.name] = "map")
  <2>1. CASE params[n].kind = "reference"
    <3>1. Found(ref, known)
      BY <1>1, <1>2, <2>1 DEF HasValue
    <3>2. ref.name \in DOMAIN known /\ (ref.nested => known[ref.name] = "map")
      BY <3>1 DEF Found, HasProp
    <3>3. QED
      BY <3>2
  <2>2. CASE params[n].kind = "compound"
    <3>1. ~ref.nested /\ ref.name \in DOMAIN known
      BY <1>1, <1>2, <2>2 DEF HasValue
    <3>2. QED
      BY <3>1
  <2>3. QED
    BY <1>2, <2>1, <2>2
<1>4. ref.nested => params[ref.name].kind = "map"
  <2>. SUFFICES ASSUME ref.nested PROVE params[ref.name].kind = "map"
    OBVIOUS
  <2>1. values[ref.name] = "map" /\ ref.name \in ParamNames
    BY <1>1, <1>3
  <2>2. PICK others : values[ref.name] = ResolveValue(ref.name, others)
    BY <2>1 DEF Solves
  <2>3. params[ref.name].kind # "reference"
    BY <2>1 DEF ReferencesOrder
  <2>4. params[ref.name].kind # "map" => ResolveValue(ref.name, others) = "plain"
    BY <2>3 DEF ResolveValue
  <2>5. QED
    BY <2>1, <2>2, <2>4
<1>5. Matches(ref, ref.name)
  BY <1>4 DEF Matches
<1>6. QED
  BY <1>1, <1>3, <1>5 DEF Edges

\* No order has each of some parameters before another of them.
LEMMA NoCircle ==
    ASSUME NEW before \in Orderings, NEW U \in SUBSET ParamNames, \A u \in U : \E k \in U : u \in before[k]
    PROVE  U = {}
<1>. SUFFICES ASSUME U # {} PROVE FALSE
  OBVIOUS
<1>. DEFINE After(u) == ParamNames \ before[u]
            sizes == {Cardinality(After(u)) : u \in U}
<1>1. \A u \in U : IsFiniteSet(After(u)) /\ Cardinality(After(u)) \in Nat
  BY ParamNamesFinite, FS_Subset, FS_CardinalityType
<1>2. PICK least \in sizes : \A s \in sizes : least <= s
  <2>1. sizes \in SUBSET Nat /\ sizes # {}
    BY <1>1
  <2>. HIDE DEF sizes
  <2>2. QED
    BY <2>1, FirstOf
<1>3. PICK u \in U : least = Cardinality(After(u))
  OBVIOUS
<1>4. PICK k \in U : u \in before[k]
  OBVIOUS
<1>5. u \in After(u) /\ u \notin After(k) /\ After(k) \in SUBSET After(u)
  BY <1>4 DEF Orderings
<1>6. Cardinality(After(u)) <= Cardinality(After(k))
  BY <1>2, <1>3
<1>7. Cardinality(After(k)) <= Cardinality(After(u)) /\ (Cardinality(After(u)) = Cardinality(After(k)) => After(u) = After(k))
  BY <1>1, <1>5, FS_Subset
<1>8. Cardinality(After(u)) = Cardinality(After(k))
  <2>1. Cardinality(After(u)) \in Nat /\ Cardinality(After(k)) \in Nat
    BY <1>1
  <2>. HIDE DEF After
  <2>2. QED
    BY <1>6, <1>7, <2>1
<1>9. QED
  BY <1>5, <1>7, <1>8

\* The next parameter: its turn is its own, and it sees what had theirs.
LEMMA TurnIs ==
    ASSUME ParametersInv, resolving = "resolve", unresolved > 0
    PROVE  /\ NextToResolve \in ParamNames /\ NextToResolve \notin HadTurn
           /\ unresolved \in DOMAIN sorted /\ unresolved \in Nat \ {0}
           /\ Len(sorted) \in Nat /\ DOMAIN sorted = 1..Len(sorted)
           /\ HadTurn \subseteq ParamNames
           /\ {sorted[p] : p \in unresolved..Len(sorted)} = HadTurn \cup {NextToResolve}
<1>1. sorted \in Seq(ParamNames) /\ unresolved \in 0..Len(sorted) /\ Distinct(sorted)
  BY DEF ParametersInv, ParameterTypes, EachOnceInv
<1>2. /\ Len(sorted) \in Nat /\ DOMAIN sorted = 1..Len(sorted) /\ unresolved \in DOMAIN sorted
      /\ \A p \in DOMAIN sorted : sorted[p] \in ParamNames
      /\ \A p \in (unresolved + 1)..Len(sorted) : p \in DOMAIN sorted /\ p # unresolved
  BY <1>1
<1>3. NextToResolve = sorted[unresolved] /\ NextToResolve \notin HadTurn
  BY <1>1, <1>2 DEF NextToResolve, HadTurn, Distinct
<1>4. \A p : p \in unresolved..Len(sorted) <=> p = unresolved \/ p \in (unresolved + 1)..Len(sorted)
  BY <1>1, <1>2
<1>5. QED
  BY <1>1, <1>2, <1>3, <1>4 DEF HadTurn

\* What can be resolved in some order can be resolved in its turn.
LEMMA ResolvesInTurn ==
    ASSUME ParametersInv, resolving = "resolve", unresolved > 0, ReferencesOrder,
           NEW before \in Orderings, NEW values \in [ParamNames -> {"plain", "map"}], Solves(values, before)
    PROVE  /\ wrongParams = {}
           /\ HasValue(NextToResolve, properties)
           /\ ResolveValue(NextToResolve, properties) = values[NextToResolve]
<1>. DEFINE n == NextToResolve
            known == [m \in before[n] |-> values[m]]
<1>1. /\ n \in ParamNames /\ unresolved \in DOMAIN sorted /\ unresolved \in Nat \ {0}
      /\ Len(sorted) \in Nat /\ DOMAIN sorted = 1..Len(sorted) /\ n = sorted[unresolved]
  BY TurnIs DEF NextToResolve
<1>2. /\ params \in ParameterSets /\ Distinct(sorted) /\ ReferrersFirst /\ Elements(sorted) = ParamNames
      /\ ValuesInv /\ BestInv
  BY DEF ParametersInv, ParameterTypes, EachOnceInv, StageInv
<1>3. wrongParams = {} /\ \A m \in DOMAIN properties : properties[m] = values[m]
  BY <1>2 DEF BestInv
<1>4. DOMAIN properties = HadTurn
  BY <1>2, <1>3 DEF ValuesInv
<1>5. ASSUME NEW ref \in References(params[n]), ref.config = Own
      PROVE  /\ ref.name \in before[n] /\ ref.name \in DOMAIN properties
             /\ properties[ref.name] = values[ref.name] /\ (ref.nested => values[ref.name] = "map")
  <2>1. /\ ref.name \in before[n] /\ <<ref.name, n>> \in Edges /\ (ref.nested => values[ref.name] = "map")
    BY <1>1, <1>2, <1>5, ReferencesAreBefore
  <2>2. ref.name \in ParamNames
    BY <2>1 DEF Edges
  <2>3. PICK p \in DOMAIN sorted : sorted[p] = ref.name
    BY <1>2, <2>2 DEF Elements
  <2>4. PICK q \in 1..(p - 1) : sorted[q] = n
    BY <1>1, <1>2, <2>1, <2>3 DEF ReferrersFirst
  <2>5. q = unresolved
    BY <1>1, <1>2, <2>3, <2>4 DEF Distinct
  <2>6. p \in (unresolved + 1)..Len(sorted)
    BY <1>1, <2>3, <2>4, <2>5
  <2>7. QED
    BY <1>3, <1>4, <2>1, <2>3, <2>6 DEF HadTurn
<1>6. HasValue(n, known) /\ values[n] = ResolveValue(n, known)
  BY <1>1 DEF Solves
<1>7. HasValue(n, properties)
  <2>1. ASSUME params[n].kind = "reference", NEW ref \in params[n].refs PROVE Found(ref, properties)
    <3>1. ref \in References(params[n]) /\ Found(ref, known)
      BY <1>6, <2>1 DEF References, HasValue
    <3>2. CASE ref.config = Own
      <4>1. HasProp(ref, properties)
        BY <1>5, <3>1, <3>2 DEF HasProp
      <4>2. QED
        BY <3>2, <4>1 DEF Found
    <3>3. CASE ref.config # Own
      BY <3>1, <3>3 DEF Found
    <3>4. QED
      BY <3>2, <3>3
  <2>2. ASSUME params[n].kind = "compound", NEW ref \in params[n].refs
        PROVE  ~ref.nested /\ ref.name \in DOMAIN properties
    <3>1. ref \in References(params[n]) /\ ~ref.nested
      BY <1>6, <2>2 DEF References, HasValue
    <3>2. ref.config = Own
      BY <1>1, <2>2, <3>1 DEF ReferencesOrder
    <3>3. QED
      BY <1>5, <3>1, <3>2
  <2>3. QED
    BY <1>6, <2>1, <2>2 DEF HasValue
<1>8. ResolveValue(n, properties) = ResolveValue(n, known)
  <2>1. CASE params[n].kind = "reference"
    <3>. DEFINE ref == CHOOSE r \in params[n].refs : TRUE
    <3>1. ref \in params[n].refs
      BY <1>1, <1>2, <2>1, ParametersAssumption
    <3>2. ref \in References(params[n])
      BY <2>1, <3>1 DEF References
    <3>3. ref.config = Own => PropValue(ref, properties) = PropValue(ref, known)
      BY <1>5, <3>2 DEF PropValue
    <3>. HIDE DEF known
    <3>4. QED
      BY <2>1, <3>3 DEF ResolveValue
  <2>2. CASE params[n].kind # "reference"
    BY <2>2 DEF ResolveValue
  <2>3. QED
    BY <2>1, <2>2
<1>9. QED
  BY <1>3, <1>6, <1>7, <1>8

\* A parameter gets its value from those resolved before, or an error.
LEMMA ResolveKeeps == ParametersInv /\ ResolveParameter => ParametersInv'
<1>. SUFFICES ASSUME ParametersInv, ResolveParameter PROVE ParametersInv'
  OBVIOUS
<1>. DEFINE n == NextToResolve
<1>1. /\ resolving = "resolve" /\ unresolved > 0 /\ unresolved' = unresolved - 1
      /\ params' = params /\ matrix' = matrix /\ nodes' = nodes /\ sorted' = sorted /\ resolving' = resolving
  BY DEF ResolveParameter
<1>2. /\ n \in ParamNames /\ n \notin HadTurn /\ unresolved \in DOMAIN sorted /\ unresolved \in Nat \ {0}
      /\ Len(sorted) \in Nat /\ DOMAIN sorted = 1..Len(sorted) /\ HadTurn \subseteq ParamNames
      /\ {sorted[p] : p \in unresolved..Len(sorted)} = HadTurn \cup {n}
  BY <1>1, TurnIs
<1>3. /\ Elements(sorted) = ParamNames /\ ValuesInv /\ BestInv /\ Distinct(sorted)
  BY <1>1 DEF ParametersInv, StageInv, EachOnceInv
<1>4. /\ properties = [m \in DOMAIN properties |-> properties[m]]
      /\ DOMAIN properties \cup wrongParams = HadTurn
      /\ wrongParams = {} =>
              \A p \in (unresolved + 1)..Len(sorted) :
                  HasValue(sorted[p], KnownAt(p)) /\ properties[sorted[p]] = ResolveValue(sorted[p], KnownAt(p))
  BY <1>1, <1>3 DEF ValuesInv
<1>5. HadTurn' = HadTurn \cup {n}
  <2>1. unresolved' + 1 = unresolved
    BY <1>1, <1>2
  <2>2. QED
    BY <1>1, <1>2, <2>1 DEF HadTurn
<1>6. SortInv' /\ EachOnceInv' /\ ReferrersFirst'
  BY <1>1, ParametersFrame DEF ParametersInv, SortInv, EachOnceInv, ReferrersFirst, Leaves, Elements, Distinct
<1>7. ParameterTypes' /\ StageInv'
  BY <1>1, <1>2 DEF ParametersInv, ParameterTypes, StageInv, Elements
<1>8. CASE HasValue(n, properties)
  <2>. DEFINE v == ResolveValue(n, properties)
  <2>1. properties' = With(properties, n, v) /\ wrongParams' = wrongParams
    BY <1>8 DEF ResolveParameter
  <2>2. /\ DOMAIN properties' = DOMAIN properties \cup {n} /\ properties'[n] = v
        /\ properties' = [m \in DOMAIN properties' |-> properties'[m]]
        /\ \A m \in DOMAIN properties : properties'[m] = properties[m]
    BY <1>2, <1>4, <2>1 DEF With
  <2>3. ASSUME wrongParams = {}, NEW p \in unresolved..Len(sorted)
        PROVE  HasValue(sorted[p], KnownAt(p)') /\ properties'[sorted[p]] = ResolveValue(sorted[p], KnownAt(p)')
    <3>1. {sorted[q] : q \in (p + 1)..Len(sorted)} \subseteq DOMAIN properties
      <4>1. \A q \in (p + 1)..Len(sorted) : q \in (unresolved + 1)..Len(sorted)
        BY <1>2
      <4>2. QED
        BY <1>4, <2>3, <4>1 DEF HadTurn
    <3>2. KnownAt(p)' = KnownAt(p)
      BY <1>1, <2>2, <3>1 DEF KnownAt
    <3>3. CASE p = unresolved
      <4>1. KnownAt(p) = properties
        BY <1>4, <2>3, <3>3 DEF KnownAt, HadTurn
      <4>2. sorted[p] = n
        BY <3>3 DEF NextToResolve
      <4>3. QED
        BY <1>8, <2>2, <3>2, <4>1, <4>2
    <3>4. CASE p # unresolved
      <4>1. p \in (unresolved + 1)..Len(sorted) /\ sorted[p] \in HadTurn
        BY <1>2, <3>4 DEF HadTurn
      <4>2. properties'[sorted[p]] = properties[sorted[p]]
        BY <1>4, <2>2, <2>3, <4>1
      <4>3. QED
        BY <1>4, <2>3, <3>2, <4>1, <4>2
    <3>5. QED
      BY <3>3, <3>4
  <2>4. ValuesInv'
    <3>1. unresolved' + 1 = unresolved
      BY <1>1, <1>2
    <3>2. DOMAIN properties' \cup wrongParams' = HadTurn'
      BY <1>4, <1>5, <2>1, <2>2
    <3>3. ASSUME wrongParams' = {}, NEW p \in (unresolved' + 1)..Len(sorted')
          PROVE  HasValue(sorted[p], KnownAt(p))' /\ properties'[sorted'[p]] = ResolveValue(sorted[p], KnownAt(p))'
      <4>1. HasValue(sorted[p], KnownAt(p)') /\ properties'[sorted[p]] = ResolveValue(sorted[p], KnownAt(p)')
        BY <1>1, <2>1, <2>3, <3>1, <3>3
      <4>2. QED
        BY <1>1, <4>1, ParametersFrame DEF HasValue, Unreferable, ResolveValue
    <3>4. QED
      BY <2>2, <3>2, <3>3 DEF ValuesInv
  <2>5. BestInv'
    <3>1. ASSUME ReferencesOrder, NEW before \in Orderings, NEW values \in [ParamNames -> {"plain", "map"}],
                 Solves(values, before)
          PROVE  wrongParams' = {} /\ \A m \in DOMAIN properties' : properties'[m] = values[m]
      <4>1. wrongParams = {} /\ v = values[n]
        BY <1>1, <3>1, ResolvesInTurn
      <4>2. \A m \in DOMAIN properties : properties[m] = values[m]
        BY <1>1, <1>3, <3>1 DEF BestInv
      <4>. HIDE DEF v
      <4>3. QED
        BY <2>1, <2>2, <4>1, <4>2
    <3>2. QED
      BY <1>1, <3>1, ParametersFrame DEF BestInv
  <2>6. QED
    BY <1>6, <1>7, <2>4, <2>5 DEF ParametersInv
<1>9. CASE ~HasValue(n, properties)
  <2>1. properties' = properties /\ wrongParams' = wrongParams \cup {n}
    BY <1>9 DEF ResolveParameter
  <2>2. ValuesInv'
    BY <1>4, <1>5, <2>1 DEF ValuesInv
  <2>3. BestInv'
    <3>1. ASSUME ReferencesOrder, NEW before \in Orderings, NEW values \in [ParamNames -> {"plain", "map"}],
                 Solves(values, before)
          PROVE  FALSE
      BY <1>1, <1>9, <3>1, ResolvesInTurn
    <3>2. QED
      BY <1>1, <3>1, ParametersFrame DEF BestInv
  <2>4. QED
    BY <1>6, <1>7, <2>2, <2>3 DEF ParametersInv
<1>10. QED
  BY <1>8, <1>9

\* The inductive invariant of the resolution of parameters: what refers to a
\* parameter is sorted before it, so resolving the last one sorted first finds
\* the values of those it refers to, if they have any (getSortedParameters,
\* TopologySort, resolveValues).
THEOREM ParametersInvariance == ParametersSpec => []ParametersInv
<1>1. ParametersInv /\ [ParametersNext]_parameterVars => ParametersInv'
  <2>. SUFFICES ASSUME ParametersInv, [ParametersNext]_parameterVars PROVE ParametersInv'
    OBVIOUS
  <2>1. CASE Pop
    BY <2>1, PopKeeps
  <2>2. CASE Circular \/ Sorted
    BY <2>2, StopsSorting
  <2>3. CASE ResolveParameter
    BY <2>3, ResolveKeeps
  <2>4. ASSUME params' = params, matrix' = matrix, nodes' = nodes, sorted' = sorted, unresolved' = unresolved,
               properties' = properties, wrongParams' = wrongParams,
               resolving' = resolving \/ (resolving = "resolve" /\ unresolved = 0 /\ resolving' = "done")
        PROVE  ParametersInv'
    <3>1. ParameterTypes' /\ StageInv'
      BY <2>4 DEF ParametersInv, ParameterTypes, StageInv, Elements
    <3>2. SortInv' /\ EachOnceInv' /\ ReferrersFirst'
      BY <2>4, ParametersFrame DEF ParametersInv, SortInv, EachOnceInv, ReferrersFirst, Leaves, Elements, Distinct
    <3>3. (resolving' # "sort" /\ Elements(sorted') = ParamNames) => (resolving # "sort" /\ Elements(sorted) = ParamNames)
      BY <2>4
    <3>4. ValuesInv'
      <4>. SUFFICES ASSUME resolving # "sort", Elements(sorted) = ParamNames PROVE ValuesInv'
        BY <3>3 DEF ValuesInv, Elements
      <4>1. /\ properties = [m \in DOMAIN properties |-> properties[m]]
            /\ DOMAIN properties \cup wrongParams = HadTurn
            /\ wrongParams = {} =>
                  \A p \in (unresolved + 1)..Len(sorted) :
                      HasValue(sorted[p], KnownAt(p)) /\ properties[sorted[p]] = ResolveValue(sorted[p], KnownAt(p))
        BY DEF ParametersInv, ValuesInv
      <4>2. HadTurn' = HadTurn /\ \A p : KnownAt(p)' = KnownAt(p)
        BY <2>4 DEF HadTurn, KnownAt
      <4>3. \A p : /\ HasValue(sorted[p], KnownAt(p))' <=> HasValue(sorted[p], KnownAt(p))
                   /\ ResolveValue(sorted[p], KnownAt(p))' = ResolveValue(sorted[p], KnownAt(p))
        BY <2>4, <4>2 DEF HasValue, Unreferable, ResolveValue
      <4>4. QED
        BY <2>4, <4>1, <4>2, <4>3 DEF ValuesInv
    <3>5. BestInv'
      <4>1. ASSUME resolving # "sort", Elements(sorted) = ParamNames,
                   ReferencesOrder, NEW before \in Orderings, NEW values \in [ParamNames -> {"plain", "map"}],
                   Solves(values, before)
            PROVE  wrongParams = {} /\ \A m \in DOMAIN properties : properties[m] = values[m]
        BY <4>1 DEF ParametersInv, BestInv
      <4>2. QED
        BY <2>4, <3>3, <4>1, ParametersFrame DEF BestInv, Elements
    <3>6. QED
      BY <3>1, <3>2, <3>4, <3>5 DEF ParametersInv
  <2>5. CASE ReturnProperties
    BY <2>4, <2>5 DEF ReturnProperties
  <2>6. CASE UNCHANGED parameterVars
    BY <2>4, <2>6 DEF parameterVars
  <2>7. QED
    BY <2>1, <2>2, <2>3, <2>5, <2>6 DEF ParametersNext, ParametersDone
<1>2. QED
  BY StartsSorting, <1>1, PTL DEF ParametersSpec

\* Resolution is as good as the best order of the parameters: all of them get
\* their right values if any order allows that, and an error is returned
\* otherwise, for any parameters (ResolveParameterValues).
THEOREM AlwaysInRightOrder == ParametersSpec => []ResolvedInRightOrder
<1>1. ParametersInv => ResolvedInRightOrder
  <2>. SUFFICES ASSUME ParametersInv, resolving = "done", ReferencesOrder
                PROVE  /\ wrongParams = {} => DOMAIN properties = ParamNames /\ \E before \in Orderings : Solves(properties, before)
                       /\ wrongParams # {} =>
                             \A before \in Orderings : \A values \in [ParamNames -> {"plain", "map"}] : ~Solves(values, before)
    BY DEF ResolvedInRightOrder
  <2>1. /\ unresolved = 0 /\ sorted \in Seq(ParamNames) /\ Distinct(sorted) /\ params \in ParameterSets
        /\ Len(sorted) \in Nat /\ DOMAIN sorted = 1..Len(sorted)
    BY DEF ParametersInv, ParameterTypes, StageInv, EachOnceInv
  <2>2. CASE Elements(sorted) = ParamNames
    <3>1. ASSUME wrongParams # {}, NEW before \in Orderings, NEW values \in [ParamNames -> {"plain", "map"}]
          PROVE  ~Solves(values, before)
      BY <2>2, <3>1 DEF ParametersInv, BestInv
    <3>2. ASSUME wrongParams = {}
          PROVE  DOMAIN properties = ParamNames /\ \E before \in Orderings : Solves(properties, before)
      <4>1. HadTurn = ParamNames
        BY <2>1, <2>2 DEF HadTurn, Elements
      <4>2. DOMAIN properties = ParamNames
        BY <2>2, <3>2, <4>1 DEF ParametersInv, ValuesInv
      <4>3. \A p \in 1..Len(sorted) :
                  HasValue(sorted[p], KnownAt(p)) /\ properties[sorted[p]] = ResolveValue(sorted[p], KnownAt(p))
        BY <2>1, <2>2, <3>2 DEF ParametersInv, ValuesInv
      <4>. DEFINE before == [m \in ParamNames |-> {k \in ParamNames : \E p, q \in DOMAIN sorted :
                                                       p < q /\ sorted[p] = m /\ sorted[q] = k}]
      <4>4. ASSUME NEW p \in DOMAIN sorted
            PROVE  before[sorted[p]] = {sorted[q] : q \in (p + 1)..Len(sorted)} /\ sorted[p] \in ParamNames
        <5>1. sorted[p] \in ParamNames
          BY <2>1
        <5>2. \A q : q \in (p + 1)..Len(sorted) <=> q \in DOMAIN sorted /\ p < q
          BY <2>1
        <5>3. before[sorted[p]] \subseteq {sorted[q] : q \in (p + 1)..Len(sorted)}
          <6>1. ASSUME NEW k \in before[sorted[p]] PROVE \E q \in (p + 1)..Len(sorted) : k = sorted[q]
            <7>1. PICK i, j \in DOMAIN sorted : i < j /\ sorted[i] = sorted[p] /\ sorted[j] = k
              BY <5>1
            <7>2. i = p
              BY <2>1, <7>1 DEF Distinct
            <7>3. QED
              BY <5>2, <7>1, <7>2
          <6>2. QED
            BY <6>1
        <5>4. {sorted[q] : q \in (p + 1)..Len(sorted)} \subseteq before[sorted[p]]
          <6>1. ASSUME NEW q \in (p + 1)..Len(sorted) PROVE sorted[q] \in before[sorted[p]]
            BY <2>1, <5>1, <5>2
          <6>2. QED
            BY <6>1
        <5>5. QED
          BY <5>1, <5>3, <5>4
      <4>5. before \in Orderings
        <5>1. before \in [ParamNames -> SUBSET ParamNames]
          OBVIOUS
        <5>2. ASSUME NEW m \in ParamNames PROVE m \notin before[m]
          BY <2>1 DEF Distinct
        <5>3. ASSUME NEW m \in ParamNames, NEW k \in before[m], NEW l \in before[k] PROVE l \in before[m]
          <6>1. PICK p, q \in DOMAIN sorted : p < q /\ sorted[p] = m /\ sorted[q] = k
            OBVIOUS
          <6>2. PICK r, s \in DOMAIN sorted : r < s /\ sorted[r] = k /\ sorted[s] = l
            OBVIOUS
          <6>3. r = q
            BY <2>1, <6>1, <6>2 DEF Distinct
          <6>4. p < s /\ l \in ParamNames
            BY <2>1, <6>1, <6>2, <6>3
          <6>5. QED
            BY <6>1, <6>2, <6>4
        <5>. HIDE DEF before
        <5>4. QED
          BY <5>1, <5>2, <5>3 DEF Orderings
      <4>6. Solves(properties, before)
        <5>1. ASSUME NEW m \in ParamNames
              PROVE  /\ HasValue(m, [k \in before[m] |-> properties[k]])
                     /\ properties[m] = ResolveValue(m, [k \in before[m] |-> properties[k]])
          <6>1. PICK p \in DOMAIN sorted : sorted[p] = m
            BY <2>2 DEF Elements
          <6>2. KnownAt(p) = [k \in before[m] |-> properties[k]]
            BY <4>4, <6>1 DEF KnownAt
          <6>. HIDE DEF before
          <6>3. QED
            BY <2>1, <4>3, <6>1, <6>2
        <5>. HIDE DEF before
        <5>2. QED
          BY <5>1 DEF Solves
      <4>. HIDE DEF before
      <4>7. QED
        BY <4>2, <4>5, <4>6
    <3>3. QED
      BY <3>1, <3>2
  <2>3. CASE Elements(sorted) # ParamNames
    <3>1. /\ nodes = <<>> /\ matrix # {} /\ wrongParams = {e[1] : e \in matrix}
          /\ matrix = {e \in Edges : e[2] \notin Elements(sorted)}
          /\ Elements(sorted) \cup Elements(nodes) = Leaves(matrix, ParamNames)
      BY <2>3 DEF ParametersInv, StageInv, SortInv
    <3>2. Elements(nodes) = {} /\ wrongParams # {}
      BY <3>1 DEF Elements
    <3>3. wrongParams \in SUBSET ParamNames /\ \A u \in wrongParams : \E k \in wrongParams : <<u, k>> \in Edges
      <4>1. wrongParams \in SUBSET ParamNames
        BY <3>1 DEF Edges
      <4>2. ASSUME NEW u \in wrongParams PROVE \E k \in wrongParams : <<u, k>> \in Edges
        <5>1. PICK e \in matrix : e[1] = u
          BY <3>1
        <5>2. e \in Edges /\ e[2] \notin Elements(sorted) /\ e = <<u, e[2]>> /\ e[2] \in ParamNames
          BY <3>1, <5>1 DEF Edges
        <5>3. \E f \in matrix : f[1] = e[2]
          BY <3>1, <3>2, <5>2 DEF Leaves
        <5>4. QED
          BY <3>1, <5>2, <5>3
      <4>3. QED
        BY <4>1, <4>2
    <3>4. ASSUME NEW before \in Orderings, NEW values \in [ParamNames -> {"plain", "map"}], Solves(values, before)
          PROVE  FALSE
      <4>1. ASSUME NEW u \in ParamNames, NEW k \in ParamNames, <<u, k>> \in Edges PROVE u \in before[k]
        <5>1. PICK ref \in References(params[k]) : Matches(ref, u)
          BY <4>1 DEF Edges
        <5>2. ref.config = Own /\ ref.name = u
          BY <5>1 DEF Matches
        <5>3. QED
          BY <2>1, <3>4, <5>1, <5>2, ReferencesAreBefore
      <4>2. \A u \in wrongParams : \E k \in wrongParams : u \in before[k]
        BY <3>3, <4>1
      <4>3. QED
        BY <3>2, <3>3, <4>2, NoCircle
    <3>5. QED
      BY <3>2, <3>4
  <2>4. QED
    BY <2>2, <2>3
<1>2. QED
  BY <1>1, ParametersInvariance, PTL

-----------------------------------------------------------------------------
\* A place in a manifest is a group and an environment of it.
LEMMA PlaceParts ==
    ASSUME NEW c, NEW x \in Places(c)
    PROVE  /\ x = <<x[1], x[2]>> /\ x[1] \in DOMAIN c.groups /\ x[2] \in DOMAIN c.groups[x[1]].environments
           /\ c.groups[x[1]] \in Range(c.groups)
           /\ EnvAt(c, x) \in Range(c.groups[x[1]].environments)
BY DEF Places, Range, EnvAt

LEMMA PlaceOf ==
    ASSUME NEW c, NEW i \in DOMAIN c.groups, NEW j \in DOMAIN c.groups[i].environments
    PROVE  <<i, j>> \in Places(c)
BY DEF Places

\* Places of cases are pairs of numbers.
LEMMA PlacesAreNumbers ==
    ASSUME NEW c \in ManifestCases, NEW x \in Places(c)
    PROVE  x[1] \in Nat /\ x[2] \in Nat
<1>1. c.groups \in Seq(Range(c.groups)) /\ \A g \in Range(c.groups) : g.environments \in Seq(Range(g.environments))
  BY ManifestAssumption DEF IsList
<1>2. /\ c.groups[x[1]] \in Range(c.groups) /\ x[1] \in DOMAIN c.groups
      /\ x[2] \in DOMAIN c.groups[x[1]].environments
  BY PlaceParts
<1>3. \A S, s, k : s \in Seq(S) /\ k \in DOMAIN s => k \in Nat
  OBVIOUS
<1>4. x[1] \in Nat
  BY <1>1, <1>2, <1>3
<1>5. c.groups[x[1]].environments \in Seq(Range(c.groups[x[1]].environments))
  BY <1>1, <1>2
<1>6. x[2] \in Nat
  BY <1>2, <1>3, <1>5
<1>7. QED
  BY <1>4, <1>6

LEMMA Fits ==
    ASSUME NEW c, Errors(c) = {}
    PROVE  /\ ~RefusedAtOnce(c) /\ ProjectErrors(c) = {}
           /\ c.needEnvironments => EnvironmentErrors(c) = {}
           /\ c.needAccounts => AccountErrors(c) = {}
BY DEF Errors

\* If nothing is wrong with the environments, no two have one name, and each
\* selected one is usable.
LEMMA EnvironmentsFit ==
    ASSUME NEW c, EnvironmentErrors(c) = {}
    PROVE  /\ \A x, y \in Places(c) : x # y => EnvAt(c, x).name # EnvAt(c, y).name
           /\ \A x \in Places(c) : EnvAt(c, x).name # ""
           /\ "" \notin GroupNames(c)
           /\ \A i, j \in DOMAIN c.groups : i # j => c.groups[i].name # c.groups[j].name
           /\ \A x \in SelectedFrom(c) : ValidEnvironment(c, EnvAt(c, x))
           /\ EnvNames(c) # {}
<1>1. /\ NameErrors(c) = {} /\ EnvNames(c) # {}
      /\ When(\E x \in SelectedFrom(c) : ~ValidEnvironment(c, EnvAt(c, x)), "invalid environment") = {}
  BY DEF EnvironmentErrors
<1>2. \A p, e : When(p, e) = {} => ~p
  BY DEF When
<1>3. /\ ~(\E x \in NamesSeen(c) : EnvAt(c, x).name = "")
      /\ ~(\E x, y \in NamesSeen(c) : x # y /\ EnvAt(c, x).name = EnvAt(c, y).name /\ EnvAt(c, x).name # "")
      /\ "" \notin GroupNames(c)
      /\ ~Repeats([i \in DOMAIN c.groups |-> c.groups[i].name])
  BY <1>1 DEF NameErrors, When
<1>4. \A i, j \in DOMAIN c.groups : i # j => c.groups[i].name # c.groups[j].name
  BY <1>3 DEF Repeats
<1>5. \A x \in SelectedFrom(c) : ValidEnvironment(c, EnvAt(c, x))
  BY <1>1 DEF When
<1>6. QED
  BY <1>1, <1>3, <1>4, <1>5 DEF NamesSeen

LEMMA WantedIsNotSkipped ==
    ASSUME NEW c, NEW x
    PROVE  Wanted(c, x) <=> ~ShouldSkip(c, x)
BY DEF Wanted, ShouldSkip

\* Then those selected are those asked for.
LEMMA SelectedAsAsked ==
    ASSUME NEW c \in ManifestCases, EnvironmentErrors(c) = {}
    PROVE  SelectedFrom(c) = {x \in Places(c) : Wanted(c, x)}
<1>1. ASSUME NEW x \in Places(c), NEW y \in Places(c), SeenBefore(y, x)
      PROVE  EnvAt(c, y).name # EnvAt(c, x).name
  <2>1. y # x
    BY <1>1, PlacesAreNumbers DEF SeenBefore
  <2>2. QED
    BY <2>1, EnvironmentsFit
<1>2. QED
  BY <1>1, EnvironmentsFit, WantedIsNotSkipped DEF SelectedFrom

LEMMA AsAsked ==
    ASSUME NEW c \in ManifestCases, EnvironmentErrors(c) = {}
    PROVE  /\ {<<e.group, e.name>> : e \in LoadEnvironments(c)} =
                 {<<GroupAt(c, x), EnvAt(c, x).name>> : x \in {x \in Places(c) : Wanted(c, x)}}
           /\ \A e \in LoadEnvironments(c) : ValidCredentials(c, e.auth)
<1>1. \A x : LoadEnvironment(c, x).group = GroupAt(c, x) /\ LoadEnvironment(c, x).name = EnvAt(c, x).name
             /\ LoadEnvironment(c, x).auth = LoadAuth(c, EnvAt(c, x).auth)
  BY DEF LoadEnvironment
<1>2. {<<e.group, e.name>> : e \in LoadEnvironments(c)} = {<<GroupAt(c, x), EnvAt(c, x).name>> : x \in SelectedFrom(c)}
  BY <1>1 DEF LoadEnvironments
<1>3. ASSUME NEW x \in SelectedFrom(c) PROVE ValidCredentials(c, LoadAuth(c, EnvAt(c, x).auth))
  <2>1. ValidCredentials(c, EnvAt(c, x).auth)
    BY EnvironmentsFit DEF ValidEnvironment, ValidAuth
  <2>. DEFINE a == EnvAt(c, x).auth
              l == LoadAuth(c, a)
  <2>2. /\ l.token = {t.name : t \in a.token} /\ l.platform = {t.name : t \in PlatformToken(c, a)}
        /\ l.oauth = {LoadOAuth(c, o) : o \in a.oauth}
    BY DEF LoadAuth
  <2>3. PlatformToken(c, l) = {} <=> PlatformToken(c, a) = {}
    <3>1. ~c.platformTokens => PlatformToken(c, l) = {} /\ PlatformToken(c, a) = {}
      BY DEF PlatformToken
    <3>2. c.platformTokens => PlatformToken(c, l) = l.platform
      BY DEF PlatformToken
    <3>3. l.platform = {} <=> PlatformToken(c, a) = {}
      <4>1. l.platform = {t.name : t \in PlatformToken(c, a)}
        BY <2>2
      <4>. HIDE DEF l
      <4>2. QED
        BY <4>1
    <3>4. QED
      BY <3>1, <3>2, <3>3
  <2>. HIDE DEF l, a
  <2>4. (l.token = {} <=> a.token = {}) /\ (l.oauth = {} <=> a.oauth = {})
    BY <2>2
  <2>5. QED
    BY <2>1, <2>3, <2>4 DEF ValidCredentials, l, a
<1>4. QED
  BY <1>1, <1>2, <1>3, SelectedAsAsked DEF LoadEnvironments

\* Sequences that begin and go on alike go on with the same.
LEMMA SameEnds ==
    ASSUME NEW S, NEW s \in Seq(S), NEW t \in Seq(S), NEW u \in Seq(S), s \o t = s \o u
    PROVE  t = u
<1>1. Len(s \o t) = Len(s) + Len(t) /\ Len(s \o u) = Len(s) + Len(u)
  OBVIOUS
<1>2. Len(t) = Len(u) /\ Len(s) \in Nat /\ Len(t) \in Nat
  BY <1>1
<1>3. ASSUME NEW i \in 1..Len(t) PROVE t[i] = u[i]
  <2>1. (s \o t)[Len(s) + i] = t[i] /\ (s \o u)[Len(s) + i] = u[i]
    BY <1>2
  <2>2. QED
    BY <2>1
<1>4. QED
  BY <1>2, <1>3

LEMMA ProjectsDiffer ==
    ASSUME NEW c \in ManifestCases, ProjectErrors(c) = {}, NEW p \in ParseProjects(c), NEW q \in ParseProjects(c), p.name = q.name
    PROVE  p = q
<1>0. ~(\E i, j \in DOMAIN c.projects : i # j /\
          \E x \in ProjectsOf(c, c.projects[i]), y \in ProjectsOf(c, c.projects[j]) : x.name = y.name)
  BY DEF ProjectErrors, When
<1>1. PICK i \in DOMAIN c.projects : p \in ProjectsOf(c, c.projects[i])
  BY DEF ParseProjects, Range
<1>2. PICK j \in DOMAIN c.projects : q \in ProjectsOf(c, c.projects[j])
  BY DEF ParseProjects, Range
<1>3. i = j
  BY <1>0, <1>1, <1>2
<1>. DEFINE d == c.projects[i]
<1>4. CASE d.type = "grouping"
  <2>1. PICK f \in Folders(c, d.path) : p = [name |-> d.name \o f, path |-> Append(d.path, f)]
    BY <1>1, <1>4 DEF ProjectsOf
  <2>2. PICK g \in Folders(c, d.path) : q = [name |-> d.name \o g, path |-> Append(d.path, g)]
    BY <1>2, <1>3, <1>4 DEF ProjectsOf
  <2>3. d.name \in Seq(STRING) /\ f \in Seq(STRING) /\ g \in Seq(STRING)
    BY ManifestAssumption DEF Range, Folders
  <2>4. d.name \o f = d.name \o g
    BY <2>1, <2>2
  <2>5. f = g
    BY <2>3, <2>4, SameEnds
  <2>6. QED
    BY <2>1, <2>2, <2>5
<1>5. CASE d.type # "grouping"
  BY <1>1, <1>2, <1>3, <1>5 DEF ProjectsOf
<1>6. QED
  BY <1>4, <1>5

-----------------------------------------------------------------------------
\* What environments that are not asked for have makes no difference.
LEMMA RelievedKeeps ==
    ASSUME NEW c \in ManifestCases, NEW auth, NEW url, NEW r, r = Relieved(c, auth, url)
    PROVE  /\ DOMAIN r.groups = DOMAIN c.groups
           /\ \A i \in DOMAIN c.groups :
                 /\ r.groups[i].name = c.groups[i].name
                 /\ DOMAIN r.groups[i].environments = DOMAIN c.groups[i].environments
           /\ \A i \in DOMAIN c.groups : \A j \in DOMAIN c.groups[i].environments :
                 /\ r.groups[i].environments[j].name = c.groups[i].environments[j].name
                 /\ Wanted(c, <<i, j>>) => r.groups[i].environments[j] = c.groups[i].environments[j]
           /\ \A f \in Fields \ {"groups"} : r[f] = c[f]
<1>1. r.groups = [i \in DOMAIN c.groups |-> RelievedGroup(c, i, auth, url)] /\ \A f \in Fields \ {"groups"} : r[f] = c[f]
  BY ManifestAssumption DEF Relieved, Fields
<1>2. ASSUME NEW i \in DOMAIN c.groups
      PROVE  /\ r.groups[i].name = c.groups[i].name
             /\ r.groups[i].environments = [j \in DOMAIN c.groups[i].environments |->
                    IF Wanted(c, <<i, j>>) THEN c.groups[i].environments[j]
                    ELSE [c.groups[i].environments[j] EXCEPT !.auth = auth, !.url = url]]
  <2>1. c.groups[i] \in Range(c.groups)
    BY DEF Range
  <2>2. {"name", "environments"} \subseteq DOMAIN c.groups[i]
    BY <2>1, ManifestAssumption
  <2>3. QED
    BY <1>1, <2>2 DEF RelievedGroup
<1>3. ASSUME NEW i \in DOMAIN c.groups, NEW j \in DOMAIN c.groups[i].environments
      PROVE  /\ r.groups[i].environments[j].name = c.groups[i].environments[j].name
             /\ Wanted(c, <<i, j>>) => r.groups[i].environments[j] = c.groups[i].environments[j]
  <2>1. c.groups[i] \in Range(c.groups) /\ c.groups[i].environments[j] \in Range(c.groups[i].environments)
    BY DEF Range
  <2>2. "name" \in DOMAIN c.groups[i].environments[j]
    BY <2>1, ManifestAssumption
  <2>3. CASE Wanted(c, <<i, j>>)
    BY <1>2, <2>3
  <2>4. CASE ~Wanted(c, <<i, j>>)
    <3>1. r.groups[i].environments[j] = [c.groups[i].environments[j] EXCEPT !.auth = auth, !.url = url]
      BY <1>2, <2>4
    <3>2. QED
      BY <2>2, <2>4, <3>1
  <2>5. QED
    BY <2>3, <2>4
<1>5. DOMAIN r.groups = DOMAIN c.groups
  BY <1>1
<1>6. \A i \in DOMAIN c.groups : DOMAIN r.groups[i].environments = DOMAIN c.groups[i].environments
  BY <1>2
<1>7. QED
  BY <1>1, <1>2, <1>3, <1>5, <1>6

\* What is looked up is the same wherever the same can be looked up.
SameLookups(c, d) == c.resolve = d.resolve /\ c.variables = d.variables /\ c.platformTokens = d.platformTokens

LEMMA LookupsDecide ==
    ASSUME NEW c, NEW d, SameLookups(c, d)
    PROVE  /\ \A v : CanResolve(c, v) = CanResolve(d, v)
           /\ \A s : ValidSecret(c, s) = ValidSecret(d, s)
           /\ \A u : ValidUrl(c, u) = ValidUrl(d, u) /\ LoadUrl(c, u) = LoadUrl(d, u)
           /\ \A u : ValidEndpoint(c, u) = ValidEndpoint(d, u)
           /\ \A o : ValidOAuth(c, o) = ValidOAuth(d, o) /\ LoadOAuth(c, o) = LoadOAuth(d, o)
           /\ \A a : PlatformToken(c, a) = PlatformToken(d, a)
           /\ \A a : ValidCredentials(c, a) = ValidCredentials(d, a)
           /\ \A a : ValidAuth(c, a) = ValidAuth(d, a) /\ LoadAuth(c, a) = LoadAuth(d, a)
           /\ \A a : ValidAccount(c, a) = ValidAccount(d, a) /\ LoadAccount(c, a) = LoadAccount(d, a)
           /\ \A e : ValidEnvironment(c, e) = ValidEnvironment(d, e)
<1>1. \A v : CanResolve(c, v) = CanResolve(d, v)
  BY DEF SameLookups, CanResolve
<1>11. \A s : ValidSecret(c, s) = ValidSecret(d, s)
  BY <1>1 DEF ValidSecret
<1>2. \A u : ValidUrl(c, u) = ValidUrl(d, u) /\ LoadUrl(c, u) = LoadUrl(d, u)
  BY <1>1 DEF SameLookups, ValidUrl, LoadUrl
<1>3. \A u : ValidEndpoint(c, u) = ValidEndpoint(d, u)
  BY <1>2 DEF ValidEndpoint, SameLookups
<1>4. \A o : ValidOAuth(c, o) = ValidOAuth(d, o) /\ LoadOAuth(c, o) = LoadOAuth(d, o)
  BY <1>2, <1>3, <1>11 DEF ValidOAuth, LoadOAuth
<1>5. \A a : PlatformToken(c, a) = PlatformToken(d, a)
  BY DEF SameLookups, PlatformToken
<1>6. \A a : ValidCredentials(c, a) = ValidCredentials(d, a)
  BY <1>5 DEF ValidCredentials
<1>7. \A a : ValidAuth(c, a) = ValidAuth(d, a) /\ LoadAuth(c, a) = LoadAuth(d, a)
  BY <1>4, <1>5, <1>6, <1>11 DEF ValidAuth, LoadAuth
<1>12. \A u : LoadUuid(c, u) = LoadUuid(d, u)
  BY DEF LoadUuid, SameLookups
<1>8. \A a : ValidAccount(c, a) = ValidAccount(d, a) /\ LoadAccount(c, a) = LoadAccount(d, a)
  BY <1>2, <1>3, <1>4, <1>12 DEF ValidAccount, LoadAccount, ValidUuid
<1>9. \A e : ValidEnvironment(c, e) = ValidEnvironment(d, e)
  BY <1>2, <1>7 DEF ValidEnvironment
<1>10. QED
  BY <1>1, <1>2, <1>3, <1>4, <1>5, <1>6, <1>7, <1>8, <1>9, <1>11

LEMMA RelievedErrsAlike ==
    ASSUME NEW c \in ManifestCases, NEW auth, NEW url
    PROVE  Errors(Relieved(c, auth, url)) = Errors(c)
<1>. DEFINE r == Relieved(c, auth, url)
<1>0. /\ DOMAIN r.groups = DOMAIN c.groups
      /\ \A i \in DOMAIN c.groups :
            /\ r.groups[i].name = c.groups[i].name
            /\ DOMAIN r.groups[i].environments = DOMAIN c.groups[i].environments
      /\ \A i \in DOMAIN c.groups : \A j \in DOMAIN c.groups[i].environments :
            /\ r.groups[i].environments[j].name = c.groups[i].environments[j].name
            /\ Wanted(c, <<i, j>>) => r.groups[i].environments[j] = c.groups[i].environments[j]
      /\ \A f \in Fields \ {"groups"} : r[f] = c[f]
  BY RelievedKeeps
<1>. HIDE DEF r
<1>1. /\ r.version = c.version /\ r.accounts = c.accounts /\ r.projects = c.projects /\ r.onlyGroups = c.onlyGroups
      /\ r.environments = c.environments /\ r.account = c.account /\ r.needEnvironments = c.needEnvironments
      /\ r.needAccounts = c.needAccounts /\ r.folders = c.folders /\ SameLookups(r, c)
  BY <1>0 DEF Fields, SameLookups
<1>2. Places(r) = Places(c)
  BY <1>0 DEF Places
<1>3. \A x \in Places(c) : /\ GroupAt(r, x) = GroupAt(c, x) /\ EnvAt(r, x).name = EnvAt(c, x).name
                           /\ Wanted(c, x) => EnvAt(r, x) = EnvAt(c, x)
  BY <1>0, PlaceParts DEF GroupAt, EnvAt
<1>4. \A x \in Places(c) : ShouldSkip(r, x) = ShouldSkip(c, x)
  BY <1>1, <1>3 DEF ShouldSkip
<1>5. SelectedFrom(r) = SelectedFrom(c)
  BY <1>2, <1>3, <1>4 DEF SelectedFrom
<1>6. \A x \in SelectedFrom(c) : ValidEnvironment(r, EnvAt(r, x)) = ValidEnvironment(c, EnvAt(c, x))
  BY <1>1, <1>3, LookupsDecide, WantedIsNotSkipped DEF SelectedFrom
<1>7. GroupNames(r) = GroupNames(c)
  BY <1>0 DEF GroupNames, Range
<1>8. EnvNames(r) = EnvNames(c)
  BY <1>2, <1>3 DEF EnvNames
<1>9. [i \in DOMAIN r.groups |-> r.groups[i].name] = [i \in DOMAIN c.groups |-> c.groups[i].name]
  BY <1>0
<1>10. /\ (\E x \in NamesSeen(r) : EnvAt(r, x).name = "") <=> (\E x \in NamesSeen(c) : EnvAt(c, x).name = "")
       /\ (\E x, y \in NamesSeen(r) : x # y /\ EnvAt(r, x).name = EnvAt(r, y).name /\ EnvAt(r, x).name # "") <=>
          (\E x, y \in NamesSeen(c) : x # y /\ EnvAt(c, x).name = EnvAt(c, y).name /\ EnvAt(c, x).name # "")
  BY <1>2, <1>3 DEF NamesSeen
<1>11. NameErrors(r) = NameErrors(c)
  BY <1>7, <1>9, <1>10 DEF NameErrors, When
<1>12. RestrictionErrors(r) = RestrictionErrors(c)
  BY <1>1, <1>7, <1>8 DEF RestrictionErrors
<1>13. EnvironmentErrors(r) = EnvironmentErrors(c)
  <2>1. When(\E x \in SelectedFrom(r) : ~ValidEnvironment(r, EnvAt(r, x)), "invalid environment") =
        When(\E x \in SelectedFrom(c) : ~ValidEnvironment(c, EnvAt(c, x)), "invalid environment")
    BY <1>5, <1>6 DEF When
  <2>2. QED
    BY <1>8, <1>11, <1>12, <2>1 DEF EnvironmentErrors
<1>14. AccountErrors(r) = AccountErrors(c)
  <2>1. ChosenAccounts(r) = ChosenAccounts(c)
    BY <1>1 DEF ChosenAccounts
  <2>2. When(\E i \in ChosenAccounts(r) : ~ValidAccount(r, r.accounts[i]), "invalid account") =
        When(\E i \in ChosenAccounts(c) : ~ValidAccount(c, c.accounts[i]), "invalid account")
    <3>1. (\E i \in ChosenAccounts(r) : ~ValidAccount(r, r.accounts[i])) <=>
          (\E i \in ChosenAccounts(c) : ~ValidAccount(c, c.accounts[i]))
      BY <1>1, <2>1, LookupsDecide
    <3>2. QED
      BY <3>1 DEF When
  <2>3. QED
    BY <1>1, <2>1, <2>2 DEF AccountErrors
<1>15. ProjectErrors(r) = ProjectErrors(c)
  <2>1. \A p : ProjectsOf(r, p) = ProjectsOf(c, p)
    BY <1>1 DEF ProjectsOf, Folders
  <2>2. \A p : ValidProject(r, p) = ValidProject(c, p)
    BY <2>1 DEF ValidProject
  <2>3. QED
    BY <1>1, <2>1, <2>2 DEF ProjectErrors, When
<1>16. RefusedAtOnce(r) = RefusedAtOnce(c)
  BY <1>0, <1>1 DEF RefusedAtOnce
<1>17. QED
  BY <1>1, <1>13, <1>14, <1>15, <1>16 DEF Errors, r

-----------------------------------------------------------------------------
\* What is written is read as it was.
LEMMA SetToSeqLists ==
    ASSUME NEW S, IsFiniteSet(S)
    PROVE  /\ DOMAIN SetToSeq(S) \subseteq Nat
           /\ \A x \in S : \E i \in DOMAIN SetToSeq(S) : SetToSeq(S)[i] = x
           /\ \A i \in DOMAIN SetToSeq(S) : SetToSeq(S)[i] \in S
           /\ \A i, j \in DOMAIN SetToSeq(S) : SetToSeq(S)[i] = SetToSeq(S)[j] => i = j
<1>. DEFINE D == 1..Cardinality(S)
<1>1. Cardinality(S) \in Nat /\ ExistsBijection(D, S)
  BY FS_CardinalityType
<1>2. \E f \in [D -> S] : IsInjective(f)
  BY <1>1 DEF ExistsBijection, Bijection, Injection
<1>3. SetToSeq(S) \in [D -> S] /\ IsInjective(SetToSeq(S))
  BY <1>2 DEF SetToSeq
<1>4. SetToSeq(S) \in Injection(D, S)
  BY <1>3 DEF Injection
<1>5. Cardinality(D) = Cardinality(S)
  BY <1>1, FS_Interval
<1>6. SetToSeq(S) \in Surjection(D, S)
  BY <1>4, <1>5, FS_Injection
<1>7. QED
  BY <1>1, <1>3, <1>6 DEF Surjection, IsInjective

LEMMA PlacesAreFinite ==
    ASSUME NEW c \in ManifestCases
    PROVE  IsFiniteSet(Places(c)) /\ IsFiniteSet(DOMAIN c.accounts)
<1>0. ASSUME NEW s, IsList(s) PROVE IsFiniteSet(DOMAIN s)
  <2>1. Len(s) \in Nat /\ DOMAIN s = 1..Len(s)
    BY <1>0 DEF IsList
  <2>2. QED
    BY <2>1, FS_Interval
<1>1. IsFiniteSet(DOMAIN c.groups) /\ IsFiniteSet(DOMAIN c.accounts)
  BY <1>0, ManifestAssumption
<1>. DEFINE At(i) == {<<i, j>> : j \in DOMAIN c.groups[i].environments}
            all == {At(i) : i \in DOMAIN c.groups}
<1>2. IsFiniteSet(all)
  <2>. DEFINE f == [i \in DOMAIN c.groups |-> At(i)]
  <2>1. f \in Surjection(DOMAIN c.groups, all)
    BY DEF Surjection
  <2>2. QED
    BY <1>1, <2>1, FS_Surjection
<1>3. ASSUME NEW i \in DOMAIN c.groups PROVE IsFiniteSet(At(i))
  <2>. DEFINE T == DOMAIN c.groups[i].environments
              f == [j \in T |-> <<i, j>>]
  <2>1. c.groups[i] \in Range(c.groups)
    BY DEF Range
  <2>2. IsFiniteSet(T)
    BY <1>0, <2>1, ManifestAssumption
  <2>3. f \in Surjection(T, At(i))
    BY DEF Surjection
  <2>4. QED
    BY <2>2, <2>3, FS_Surjection
<1>4. IsFiniteSet(UNION all)
  BY <1>2, <1>3, FS_UNION
<1>5. QED
  BY <1>1, <1>4 DEF Places

\* But for one more slash: a URL of no more than that is not read again.
LEMMA UrlComesBack ==
    ASSUME NEW c, c.resolve, NEW u, ValidUrl(c, u)
    PROVE  /\ ValidUrl(c, WriteUrl(LoadUrl(c, u))) <=> ~(LoadUrl(c, u).type = "value" /\ LoadUrl(c, u).value = "")
           /\ LoadUrl(c, WriteUrl(LoadUrl(c, u))) = TrimAgain(LoadUrl(c, u))
<1>1. CASE u.type = "environment"
  BY <1>1 DEF ValidUrl, LoadUrl, WriteUrl, TrimAgain
<1>2. CASE u.type # "environment"
  <2>. DEFINE l == LoadUrl(c, u)
              v == WriteUrl(l)
  <2>1. l.type = "value" /\ l.value = TrimSlash(u.value) /\ l = [type |-> "value", name |-> "", value |-> TrimSlash(u.value)]
    BY <1>2 DEF LoadUrl
  <2>. HIDE DEF l
  <2>2. v.type = "" /\ v.value = l.value
    BY <2>1 DEF WriteUrl
  <2>. HIDE DEF v
  <2>3. LoadUrl(c, v) = [type |-> "value", name |-> "", value |-> TrimSlash(l.value)]
    BY <2>2 DEF LoadUrl
  <2>4. TrimAgain(l) = [type |-> "value", name |-> "", value |-> TrimSlash(l.value)]
    BY <2>1 DEF TrimAgain
  <2>5. ValidUrl(c, v) <=> l.value # ""
    BY <2>2 DEF ValidUrl
  <2>6. QED
    BY <2>1, <2>3, <2>4, <2>5 DEF l, v
<1>3. QED
  BY <1>1, <1>2

\* Hosts are the same with and without a slash at the end.
LEMMA EndpointComesBack ==
    ASSUME NEW c, c.resolve, NEW u, ValidEndpoint(c, u)
    PROVE  /\ ValidEndpoint(c, WriteUrl(LoadUrl(c, u)))
           /\ LoadUrl(c, WriteUrl(LoadUrl(c, u))) = TrimAgain(LoadUrl(c, u))
<1>. DEFINE l == LoadUrl(c, u)
<1>1. ValidUrl(c, u) /\ l.value \in Hosts
  BY DEF ValidEndpoint
<1>2. l.value # "" /\ TrimSlash(l.value) \in Hosts
  BY <1>1, UrlAssumption DEF TrimSlash
<1>3. ValidUrl(c, WriteUrl(l)) /\ LoadUrl(c, WriteUrl(l)) = TrimAgain(l)
  BY <1>1, <1>2, UrlComesBack
<1>4. TrimAgain(l).value \in Hosts
  BY <1>1, <1>2 DEF TrimAgain, LoadUrl
<1>5. QED
  BY <1>3, <1>4 DEF ValidEndpoint

LEMMA OAuthComesBack ==
    ASSUME NEW c, c.resolve, NEW o, ValidOAuth(c, o)
    PROVE  /\ ValidOAuth(c, WriteOAuth(LoadOAuth(c, o)))
           /\ LoadOAuth(c, WriteOAuth(LoadOAuth(c, o))) = OAuthAgain(LoadOAuth(c, o))
<1>. DEFINE l == LoadOAuth(c, o)
            w == WriteOAuth(l)
<1>1. l = [id |-> o.id.name, secret |-> o.secret.name, endpoint |-> {LoadUrl(c, u) : u \in o.endpoint}]
  BY DEF LoadOAuth
<1>2. w.id = WriteSecret(o.id.name) /\ w.secret = WriteSecret(o.secret.name) /\ w.endpoint = {WriteUrl(u) : u \in l.endpoint}
  BY <1>1 DEF WriteOAuth
<1>3. \A u \in o.endpoint : /\ ValidEndpoint(c, WriteUrl(LoadUrl(c, u)))
                            /\ LoadUrl(c, WriteUrl(LoadUrl(c, u))) = TrimAgain(LoadUrl(c, u))
  BY EndpointComesBack DEF ValidOAuth
<1>4. w.endpoint = {WriteUrl(LoadUrl(c, u)) : u \in o.endpoint}
  BY <1>1, <1>2
<1>5. {LoadUrl(c, u) : u \in w.endpoint} = {TrimAgain(LoadUrl(c, u)) : u \in o.endpoint}
  BY <1>3, <1>4
<1>12. \A n : WriteSecret(n).name = n /\ WriteSecret(n).type = "environment"
  BY DEF WriteSecret
<1>13. w.id.name = o.id.name /\ w.secret.name = o.secret.name
  BY <1>2, <1>12
<1>6. LoadOAuth(c, w) = [id |-> o.id.name, secret |-> o.secret.name, endpoint |-> {TrimAgain(LoadUrl(c, u)) : u \in o.endpoint}]
  BY <1>5, <1>13 DEF LoadOAuth
<1>10. {TrimAgain(u) : u \in l.endpoint} = {TrimAgain(LoadUrl(c, u)) : u \in o.endpoint}
  BY <1>1
<1>11. OAuthAgain(l) = [id |-> o.id.name, secret |-> o.secret.name, endpoint |-> {TrimAgain(u) : u \in l.endpoint}]
  BY <1>1 DEF OAuthAgain
<1>7. LoadOAuth(c, w) = OAuthAgain(l)
  BY <1>6, <1>10, <1>11
<1>8. ValidOAuth(c, w)
  <2>3. \A n : CanResolve(c, n) => ValidSecret(c, WriteSecret(n))
    BY <1>12 DEF ValidSecret
  <2>4. CanResolve(c, o.id.name) /\ CanResolve(c, o.secret.name)
    BY DEF ValidOAuth, ValidSecret
  <2>1. ValidSecret(c, w.id) /\ ValidSecret(c, w.secret)
    BY <1>2, <2>3, <2>4
  <2>2. QED
    BY <1>3, <1>4, <2>1 DEF ValidOAuth
<1>9. QED
  BY <1>7, <1>8

LEMMA EnvironmentReadAgain ==
    ASSUME NEW n, NEW g, NEW u, NEW a
    PROVE  EnvironmentAgain([name |-> n, group |-> g, url |-> u, auth |-> a]) =
              [name |-> n, group |-> g, url |-> TrimAgain(u), auth |-> AuthAgain(a)]
<1>. DEFINE e == [name |-> n, group |-> g, url |-> u, auth |-> a]
            f == [e EXCEPT !.url = TrimAgain(u)]
<1>1. f = [name |-> n, group |-> g, url |-> TrimAgain(u), auth |-> a]
  OBVIOUS
<1>2. [[name |-> n, group |-> g, url |-> TrimAgain(u), auth |-> a] EXCEPT !.auth = AuthAgain(@)] =
      [name |-> n, group |-> g, url |-> TrimAgain(u), auth |-> AuthAgain(a)]
  OBVIOUS
<1>3. e.url = u /\ f.auth = a
  OBVIOUS
<1>4. EnvironmentAgain(e) = [f EXCEPT !.auth = AuthAgain(@)]
  BY <1>3 DEF EnvironmentAgain
<1>. HIDE DEF f
<1>5. QED
  BY <1>1, <1>2, <1>4

LEMMA AccountReadAgain ==
    ASSUME NEW n, NEW i, NEW o, NEW urls
    PROVE  AccountAgain([name |-> n, uuid |-> i, oauth |-> o, url |-> urls]) =
              [name |-> n, uuid |-> i, oauth |-> OAuthAgain(o), url |-> {TrimAgain(u) : u \in urls}]
<1>. DEFINE a == [name |-> n, uuid |-> i, oauth |-> o, url |-> urls]
            b == [a EXCEPT !.oauth = OAuthAgain(o)]
            again == {TrimAgain(u) : u \in urls}
<1>. HIDE DEF again
<1>1. b = [name |-> n, uuid |-> i, oauth |-> OAuthAgain(o), url |-> urls]
  OBVIOUS
<1>2. [[name |-> n, uuid |-> i, oauth |-> OAuthAgain(o), url |-> urls] EXCEPT !.url = again] =
      [name |-> n, uuid |-> i, oauth |-> OAuthAgain(o), url |-> again]
  OBVIOUS
<1>3. a.oauth = o /\ b.url = urls
  OBVIOUS
<1>4. AccountAgain(a) = [b EXCEPT !.url = again]
  BY <1>3 DEF AccountAgain, again
<1>. HIDE DEF b
<1>5. QED
  BY <1>1, <1>2, <1>4 DEF again

LEMMA AuthComesBack ==
    ASSUME NEW c, c.resolve, NEW a, ValidAuth(c, a)
    PROVE  /\ ValidAuth(c, WriteAuth(LoadAuth(c, a)))
           /\ LoadAuth(c, WriteAuth(LoadAuth(c, a))) = AuthAgain(LoadAuth(c, a))
<1>. DEFINE l == LoadAuth(c, a)
            w == WriteAuth(l)
            tokens == {t.name : t \in a.token}
            platform == {t.name : t \in PlatformToken(c, a)}
<1>1. l = [token |-> tokens, oauth |-> {LoadOAuth(c, o) : o \in a.oauth}, platform |-> platform]
  BY DEF LoadAuth
<1>2. /\ w.token = {WriteSecret(t) : t \in tokens} /\ w.platform = {WriteSecret(t) : t \in platform}
      /\ w.oauth = {WriteOAuth(o) : o \in l.oauth}
  BY <1>1 DEF WriteAuth
<1>. HIDE DEF l, w
<1>3. \A o \in a.oauth : /\ ValidOAuth(c, WriteOAuth(LoadOAuth(c, o)))
                         /\ LoadOAuth(c, WriteOAuth(LoadOAuth(c, o))) = OAuthAgain(LoadOAuth(c, o))
  BY OAuthComesBack DEF ValidAuth
<1>4. w.oauth = {WriteOAuth(LoadOAuth(c, o)) : o \in a.oauth}
  BY <1>1, <1>2
<1>5. {LoadOAuth(c, o) : o \in w.oauth} = {OAuthAgain(LoadOAuth(c, o)) : o \in a.oauth}
  BY <1>3, <1>4
<1>6. PlatformToken(c, w) = w.platform
  BY <1>2 DEF PlatformToken
<1>14. \A n : WriteSecret(n).name = n
  BY DEF WriteSecret
<1>13. \A T : {s.name : s \in {WriteSecret(t) : t \in T}} = T
  BY <1>14
<1>7. LoadAuth(c, w) = [token |-> tokens, oauth |-> {OAuthAgain(LoadOAuth(c, o)) : o \in a.oauth}, platform |-> platform]
  BY <1>2, <1>5, <1>6, <1>13 DEF LoadAuth
<1>8. LoadAuth(c, w) = AuthAgain(l)
  <2>1. {OAuthAgain(o) : o \in l.oauth} = {OAuthAgain(LoadOAuth(c, o)) : o \in a.oauth}
    BY <1>1
  <2>2. AuthAgain(l) = [token |-> l.token, oauth |-> {OAuthAgain(o) : o \in l.oauth}, platform |-> l.platform]
    <3>. DEFINE again == {OAuthAgain(o) : o \in l.oauth}
    <3>. HIDE DEF again, tokens, platform
    <3>1. [l EXCEPT !.oauth = again] = [token |-> l.token, oauth |-> again, platform |-> l.platform]
      BY <1>1
    <3>2. QED
      BY <3>1 DEF AuthAgain, again
  <2>3. QED
    BY <1>1, <1>7, <2>1, <2>2
<1>9. (w.oauth = {} <=> a.oauth = {}) /\ (w.token = {} <=> a.token = {}) /\ (w.platform = {} <=> PlatformToken(c, a) = {})
  <2>1. (tokens = {} <=> a.token = {}) /\ (platform = {} <=> PlatformToken(c, a) = {})
    OBVIOUS
  <2>2. (w.token = {} <=> tokens = {}) /\ (w.platform = {} <=> platform = {})
    BY <1>2
  <2>3. QED
    BY <1>4, <2>1, <2>2
<1>10. ValidCredentials(c, w)
  BY <1>6, <1>9 DEF ValidAuth, ValidCredentials
<1>11. ValidAuth(c, w)
  <2>1. ASSUME NEW s \in w.token \cup w.platform PROVE ValidSecret(c, s)
    <3>1. PICK t \in a.token \cup PlatformToken(c, a) : s = WriteSecret(t.name)
      BY <1>2
    <3>2. QED
      BY <3>1 DEF ValidAuth, ValidSecret, WriteSecret
  <2>2. QED
    BY <1>3, <1>4, <1>6, <1>10, <2>1 DEF ValidAuth
<1>12. QED
  BY <1>8, <1>11 DEF l, w

\* The file that is written, and what it is read with.
LEMMA Writes ==
    ASSUME NEW c \in ManifestCases, NEW m, NEW w, w = Unrestricted(Rewritten(c, m))
    PROVE  /\ w.groups = SetToSeq(WriteGroups(m)) /\ w.accounts = SetToSeq(WriteAccounts(m))
           /\ w.projects = SetToSeq(WriteProjects(m))
           /\ w.onlyGroups = {} /\ w.environments = {} /\ w.account = {}
           /\ w.needEnvironments = c.needEnvironments /\ w.needAccounts = c.needAccounts
           /\ SameLookups(w, c)
BY ManifestAssumption DEF Fields, Unrestricted, Rewritten, SameLookups

EnvironmentsOf(m, g) == {WriteEnvironment(e) : e \in {e \in m.environments : e.group = g}}

LEMMA EnvironmentsRewritten ==
    ASSUME NEW c \in ManifestCases, EnvironmentErrors(c) = {}, c.resolve,
           NEW m, m.environments = LoadEnvironments(c),
           NEW w, w.groups = SetToSeq(WriteGroups(m)), w.onlyGroups = {}, w.environments = {}, SameLookups(w, c),
           DOMAIN w.groups # {}
    PROVE  /\ LoadEnvironments(w) = {EnvironmentAgain(e) : e \in m.environments}
           /\ EnvironmentErrors(w) =
                 When(\E e \in m.environments : e.url.type = "value" /\ e.url.value = "", "invalid environment")
<1>1. IsFiniteSet(m.environments)
  <2>. DEFINE f == [x \in SelectedFrom(c) |-> LoadEnvironment(c, x)]
  <2>1. f \in Surjection(SelectedFrom(c), m.environments)
    BY DEF Surjection, LoadEnvironments
  <2>2. IsFiniteSet(SelectedFrom(c))
    BY PlacesAreFinite, FS_Subset DEF SelectedFrom
  <2>3. QED
    BY <2>1, <2>2, FS_Surjection
<1>2. IsFiniteSet(WriteGroups(m))
  <2>. DEFINE f == [e \in m.environments |-> WriteGroup(m, e.group)]
  <2>1. f \in Surjection(m.environments, WriteGroups(m))
    BY DEF Surjection, WriteGroups
  <2>2. QED
    BY <1>1, <2>1, FS_Surjection
<1>3. ASSUME NEW g PROVE IsFiniteSet(EnvironmentsOf(m, g))
  <2>. DEFINE D == {e \in m.environments : e.group = g}
              f == [e \in D |-> WriteEnvironment(e)]
  <2>1. f \in Surjection(D, EnvironmentsOf(m, g))
    BY DEF Surjection, EnvironmentsOf
  <2>2. IsFiniteSet(D)
    BY <1>1, FS_Subset
  <2>3. QED
    BY <2>1, <2>2, FS_Surjection
<1>4. ASSUME NEW e \in m.environments
      PROVE  \E z \in SelectedFrom(c) :
                /\ e = LoadEnvironment(c, z) /\ e.name = EnvAt(c, z).name /\ e.group = GroupAt(c, z)
                /\ ValidEnvironment(c, EnvAt(c, z)) /\ z \in Places(c)
  <2>1. PICK z \in SelectedFrom(c) : e = LoadEnvironment(c, z)
    BY <1>4 DEF LoadEnvironments
  <2>2. e.name = EnvAt(c, z).name /\ e.group = GroupAt(c, z)
    BY <2>1 DEF LoadEnvironment
  <2>3. ValidEnvironment(c, EnvAt(c, z)) /\ z \in Places(c)
    BY EnvironmentsFit DEF SelectedFrom
  <2>4. QED
    BY <2>1, <2>2, <2>3
<1>5. ASSUME NEW e \in m.environments, NEW f \in m.environments, e.name = f.name
      PROVE  e = f
  <2>1. PICK x \in Places(c) : e = LoadEnvironment(c, x) /\ e.name = EnvAt(c, x).name
    BY <1>4
  <2>2. PICK y \in Places(c) : f = LoadEnvironment(c, y) /\ f.name = EnvAt(c, y).name
    BY <1>4
  <2>3. x = y
    BY <1>5, <2>1, <2>2, EnvironmentsFit
  <2>4. QED
    BY <2>1, <2>2, <2>3
<1>6. \A e \in m.environments : e.name # "" /\ e.group # ""
  <2>1. ASSUME NEW z \in Places(c) PROVE GroupAt(c, z) \in GroupNames(c)
    BY <2>1, PlaceParts DEF GroupAt, GroupNames
  <2>2. ASSUME NEW e \in m.environments PROVE e.name # "" /\ e.group # ""
    <3>1. PICK z \in Places(c) : e.name = EnvAt(c, z).name /\ e.group = GroupAt(c, z)
      BY <1>4
    <3>2. QED
      BY <2>1, <3>1, EnvironmentsFit
  <2>3. QED
    BY <2>2
<1>7. /\ DOMAIN w.groups \subseteq Nat
      /\ \A g \in WriteGroups(m) : \E i \in DOMAIN w.groups : w.groups[i] = g
      /\ \A i \in DOMAIN w.groups : w.groups[i] \in WriteGroups(m)
      /\ \A i, j \in DOMAIN w.groups : w.groups[i] = w.groups[j] => i = j
  BY <1>2, SetToSeqLists
<1>8. ASSUME NEW i \in DOMAIN w.groups
      PROVE  /\ w.groups[i] = WriteGroup(m, w.groups[i].name)
             /\ \E e \in m.environments : w.groups[i].name = e.group
             /\ w.groups[i].environments = SetToSeq(EnvironmentsOf(m, w.groups[i].name))
  <2>1. w.groups[i] \in WriteGroups(m)
    BY <1>7
  <2>2. PICK e \in m.environments : w.groups[i] = WriteGroup(m, e.group)
    BY <2>1 DEF WriteGroups
  <2>3. \A g : WriteGroup(m, g).name = g /\ WriteGroup(m, g).environments = SetToSeq(EnvironmentsOf(m, g))
    BY DEF WriteGroup, EnvironmentsOf
  <2>4. w.groups[i].name = e.group
    BY <2>2, <2>3
  <2>5. QED
    BY <2>2, <2>3, <2>4
<1>9. ASSUME NEW g
      PROVE  /\ DOMAIN SetToSeq(EnvironmentsOf(m, g)) \subseteq Nat
             /\ \A x \in EnvironmentsOf(m, g) : \E i \in DOMAIN SetToSeq(EnvironmentsOf(m, g)) : SetToSeq(EnvironmentsOf(m, g))[i] = x
             /\ \A i \in DOMAIN SetToSeq(EnvironmentsOf(m, g)) : SetToSeq(EnvironmentsOf(m, g))[i] \in EnvironmentsOf(m, g)
             /\ \A i, j \in DOMAIN SetToSeq(EnvironmentsOf(m, g)) : SetToSeq(EnvironmentsOf(m, g))[i] = SetToSeq(EnvironmentsOf(m, g))[j] => i = j
  BY <1>3, SetToSeqLists
<1>10. ASSUME NEW x \in Places(w)
       PROVE  /\ x = <<x[1], x[2]>> /\ x[1] \in DOMAIN w.groups /\ x[2] \in DOMAIN w.groups[x[1]].environments
              /\ x[1] \in Nat /\ x[2] \in Nat
              /\ \E e \in m.environments : GroupAt(w, x) = e.group /\ EnvAt(w, x) = WriteEnvironment(e)
  <2>1. x = <<x[1], x[2]>> /\ x[1] \in DOMAIN w.groups /\ x[2] \in DOMAIN w.groups[x[1]].environments
    BY PlaceParts
  <2>2. w.groups[x[1]].environments = SetToSeq(EnvironmentsOf(m, GroupAt(w, x)))
    BY <1>8, <2>1 DEF GroupAt
  <2>3. EnvAt(w, x) \in EnvironmentsOf(m, GroupAt(w, x)) /\ x[2] \in Nat
    BY <1>9, <2>1, <2>2 DEF EnvAt
  <2>4. \E e \in m.environments : GroupAt(w, x) = e.group /\ EnvAt(w, x) = WriteEnvironment(e)
    BY <2>3 DEF EnvironmentsOf
  <2>5. QED
    BY <1>7, <2>1, <2>3, <2>4
<1>11. ASSUME NEW e \in m.environments
       PROVE  \E x \in Places(w) : GroupAt(w, x) = e.group /\ EnvAt(w, x) = WriteEnvironment(e)
  <2>0. WriteGroup(m, e.group) \in WriteGroups(m)
    BY DEF WriteGroups
  <2>1. PICK i \in DOMAIN w.groups : w.groups[i] = WriteGroup(m, e.group)
    BY <1>7, <2>0
  <2>2. w.groups[i].name = e.group
    BY <2>1 DEF WriteGroup
  <2>3. w.groups[i].environments = SetToSeq(EnvironmentsOf(m, e.group))
    BY <1>8, <2>2
  <2>4. WriteEnvironment(e) \in EnvironmentsOf(m, e.group)
    BY DEF EnvironmentsOf
  <2>5. PICK j \in DOMAIN w.groups[i].environments : w.groups[i].environments[j] = WriteEnvironment(e)
    BY <1>9, <2>3, <2>4
  <2>6. <<i, j>> \in Places(w)
    BY PlaceOf
  <2>7. QED
    BY <2>2, <2>5, <2>6 DEF GroupAt, EnvAt
<1>12. ASSUME NEW x \in Places(w), NEW y \in Places(w), EnvAt(w, x).name = EnvAt(w, y).name
       PROVE  x = y
  <2>1. PICK e \in m.environments : GroupAt(w, x) = e.group /\ EnvAt(w, x) = WriteEnvironment(e)
    BY <1>10
  <2>2. PICK f \in m.environments : GroupAt(w, y) = f.group /\ EnvAt(w, y) = WriteEnvironment(f)
    BY <1>10
  <2>3. WriteEnvironment(e).name = e.name /\ WriteEnvironment(f).name = f.name
    BY DEF WriteEnvironment
  <2>4. e = f
    BY <1>5, <1>12, <2>1, <2>2, <2>3
  <2>5. w.groups[x[1]].name = w.groups[y[1]].name
    BY <2>1, <2>2, <2>4 DEF GroupAt
  <2>6. x[1] = y[1]
    BY <1>7, <1>8, <1>10, <2>5
  <2>7. w.groups[x[1]].environments[x[2]] = w.groups[x[1]].environments[y[2]]
    BY <2>1, <2>2, <2>4, <2>6 DEF EnvAt
  <2>8. x[2] = y[2]
    BY <1>8, <1>9, <1>10, <2>6, <2>7
  <2>9. QED
    BY <1>10, <2>6, <2>8
<1>13. ASSUME NEW x \in Places(w), NEW e \in m.environments, GroupAt(w, x) = e.group, EnvAt(w, x) = WriteEnvironment(e)
       PROVE  /\ LoadEnvironment(w, x) = EnvironmentAgain(e) /\ EnvAt(w, x).name # ""
              /\ ValidEnvironment(w, EnvAt(w, x)) <=> ~(e.url.type = "value" /\ e.url.value = "")
  <2>. DEFINE v == WriteEnvironment(e)
  <2>1. PICK z \in SelectedFrom(c) : e = LoadEnvironment(c, z) /\ ValidEnvironment(c, EnvAt(c, z))
    BY <1>4
  <2>2. e.url = LoadUrl(c, EnvAt(c, z).url) /\ e.auth = LoadAuth(c, EnvAt(c, z).auth)
    BY <2>1 DEF LoadEnvironment
  <2>3. v.name = e.name /\ v.url = WriteUrl(e.url) /\ v.auth = WriteAuth(e.auth)
    BY DEF WriteEnvironment
  <2>4. /\ ValidUrl(c, v.url) <=> ~(e.url.type = "value" /\ e.url.value = "")
        /\ LoadUrl(c, v.url) = TrimAgain(e.url)
        /\ ValidAuth(c, v.auth) /\ LoadAuth(c, v.auth) = AuthAgain(e.auth)
    <3>1. ValidUrl(c, EnvAt(c, z).url) /\ ValidAuth(c, EnvAt(c, z).auth)
      BY <2>1 DEF ValidEnvironment
    <3>2. v.url = WriteUrl(LoadUrl(c, EnvAt(c, z).url)) /\ v.auth = WriteAuth(LoadAuth(c, EnvAt(c, z).auth))
      BY <2>2, <2>3
    <3>3. ValidAuth(c, v.auth) /\ LoadAuth(c, v.auth) = AuthAgain(e.auth)
      BY <2>2, <3>1, <3>2, AuthComesBack
    <3>. DEFINE l == LoadUrl(c, EnvAt(c, z).url)
    <3>6. /\ ValidUrl(c, WriteUrl(l)) <=> ~(l.type = "value" /\ l.value = "")
          /\ LoadUrl(c, WriteUrl(l)) = TrimAgain(l)
      BY <3>1, UrlComesBack
    <3>7. v.url = WriteUrl(l) /\ e.url = l
      BY <2>2, <2>3
    <3>. HIDE DEF v, l
    <3>4. /\ ValidUrl(c, v.url) <=> ~(e.url.type = "value" /\ e.url.value = "")
          /\ LoadUrl(c, v.url) = TrimAgain(e.url)
      BY <3>6, <3>7
    <3>5. QED
      BY <3>3, <3>4
  <2>5. /\ ValidEnvironment(w, v) <=> ~(e.url.type = "value" /\ e.url.value = "")
        /\ LoadUrl(w, v.url) = TrimAgain(e.url) /\ LoadAuth(w, v.auth) = AuthAgain(e.auth)
    <3>1. /\ ValidUrl(w, v.url) = ValidUrl(c, v.url) /\ LoadUrl(w, v.url) = LoadUrl(c, v.url)
          /\ ValidAuth(w, v.auth) = ValidAuth(c, v.auth) /\ LoadAuth(w, v.auth) = LoadAuth(c, v.auth)
      BY LookupsDecide
    <3>2. QED
      BY <2>4, <3>1 DEF ValidEnvironment
  <2>6. LoadEnvironment(w, x) = [name |-> e.name, group |-> e.group, url |-> TrimAgain(e.url), auth |-> AuthAgain(e.auth)]
    BY <1>13, <2>3, <2>5 DEF LoadEnvironment
  <2>7. EnvironmentAgain(e) = [name |-> e.name, group |-> e.group, url |-> TrimAgain(e.url), auth |-> AuthAgain(e.auth)]
    <3>1. e = [name |-> e.name, group |-> e.group, url |-> e.url, auth |-> e.auth]
      BY <2>1 DEF LoadEnvironment
    <3>2. EnvironmentAgain([name |-> e.name, group |-> e.group, url |-> e.url, auth |-> e.auth]) =
             [name |-> e.name, group |-> e.group, url |-> TrimAgain(e.url), auth |-> AuthAgain(e.auth)]
      BY EnvironmentReadAgain
    <3>3. QED
      BY <3>1, <3>2
  <2>8. QED
    BY <1>6, <1>13, <2>3, <2>5, <2>6, <2>7
<1>14. SelectedFrom(w) = Places(w)
  <2>1. \A x \in Places(w) : ~ShouldSkip(w, x)
    BY DEF ShouldSkip
  <2>2. ASSUME NEW x \in Places(w), NEW y \in Places(w), SeenBefore(y, x)
        PROVE  EnvAt(w, y).name # EnvAt(w, x).name
    <3>1. y # x
      BY <1>10, <2>2 DEF SeenBefore
    <3>2. QED
      BY <1>12, <3>1
  <2>3. \A x \in Places(w) : EnvAt(w, x).name # ""
    BY <1>10, <1>13
  <2>4. QED
    BY <2>1, <2>2, <2>3 DEF SelectedFrom
<1>15. LoadEnvironments(w) = {EnvironmentAgain(e) : e \in m.environments}
  <2>1. ASSUME NEW x \in Places(w) PROVE \E e \in m.environments : LoadEnvironment(w, x) = EnvironmentAgain(e)
    BY <1>10, <1>13
  <2>2. ASSUME NEW e \in m.environments PROVE \E x \in Places(w) : LoadEnvironment(w, x) = EnvironmentAgain(e)
    BY <1>11, <1>13
  <2>3. QED
    BY <1>14, <2>1, <2>2 DEF LoadEnvironments
<1>16. NameErrors(w) = {}
  <2>1. "" \notin GroupNames(w)
    <3>1. \A i \in DOMAIN w.groups : w.groups[i].name # ""
      BY <1>6, <1>8
    <3>2. QED
      BY <3>1 DEF GroupNames, Range
  <2>2. ~Repeats([i \in DOMAIN w.groups |-> w.groups[i].name])
    BY <1>7, <1>8 DEF Repeats
  <2>3. ~(\E x \in NamesSeen(w) : EnvAt(w, x).name = "")
    BY <1>10, <1>13 DEF NamesSeen
  <2>4. ~(\E x, y \in NamesSeen(w) : x # y /\ EnvAt(w, x).name = EnvAt(w, y).name /\ EnvAt(w, x).name # "")
    BY <1>12 DEF NamesSeen
  <2>5. QED
    BY <2>1, <2>2, <2>3, <2>4 DEF NameErrors, When
<1>17. RestrictionErrors(w) = {}
  BY DEF RestrictionErrors, When
<1>18. When(\E x \in SelectedFrom(w) : ~ValidEnvironment(w, EnvAt(w, x)), "invalid environment") =
       When(\E e \in m.environments : e.url.type = "value" /\ e.url.value = "", "invalid environment")
  <2>1. (\E x \in Places(w) : ~ValidEnvironment(w, EnvAt(w, x))) <=>
        \E e \in m.environments : e.url.type = "value" /\ e.url.value = ""
    BY <1>10, <1>11, <1>13
  <2>2. QED
    BY <1>14, <2>1 DEF When
<1>19. EnvNames(w) # {}
  <2>1. \E e \in m.environments : TRUE
    BY <1>8
  <2>2. PICK x \in Places(w) : TRUE
    BY <1>11, <2>1
  <2>3. EnvAt(w, x).name \in EnvNames(w)
    BY <1>10, <1>13 DEF EnvNames
  <2>4. QED
    BY <2>3
<1>20. EnvironmentErrors(w) =
       When(\E e \in m.environments : e.url.type = "value" /\ e.url.value = "", "invalid environment")
  BY <1>16, <1>17, <1>18, <1>19 DEF EnvironmentErrors
<1>21. QED
  BY <1>15, <1>20

LEMMA AccountsRewritten ==
    ASSUME NEW c \in ManifestCases, AccountErrors(c) = {}, c.resolve,
           NEW m, m.accounts = LoadAccounts(c),
           NEW w, w.accounts = SetToSeq(WriteAccounts(m)), w.account = {}, SameLookups(w, c)
    PROVE  AccountErrors(w) = {} /\ LoadAccounts(w) = {AccountAgain(a) : a \in m.accounts}
<1>1. ASSUME NEW a \in m.accounts
      PROVE  \E i \in ChosenAccounts(c) :
                /\ a = LoadAccount(c, c.accounts[i]) /\ a.name = c.accounts[i].name /\ ValidAccount(c, c.accounts[i])
                /\ \A j \in ChosenAccounts(c) : c.accounts[j].name = c.accounts[i].name => j <= i
  <2>1. PICK i \in ChosenAccounts(c) :
            /\ a = LoadAccount(c, c.accounts[i])
            /\ \A j \in ChosenAccounts(c) : c.accounts[j].name = c.accounts[i].name => j <= i
    BY <1>1 DEF LoadAccounts
  <2>2. a.name = c.accounts[i].name
    BY <2>1 DEF LoadAccount
  <2>3. ValidAccount(c, c.accounts[i])
    BY DEF AccountErrors, When
  <2>4. QED
    BY <2>1, <2>2, <2>3
<1>2. ChosenAccounts(c) \subseteq Nat
  <2>1. c.accounts \in Seq(Range(c.accounts))
    BY ManifestAssumption DEF IsList
  <2>2. QED
    BY <2>1 DEF ChosenAccounts
<1>3. ASSUME NEW a \in m.accounts, NEW b \in m.accounts, a.name = b.name
      PROVE  a = b
  <2>1. PICK i \in ChosenAccounts(c) :
            /\ a = LoadAccount(c, c.accounts[i]) /\ a.name = c.accounts[i].name
            /\ \A j \in ChosenAccounts(c) : c.accounts[j].name = c.accounts[i].name => j <= i
    BY <1>1
  <2>2. PICK j \in ChosenAccounts(c) :
            /\ b = LoadAccount(c, c.accounts[j]) /\ b.name = c.accounts[j].name
            /\ \A k \in ChosenAccounts(c) : c.accounts[k].name = c.accounts[j].name => k <= j
    BY <1>1
  <2>3. j <= i /\ i <= j
    BY <1>3, <2>1, <2>2
  <2>4. QED
    BY <1>2, <2>1, <2>2, <2>3
<1>4. IsFiniteSet(m.accounts)
  <2>. DEFINE last == {i \in ChosenAccounts(c) : \A j \in ChosenAccounts(c) : c.accounts[j].name = c.accounts[i].name => j <= i}
              f == [i \in last |-> LoadAccount(c, c.accounts[i])]
  <2>1. f \in Surjection(last, m.accounts)
    BY DEF Surjection, LoadAccounts
  <2>2. IsFiniteSet(last)
    BY PlacesAreFinite, FS_Subset DEF ChosenAccounts
  <2>3. QED
    BY <2>1, <2>2, FS_Surjection
<1>5. IsFiniteSet(WriteAccounts(m))
  <2>. DEFINE f == [a \in m.accounts |-> WriteAccount(a)]
  <2>1. f \in Surjection(m.accounts, WriteAccounts(m))
    BY DEF Surjection, WriteAccounts
  <2>2. QED
    BY <1>4, <2>1, FS_Surjection
<1>6. /\ DOMAIN w.accounts \subseteq Nat
      /\ \A a \in WriteAccounts(m) : \E i \in DOMAIN w.accounts : w.accounts[i] = a
      /\ \A i \in DOMAIN w.accounts : w.accounts[i] \in WriteAccounts(m)
      /\ \A i, j \in DOMAIN w.accounts : w.accounts[i] = w.accounts[j] => i = j
  BY <1>5, SetToSeqLists
<1>7. ASSUME NEW i \in DOMAIN w.accounts
      PROVE  \E a \in m.accounts : w.accounts[i] = WriteAccount(a) /\ w.accounts[i].name = a.name
  <2>1. w.accounts[i] \in WriteAccounts(m)
    BY <1>6
  <2>2. PICK a \in m.accounts : w.accounts[i] = WriteAccount(a)
    BY <2>1 DEF WriteAccounts
  <2>3. WriteAccount(a).name = a.name
    BY DEF WriteAccount
  <2>4. QED
    BY <2>2, <2>3
<1>8. ASSUME NEW a \in m.accounts
      PROVE  \E i \in DOMAIN w.accounts : w.accounts[i] = WriteAccount(a)
  <2>1. WriteAccount(a) \in WriteAccounts(m)
    BY DEF WriteAccounts
  <2>2. QED
    BY <1>6, <2>1
<1>9. ASSUME NEW a \in m.accounts
      PROVE  ValidAccount(w, WriteAccount(a)) /\ LoadAccount(w, WriteAccount(a)) = AccountAgain(a)
  <2>. DEFINE v == WriteAccount(a)
  <2>1. PICK x : a = LoadAccount(c, x) /\ a.name = x.name /\ ValidAccount(c, x)
    BY <1>1
  <2>2. /\ a.uuid = LoadUuid(c, x.uuid) /\ a.oauth = LoadOAuth(c, x.oauth)
        /\ a.url = {LoadUrl(c, u) : u \in x.url}
    BY <2>1 DEF LoadAccount
  <2>3. /\ v.name = a.name /\ v.uuid.type = "" /\ v.uuid.value = a.uuid /\ v.oauth = WriteOAuth(a.oauth)
        /\ v.url = {WriteUrl(u) : u \in a.url}
    BY DEF WriteAccount
  <2>. HIDE DEF v
  <2>4. /\ x.name # "" /\ ValidUrl(c, x.uuid) /\ LoadUuid(c, x.uuid) # "malformed" /\ ValidOAuth(c, x.oauth)
        /\ \A u \in x.url : ValidEndpoint(c, u)
    BY <2>1 DEF ValidAccount, ValidUuid
  <2>5. a.uuid # "" /\ a.uuid # "malformed"
    <3>1. CASE x.uuid.type = "environment"
      BY <2>2, <2>4, <3>1 DEF ValidUrl, LoadUuid, CanResolve
    <3>2. CASE x.uuid.type # "environment"
      BY <2>2, <2>4, <3>2 DEF ValidUrl, LoadUuid
    <3>3. QED
      BY <3>1, <3>2
  <2>6. ValidUuid(c, v.uuid) /\ LoadUuid(c, v.uuid) = a.uuid
    <3>2. LoadUuid(c, v.uuid) = a.uuid
      BY <2>3 DEF LoadUuid
    <3>3. ValidUrl(c, v.uuid)
      BY <2>3, <2>5 DEF ValidUrl
    <3>4. QED
      BY <2>5, <3>2, <3>3 DEF ValidUuid
  <2>7. ValidOAuth(c, v.oauth) /\ LoadOAuth(c, v.oauth) = OAuthAgain(a.oauth)
    <3>1. ValidOAuth(c, x.oauth)
      BY <2>4
    <3>2. /\ ValidOAuth(c, WriteOAuth(LoadOAuth(c, x.oauth)))
          /\ LoadOAuth(c, WriteOAuth(LoadOAuth(c, x.oauth))) = OAuthAgain(LoadOAuth(c, x.oauth))
      BY <3>1, OAuthComesBack
    <3>3. v.oauth = WriteOAuth(LoadOAuth(c, x.oauth)) /\ a.oauth = LoadOAuth(c, x.oauth)
      BY <2>2, <2>3
    <3>4. QED
      BY <3>2, <3>3
  <2>8. v.url = {WriteUrl(LoadUrl(c, u)) : u \in x.url}
    BY <2>2, <2>3
  <2>9. \A u \in x.url : /\ ValidEndpoint(c, WriteUrl(LoadUrl(c, u)))
                         /\ LoadUrl(c, WriteUrl(LoadUrl(c, u))) = TrimAgain(LoadUrl(c, u))
    BY <2>4, EndpointComesBack
  <2>10. {LoadUrl(c, u) : u \in v.url} = {TrimAgain(u) : u \in a.url} /\ \A u \in v.url : ValidEndpoint(c, u)
    BY <2>2, <2>8, <2>9
  <2>11. ValidAccount(c, v)
    BY <2>1, <2>3, <2>4, <2>6, <2>7, <2>10 DEF ValidAccount
  <2>12. LoadAccount(c, v) =
            [name |-> a.name, uuid |-> a.uuid, oauth |-> OAuthAgain(a.oauth), url |-> {TrimAgain(u) : u \in a.url}]
    BY <2>3, <2>6, <2>7, <2>10 DEF LoadAccount
  <2>13. LoadAccount(c, v) = AccountAgain(a)
    <3>1. a = [name |-> a.name, uuid |-> a.uuid, oauth |-> a.oauth, url |-> a.url]
      BY <2>1 DEF LoadAccount
    <3>2. AccountAgain([name |-> a.name, uuid |-> a.uuid, oauth |-> a.oauth, url |-> a.url]) =
             [name |-> a.name, uuid |-> a.uuid, oauth |-> OAuthAgain(a.oauth), url |-> {TrimAgain(u) : u \in a.url}]
      BY AccountReadAgain
    <3>3. QED
      BY <2>12, <3>1, <3>2
  <2>14. QED
    BY <2>11, <2>13, LookupsDecide DEF v
<1>10. ChosenAccounts(w) = DOMAIN w.accounts
  BY DEF ChosenAccounts
<1>11. ASSUME NEW i \in DOMAIN w.accounts, NEW j \in DOMAIN w.accounts, w.accounts[i].name = w.accounts[j].name
       PROVE  i = j
  <2>1. PICK a \in m.accounts : w.accounts[i] = WriteAccount(a) /\ w.accounts[i].name = a.name
    BY <1>7
  <2>2. PICK b \in m.accounts : w.accounts[j] = WriteAccount(b) /\ w.accounts[j].name = b.name
    BY <1>7
  <2>3. a = b
    BY <1>3, <1>11, <2>1, <2>2
  <2>4. QED
    BY <1>6, <2>1, <2>2, <2>3
<1>12. LoadAccounts(w) = {LoadAccount(w, w.accounts[i]) : i \in DOMAIN w.accounts}
  <2>1. \A i \in DOMAIN w.accounts : \A j \in DOMAIN w.accounts : w.accounts[j].name = w.accounts[i].name => j <= i
    BY <1>6, <1>11
  <2>2. QED
    BY <1>10, <2>1 DEF LoadAccounts
<1>13. LoadAccounts(w) = {AccountAgain(a) : a \in m.accounts}
  <2>1. \A i \in DOMAIN w.accounts : \E a \in m.accounts : LoadAccount(w, w.accounts[i]) = AccountAgain(a)
    BY <1>7, <1>9
  <2>2. \A a \in m.accounts : \E i \in DOMAIN w.accounts : LoadAccount(w, w.accounts[i]) = AccountAgain(a)
    BY <1>8, <1>9
  <2>3. QED
    BY <1>12, <2>1, <2>2
<1>14. \A i \in ChosenAccounts(w) : ValidAccount(w, w.accounts[i])
  BY <1>7, <1>9, <1>10
<1>15. QED
  BY <1>13, <1>14 DEF AccountErrors, When

\* Read again, it is refused or has the environments and accounts it had, but
\* for a slash at the end of a URL.
LEMMA ManifestRewritten ==
    ASSUME NEW c \in ManifestCases, c.resolve, Errors(c) = {}, NEW r,
           r = ParseManifest(Unrestricted(Rewritten(c, ParseManifest(c))))
    PROVE  /\ r.errors \subseteq {"refused", "project twice", "invalid project", "invalid environment"}
           /\ r.errors # {"refused"} => ("invalid environment" \in r.errors <=>
                 \E e \in ParseManifest(c).environments : e.url.type = "value" /\ e.url.value = "")
           /\ r.errors = {} => /\ r.environments = {EnvironmentAgain(e) : e \in ParseManifest(c).environments}
                              /\ r.accounts = {AccountAgain(a) : a \in ParseManifest(c).accounts}
<1>. DEFINE m == ParseManifest(c)
            w == Unrestricted(Rewritten(c, m))
<1>1. /\ m.environments = IF c.needEnvironments THEN LoadEnvironments(c) ELSE {}
      /\ m.accounts = IF c.needAccounts THEN LoadAccounts(c) ELSE {}
  BY DEF ParseManifest
<1>2. /\ w.groups = SetToSeq(WriteGroups(m)) /\ w.accounts = SetToSeq(WriteAccounts(m))
      /\ w.onlyGroups = {} /\ w.environments = {} /\ w.account = {}
      /\ w.needEnvironments = c.needEnvironments /\ w.needAccounts = c.needAccounts
      /\ SameLookups(w, c)
  BY Writes
<1>. HIDE DEF m, w
<1>3. r.errors = Errors(w)
  BY DEF ParseManifest, m, w
<1>4. r.errors = {} => /\ r.environments = (IF w.needEnvironments THEN LoadEnvironments(w) ELSE {})
                       /\ r.accounts = (IF w.needAccounts THEN LoadAccounts(w) ELSE {})
  BY DEF ParseManifest, m, w
<1>5. CASE RefusedAtOnce(w)
  BY <1>3, <1>5 DEF Errors
<1>6. CASE ~RefusedAtOnce(w)
  <2>. DEFINE empty == \E e \in m.environments : e.url.type = "value" /\ e.url.value = ""
  <2>1. ASSUME c.needEnvironments
        PROVE  /\ EnvironmentErrors(w) = When(empty, "invalid environment")
               /\ LoadEnvironments(w) = {EnvironmentAgain(e) : e \in m.environments}
    <3>2. DOMAIN w.groups # {}
      BY <1>2, <1>6, <2>1 DEF RefusedAtOnce
    <3>3. EnvironmentErrors(c) = {} /\ m.environments = LoadEnvironments(c)
      BY <1>1, <2>1, Fits
    <3>4. QED
      BY <1>2, <3>2, <3>3, EnvironmentsRewritten
  <2>2. ASSUME c.needAccounts
        PROVE  AccountErrors(w) = {} /\ LoadAccounts(w) = {AccountAgain(a) : a \in m.accounts}
    <3>2. AccountErrors(c) = {} /\ m.accounts = LoadAccounts(c)
      BY <1>1, <2>2, Fits
    <3>3. QED
      BY <1>2, <3>2, AccountsRewritten
  <2>3. ProjectErrors(w) \subseteq {"project twice", "invalid project"}
    BY DEF ProjectErrors, When
  <2>4. ~c.needEnvironments => ~empty /\ m.environments = {}
    BY <1>1
  <2>9. Errors(w) = When(empty, "invalid environment") \cup ProjectErrors(w)
    <3>1. CASE c.needEnvironments
      BY <1>2, <1>6, <2>1, <2>2, <3>1 DEF Errors
    <3>2. CASE ~c.needEnvironments
      <4>1. When(empty, "invalid environment") = {}
        BY <2>4, <3>2 DEF When
      <4>2. QED
        BY <1>2, <1>6, <2>2, <3>2, <4>1 DEF Errors
    <3>3. QED
      BY <3>1, <3>2
  <2>10. /\ Errors(w) \subseteq {"project twice", "invalid project", "invalid environment"}
         /\ "invalid environment" \in Errors(w) <=> empty
    BY <2>3, <2>9 DEF When
  <2>5. (w.needEnvironments = c.needEnvironments) /\ (w.needAccounts = c.needAccounts)
    BY <1>2
  <2>6. r.errors = {} => r.environments = {EnvironmentAgain(e) : e \in m.environments}
    BY <1>1, <1>4, <2>1, <2>5
  <2>7. r.errors = {} => r.accounts = {AccountAgain(a) : a \in m.accounts}
    BY <1>1, <1>4, <2>2, <2>5
  <2>8. QED
    BY <1>3, <2>6, <2>7, <2>10 DEF m
<1>7. QED
  BY <1>5, <1>6

-----------------------------------------------------------------------------
\* What was read is what the file says, and what was written what was read.
ManifestInv ==
    /\ original \in ManifestCases
    /\ manifestStage \in {"given", "loaded", "written", "reloaded"}
    /\ manifestStage # "given" => loaded = ParseManifest(original)
    /\ manifestStage \in {"written", "reloaded"} =>
          /\ loaded.errors = {} /\ original.resolve
          /\ written = Rewritten(original, loaded)
    /\ manifestStage = "reloaded" => reloaded = ParseManifest(Unrestricted(written))

LEMMA ManifestInit_Inv == ManifestInit => ManifestInv
BY DEF ManifestInit, ManifestInv

LEMMA ManifestNext_Inv == ManifestInv /\ [ManifestNext]_manifestVars => ManifestInv'
<1>. SUFFICES ASSUME ManifestInv, [ManifestNext]_manifestVars PROVE ManifestInv'
  OBVIOUS
<1>. USE DEF ManifestInv
<1>1. CASE Load
  BY <1>1 DEF Load
<1>2. CASE Write
  BY <1>2 DEF Write
<1>3. CASE Reload
  BY <1>3 DEF Reload
<1>4. CASE ManifestDone \/ UNCHANGED manifestVars
  BY <1>4 DEF ManifestDone, manifestVars
<1>5. QED
  BY <1>1, <1>2, <1>3, <1>4 DEF ManifestNext

\* What was read and written is settled by the file alone.  (Load, Write)
THEOREM ManifestInvariance == ManifestSpec => []ManifestInv
<1>1. QED
  BY ManifestInit_Inv, ManifestNext_Inv, PTL DEF ManifestSpec

\* Whatever the manifest and its restrictions, it is loaded with exactly the
\* environments asked for, and what is written is read as it was, but for a
\* slash at the end of a URL.
\* (Load, parseEnvironments, Write)
THEOREM AlwaysAsAsked == ManifestSpec => []LoadedAsAsked
<1>1. ASSUME ManifestInv PROVE LoadedAsAsked
  <2>1. manifestStage # "given" =>
           loaded.errors = Errors(Relieved(original, Fine, [type |-> "other", value |-> ""]))
    <3>1. ParseManifest(original).errors = Errors(original)
      BY DEF ParseManifest
    <3>2. Errors(Relieved(original, Fine, [type |-> "other", value |-> ""])) = Errors(original)
      BY <1>1, RelievedErrsAlike DEF ManifestInv
    <3>3. QED
      BY <1>1, <3>1, <3>2 DEF ManifestInv
  <2>2. ASSUME manifestStage # "given", loaded.errors = {}
        PROVE  /\ original.needEnvironments => EnvironmentsAsAsked
               /\ \A p, q \in loaded.projects : p.name = q.name => p = q
    <3>1. loaded = ParseManifest(original) /\ original \in ManifestCases
      BY <1>1, <2>2 DEF ManifestInv
    <3>2. Errors(original) = {}
      BY <2>2, <3>1 DEF ParseManifest
    <3>3. ASSUME original.needEnvironments PROVE EnvironmentsAsAsked
      <4>1. EnvironmentErrors(original) = {}
        BY <3>2, <3>3, Fits
      <4>2. loaded.environments = LoadEnvironments(original)
        BY <3>1, <3>2, <3>3 DEF ParseManifest
      <4>3. QED
        BY <3>1, <4>1, <4>2, AsAsked, EnvironmentsFit DEF EnvironmentsAsAsked
    <3>4. loaded.projects = ParseProjects(original) /\ ProjectErrors(original) = {}
      BY <3>1, <3>2, Fits DEF ParseManifest
    <3>5. QED
      BY <3>1, <3>3, <3>4, ProjectsDiffer
  <2>3. ASSUME manifestStage = "reloaded"
        PROVE  /\ reloaded.errors \subseteq {"refused", "project twice", "invalid project", "invalid environment"}
               /\ reloaded.errors # {"refused"} => ("invalid environment" \in reloaded.errors <=>
                     \E e \in loaded.environments : e.url.type = "value" /\ e.url.value = "")
               /\ reloaded.errors = {} =>
                     /\ reloaded.environments = {EnvironmentAgain(e) : e \in loaded.environments}
                     /\ reloaded.accounts = {AccountAgain(a) : a \in loaded.accounts}
    <3>1. /\ loaded = ParseManifest(original) /\ original \in ManifestCases /\ original.resolve
          /\ loaded.errors = {} /\ reloaded = ParseManifest(Unrestricted(Rewritten(original, loaded)))
      BY <1>1, <2>3 DEF ManifestInv
    <3>2. Errors(original) = {}
      BY <3>1 DEF ParseManifest
    <3>3. QED
      BY <3>1, <3>2, ManifestRewritten
  <2>4. QED
    BY <2>1, <2>2, <2>3 DEF LoadedAsAsked
<1>2. QED
  BY <1>1, ManifestInvariance, PTL

-----------------------------------------------------------------------------
\* What is there is taken.
LEMMA ValueOrAre ==
    ASSUME NEW v, NEW default
    PROVE  ValueOr({v}, default) = v /\ ValueOr({}, default) = default
BY DEF ValueOr

\* A coordinate is its parts.
IsCoordinate(c) == c = [project |-> c.project, type |-> c.type, id |-> c.id]

\* A reference, written and read, refers to the same.
LEMMA ReferenceSurvives ==
    ASSUME NEW coord, IsCoordinate(coord), NEW folder, NEW p, IsParameter(p, coord), p.kind = "reference"
    PROVE  Readable(Serialize(p, coord)) /\ Deserialize(Serialize(p, coord), coord, folder) = p
<1> DEFINE project == IF p.to.project = coord.project THEN {} ELSE {p.to.project}
           type    == IF p.to.project = coord.project /\ p.to.type = coord.type THEN {} ELSE {p.to.type}
           id      == IF p.to = coord THEN {} ELSE {p.to.id}
           s       == [kind |-> "reference", property |-> p.property, project |-> project, type |-> type, id |-> id]
           to      == [project |-> ValueOr(project, coord.project), type |-> ValueOr(type, coord.type),
                       id |-> ValueOr(id, coord.id)]
<1>1. p = [kind |-> "reference", property |-> p.property, to |-> p.to]
      /\ p.to = [project |-> p.to.project, type |-> p.to.type, id |-> p.to.id]
    BY DEF IsParameter
<1>2. Serialize(p, coord) = s
    BY DEF Serialize
<1>3. project # {} => type # {} /\ id # {}
    OBVIOUS
<1>4. type # {} => id # {}
    OBVIOUS
<1>5. ValueOr(project, coord.project) = p.to.project /\ ValueOr(type, coord.type) = p.to.type
    BY ValueOrAre
<1>6. ValueOr(id, coord.id) = p.to.id
    BY ValueOrAre
<1>7. to = p.to
    BY <1>1, <1>5, <1>6
<1>8. Deserialize(s, coord, folder) = [kind |-> "reference", property |-> p.property, to |-> to]
    BY DEF Deserialize
<1>9. Readable(s)
    BY <1>3, <1>4 DEF Readable
<1> QED BY <1>1, <1>2, <1>7, <1>8, <1>9

\* Any parameter that can be written can be read, and says what it said.
LEMMA ParameterSurvives ==
    ASSUME NEW coord, IsCoordinate(coord), NEW folder, NEW p, IsParameter(p, coord)
    PROVE  Readable(Serialize(p, coord)) /\ Deserialize(Serialize(p, coord), coord, folder) = Survives(p, folder)
<1>1. CASE p.kind = "reference"
    BY <1>1, ReferenceSurvives DEF Survives
<1>2. CASE p.kind = "compound"
    <2> DEFINE named == {r.property : r \in p.refs}
               refs == {[to |-> coord, property |-> r] : r \in named}
    <2>1. p = [kind |-> "compound", format |-> p.format, refs |-> {[to |-> coord, property |-> r.property] : r \in p.refs}]
        BY <1>2 DEF IsParameter
    <2>2. refs = {[to |-> coord, property |-> r.property] : r \in p.refs}
        OBVIOUS
    <2>3. Serialize(p, coord) = [kind |-> "compound", format |-> p.format, refs |-> named]
        BY <1>2 DEF Serialize
    <2>4. Deserialize([kind |-> "compound", format |-> p.format, refs |-> named], coord, folder) =
              [kind |-> "compound", format |-> p.format, refs |-> refs]
        BY DEF Deserialize
    <2> QED BY <1>2, <2>1, <2>2, <2>3, <2>4 DEF Survives, Readable
<1>3. CASE p.kind = "file"
    <2>1. p = [kind |-> "file", path |-> p.path, refs |-> p.refs]
        BY <1>3 DEF IsParameter
    <2>2. Serialize(p, coord) = [kind |-> "file", path |-> p.path, refs |-> {}]
        BY <1>3 DEF Serialize
    <2>3. Survives(p, folder) = [kind |-> "file", path |-> folder \o p.path, refs |-> {}]
        BY <1>3, <2>1 DEF Survives
    <2>4. Deserialize([kind |-> "file", path |-> p.path, refs |-> {}], coord, folder) =
              [kind |-> "file", path |-> folder \o p.path, refs |-> {}]
        BY DEF Deserialize
    <2> QED BY <2>2, <2>3, <2>4 DEF Readable
<1>4. CASE p.kind = "value"
    <2>1. p = [kind |-> "value", text |-> p.text, value |-> p.value] /\ p.text \in BOOLEAN
        BY <1>4 DEF IsParameter
    <2>2. CASE p.text
        <3>1. Serialize(p, coord) = [kind |-> "text", value |-> p.value]
            BY <1>4, <2>2 DEF Serialize
        <3>2. p = [kind |-> "value", text |-> TRUE, value |-> p.value]
            BY <2>1, <2>2
        <3> QED BY <1>4, <3>1, <3>2 DEF Deserialize, Readable, Survives
    <2>3. CASE ~p.text
        <3>1. Serialize(p, coord) = p
            BY <1>4, <2>3 DEF Serialize
        <3> QED BY <1>4, <3>1 DEF Deserialize, Readable, Survives
    <2> QED BY <2>1, <2>2, <2>3
<1>5. CASE p.kind \in {"environment", "list"}
    <2>1. Serialize(p, coord) = p
        BY <1>5 DEF Serialize
    <2> QED BY <1>5, <2>1 DEF Deserialize, Readable, Survives
<1> QED BY <1>1, <1>2, <1>3, <1>4, <1>5 DEF IsParameter

-----------------------------------------------------------------------------
\* What a definition says of skipping.
SkipOf(d) == Or(d.skip, {"no"})

\* All that d says, x says as well.
Realises(x, d) ==
    /\ d.name # {} => x.name = d.name
    /\ d.template # {} => x.template = d.template
    /\ SkipOf(x) = SkipOf(d)
    /\ \A n \in DOMAIN d.params : n \in DOMAIN x.params /\ x.params[n] = d.params[n]

\* A definition written in full over any other is realised.
LEMMA FullRealises ==
    ASSUME NEW x, NEW d, d.skip # {} \/ SkipOf(x) = {"no"}
    PROVE  Realises(Override(x, d), d)
BY DEF Realises, Override, SkipOf, Or

\* What is shared is skipped by all or by none.
LEMMA SharedSkip ==
    ASSUME NEW defs, NEW e \in DOMAIN defs, ShareSkip(defs)
    PROVE  Or(AnyOf(defs).skip, {"no"}) = Or(defs[e].skip, {"no"})
<1>1. AnyOf(defs) \in {defs[f] : f \in DOMAIN defs}
    BY DEF AnyOf
<1>2. CASE \A f \in DOMAIN defs : defs[f].skip = AnyOf(defs).skip
    BY <1>2
<1>3. CASE \A f \in DOMAIN defs : defs[f].skip \in {{}, {"no"}}
    <2>1. AnyOf(defs).skip \in {{}, {"no"}} /\ defs[e].skip \in {{}, {"no"}}
        BY <1>1, <1>3
    <2> QED BY <2>1 DEF Or
<1> QED BY <1>2, <1>3 DEF ShareSkip

\* Over what realises the common definition, what is left of one realises it.
LEMMA ReducedRealises ==
    ASSUME NEW defs, NEW e \in DOMAIN defs, NEW x, Realises(x, CommonDefinition(defs))
    PROVE  Realises(Override(x, Reduced(defs[e], defs)), defs[e])
<1> DEFINE d == defs[e]
           c == CommonDefinition(defs)
           r == Reduced(d, defs)
           o == Override(x, r)
<1>1. d.name # {} => o.name = d.name
    BY DEF Realises, CommonDefinition, Reduced, Override, Or, ShareName
<1>2. d.template # {} => o.template = d.template
    BY DEF Realises, CommonDefinition, Reduced, Override, Or, ShareTemplate
<1>3. SkipOf(o) = SkipOf(d)
    <2>1. SkipOf(x) = SkipOf(c) /\ o.skip = Or(r.skip, x.skip)
        BY DEF Realises, Override
    <2>2. CASE ShareSkip(defs)
        <3>1. c.skip = AnyOf(defs).skip /\ r.skip = {}
            BY <2>2 DEF CommonDefinition, Reduced
        <3> QED BY <2>1, <2>2, <3>1, SharedSkip DEF SkipOf, Or
    <2>3. CASE ~ShareSkip(defs)
        <3>1. c.skip = {} /\ r.skip = d.skip
            BY <2>3 DEF CommonDefinition, Reduced
        <3> QED BY <2>1, <3>1 DEF SkipOf, Or
    <2> QED BY <2>2, <2>3
<1>4. ASSUME NEW n \in DOMAIN d.params
      PROVE  n \in DOMAIN o.params /\ o.params[n] = d.params[n]
    <2>1. r.params = Restrict(d.params, DOMAIN d.params \ SharedParams(defs))
        BY DEF Reduced
    <2>2. DOMAIN r.params = DOMAIN d.params \ SharedParams(defs) /\ \A m \in DOMAIN r.params : r.params[m] = d.params[m]
        BY <2>1 DEF Restrict
    <2>3. o.params = [m \in DOMAIN x.params \cup DOMAIN r.params |-> IF m \in DOMAIN r.params THEN r.params[m] ELSE x.params[m]]
        BY DEF Override
    <2>4. CASE n \in SharedParams(defs)
        <3>1. n \in DOMAIN AnyOf(defs).params /\ AnyOf(defs).params[n] = d.params[n]
            BY <2>4 DEF SharedParams
        <3>2. c.params = Restrict(AnyOf(defs).params, SharedParams(defs))
            BY DEF CommonDefinition
        <3>3. n \in DOMAIN c.params /\ c.params[n] = d.params[n]
            BY <2>4, <3>1, <3>2 DEF Restrict
        <3>4. n \in DOMAIN x.params /\ x.params[n] = d.params[n]
            BY <3>3 DEF Realises
        <3> QED BY <2>2, <2>3, <2>4, <3>4
    <2>5. CASE n \notin SharedParams(defs)
        BY <2>2, <2>3, <2>5
    <2> QED BY <2>4, <2>5
<1> QED BY <1>1, <1>2, <1>3, <1>4 DEF Realises

\* If all is shared there is nothing left to say.
LEMMA SharedRealises ==
    ASSUME NEW defs, NEW e \in DOMAIN defs, NEW x, Realises(x, CommonDefinition(defs)), AllShared(defs[e], defs)
    PROVE  Realises(x, defs[e])
<1> DEFINE d == defs[e]
           c == CommonDefinition(defs)
<1>1. (d.name # {} => x.name = d.name) /\ (d.template # {} => x.template = d.template)
    BY DEF Realises, CommonDefinition, AllShared, ShareName, ShareTemplate
<1>2. SkipOf(x) = SkipOf(d)
    <2>1. ShareSkip(defs) /\ SkipOf(x) = SkipOf(c)
        BY DEF AllShared, Realises
    <2>2. c.skip = AnyOf(defs).skip
        BY <2>1 DEF CommonDefinition
    <2> QED BY <2>1, <2>2, SharedSkip DEF SkipOf
<1>3. ASSUME NEW n \in DOMAIN d.params
      PROVE  n \in DOMAIN x.params /\ x.params[n] = d.params[n]
    <2>1. n \in SharedParams(defs)
        BY DEF AllShared
    <2>2. n \in DOMAIN AnyOf(defs).params /\ AnyOf(defs).params[n] = d.params[n]
        BY <2>1 DEF SharedParams
    <2>3. c.params = Restrict(AnyOf(defs).params, SharedParams(defs))
        BY DEF CommonDefinition
    <2> QED BY <2>1, <2>2, <2>3 DEF Realises, Restrict
<1> QED BY <1>1, <1>2, <1>3 DEF Realises

\* One level: over what realises the base, or over anything if there is none,
\* what is left of each realises it.
LEMMA LevelRealises ==
    ASSUME NEW defs, NEW e \in DOMAIN defs, NEW x,
           \/ Base(defs) = {} /\ (defs[e].skip # {} \/ SkipOf(x) = {"no"})
           \/ \E b \in Base(defs) : Realises(x, b)
    PROVE  Realises(Overridden(x, LeftOver(defs), e), defs[e])
<1>1. CASE IsOne(defs)
    <2>1. Base(defs) = {defs[e]} /\ LeftOver(defs) = <<>>
        BY <1>1 DEF Base, LeftOver, IsOne, AnyOf
    <2>2. Realises(x, defs[e])
        BY <2>1
    <2> QED BY <2>1, <2>2 DEF Overridden
<1>2. CASE ~IsOne(defs) /\ NothingShared(defs)
    <2>1. Base(defs) = {} /\ LeftOver(defs) = defs
        BY <1>2 DEF Base, LeftOver
    <2>2. Overridden(x, LeftOver(defs), e) = Override(x, defs[e])
        BY <2>1 DEF Overridden
    <2> QED BY <2>1, <2>2, FullRealises
<1>3. CASE ~IsOne(defs) /\ ~NothingShared(defs)
    <2>1. Base(defs) = {CommonDefinition(defs)}
          /\ LeftOver(defs) = [f \in {f \in DOMAIN defs : ~AllShared(defs[f], defs)} |-> Reduced(defs[f], defs)]
        BY <1>3 DEF Base, LeftOver
    <2>2. Realises(x, CommonDefinition(defs))
        BY <2>1
    <2>3. CASE AllShared(defs[e], defs)
        <3>1. Overridden(x, LeftOver(defs), e) = x
            BY <2>1, <2>3 DEF Overridden
        <3> QED BY <2>2, <2>3, <3>1, SharedRealises
    <2>4. CASE ~AllShared(defs[e], defs)
        <3>1. Overridden(x, LeftOver(defs), e) = Override(x, Reduced(defs[e], defs))
            BY <2>1, <2>4 DEF Overridden
        <3> QED BY <2>2, <3>1, ReducedRealises
    <2> QED BY <2>3, <2>4
<1> QED BY <1>1, <1>2, <1>3

-----------------------------------------------------------------------------
\* All x says is said by one of the definitions.
Drawn(x, S) ==
    /\ x.name = {} \/ \E d \in S : x.name = d.name
    /\ \A n \in DOMAIN x.params : \E d \in S : n \in DOMAIN d.params /\ x.params[n] = d.params[n]

LEMMA OverrideDrawn ==
    ASSUME NEW S, NEW x, NEW o, Drawn(x, S), Drawn(o, S)
    PROVE  Drawn(Override(x, o), S)
<1>0. Override(x, o).name \in {x.name, o.name}
    BY DEF Override, Or
<1> SUFFICES ASSUME NEW n \in DOMAIN Override(x, o).params
             PROVE  \E d \in S : n \in DOMAIN d.params /\ Override(x, o).params[n] = d.params[n]
    BY <1>0 DEF Drawn
<1>1. /\ n \in DOMAIN x.params \cup DOMAIN o.params
      /\ Override(x, o).params[n] = IF n \in DOMAIN o.params THEN o.params[n] ELSE x.params[n]
    BY DEF Override
<1>2. CASE n \in DOMAIN o.params
    BY <1>1, <1>2 DEF Drawn
<1>3. CASE n \notin DOMAIN o.params
    BY <1>1, <1>3 DEF Drawn
<1> QED BY <1>2, <1>3

LEMMA RestrictedDrawn ==
    ASSUME NEW S, NEW d, Drawn(d, S), NEW names \in SUBSET DOMAIN d.params,
           NEW x, x.params = Restrict(d.params, names), x.name \in {{}, d.name}
    PROVE  Drawn(x, S)
<1>1. \A n \in DOMAIN x.params : n \in DOMAIN d.params /\ x.params[n] = d.params[n]
    BY DEF Restrict
<1> QED BY <1>1 DEF Drawn

\* A level draws from nothing else.
LEMMA LevelDrawn ==
    ASSUME NEW S, NEW defs, \A e \in DOMAIN defs : Drawn(defs[e], S)
    PROVE  /\ \A b \in Base(defs) : Drawn(b, S)
           /\ \A e \in DOMAIN LeftOver(defs) : Drawn(LeftOver(defs)[e], S)
<1>1. DOMAIN defs # {} => AnyOf(defs) \in {defs[e] : e \in DOMAIN defs}
    BY DEF AnyOf
<1>2. ASSUME NEW b \in Base(defs)
      PROVE  Drawn(b, S)
    <2>1. DOMAIN defs # {}
        BY DEF Base, IsOne
    <2>2. Drawn(AnyOf(defs), S)
        BY <1>1, <2>1
    <2>3. CASE b = AnyOf(defs)
        BY <2>2, <2>3
    <2>4. CASE b = CommonDefinition(defs)
        <3>1. b.params = Restrict(AnyOf(defs).params, SharedParams(defs)) /\ SharedParams(defs) \subseteq DOMAIN AnyOf(defs).params
              /\ b.name \in {{}, AnyOf(defs).name}
            BY <2>4 DEF CommonDefinition, SharedParams
        <3> QED BY <2>2, <3>1, RestrictedDrawn
    <2> QED BY <2>3, <2>4 DEF Base
<1>3. ASSUME NEW e \in DOMAIN LeftOver(defs)
      PROVE  Drawn(LeftOver(defs)[e], S)
    <2>1. CASE DOMAIN defs = {} \/ IsOne(defs)
        BY <2>1 DEF LeftOver
    <2>2. CASE ~(DOMAIN defs = {} \/ IsOne(defs)) /\ NothingShared(defs)
        BY <2>2 DEF LeftOver
    <2>3. CASE ~(DOMAIN defs = {} \/ IsOne(defs)) /\ ~NothingShared(defs)
        <3>1. e \in DOMAIN defs /\ LeftOver(defs)[e] = Reduced(defs[e], defs)
            BY <2>3 DEF LeftOver
        <3>2. LeftOver(defs)[e].params = Restrict(defs[e].params, DOMAIN defs[e].params \ SharedParams(defs))
              /\ LeftOver(defs)[e].name \in {{}, defs[e].name}
            BY <3>1 DEF Reduced
        <3> QED BY <3>1, <3>2, RestrictedDrawn
    <2> QED BY <2>1, <2>2, <2>3
<1> QED BY <1>2, <1>3

LEMMA OverriddenDrawn ==
    ASSUME NEW S, NEW x, Drawn(x, S), NEW f, NEW e, e \in DOMAIN f => Drawn(f[e], S)
    PROVE  Drawn(Overridden(x, f, e), S)
BY OverrideDrawn DEF Overridden

-----------------------------------------------------------------------------
\* The variants of one coordinate by environment.
OneEach ==
    \A i, j \in DOMAIN variants :
        i # j /\ variants[i].coord = variants[j].coord => variants[i].env # variants[j].env

LEMMA DefinitionsAre ==
    ASSUME OneEach, NEW coord, NEW nums, NEW i \in VariantsOf(coord)
    PROVE  /\ variants[i].env \in DOMAIN Definitions(coord, nums)
           /\ Definitions(coord, nums)[variants[i].env] = Definition(i, nums)
<1>1. variants[i].env \in VariantEnvironments(coord)
    BY DEF VariantEnvironments
<1>2. (CHOOSE j \in VariantsOf(coord) : variants[j].env = variants[i].env) = i
    BY DEF OneEach, VariantsOf
<1> QED BY <1>1, <1>2 DEF Definitions

LEMMA GroupsAre ==
    ASSUME NEW coord, NEW nums, NEW g
    PROVE  /\ \A e : e \in DOMAIN OfGroup(coord, g, nums) <=> e \in VariantEnvironments(coord) /\ GroupOf[e] = g
           /\ \A e \in DOMAIN OfGroup(coord, g, nums) : OfGroup(coord, g, nums)[e] = Definitions(coord, nums)[e]
<1>1. DOMAIN Definitions(coord, nums) = VariantEnvironments(coord)
    BY DEF Definitions
<1> QED BY <1>1 DEF OfGroup, Restrict

LEMMA BasesAre ==
    ASSUME NEW coord, NEW nums, NEW g \in DOMAIN Bases(coord, nums)
    PROVE  Bases(coord, nums)[g] \in Base(OfGroup(coord, g, nums))
BY DEF Bases

\* What an entry says in the configuration itself, and the environments see.
ConfigOf(entry) == IF entry.config = {} THEN Empty ELSE Override(Empty, CHOOSE d \in entry.config : TRUE)

LEMMA EnvironmentSees ==
    ASSUME NEW coord, NEW nums, NEW e \in VariantEnvironments(coord)
    PROVE  ForEnvironment(Entry(coord, nums), e) =
               Overridden(Overridden(ConfigOf(Entry(coord, nums)), LeftOver(Bases(coord, nums)), GroupOf[e]),
                          LeftOver(OfGroup(coord, GroupOf[e], nums)), e)
<1> DEFINE entry == Entry(coord, nums)
           rest  == LeftOver(OfGroup(coord, GroupOf[e], nums))
<1>1. entry.groups = LeftOver(Bases(coord, nums))
    BY DEF Entry
<1>2. e \in DOMAIN entry.environments <=> e \in DOMAIN rest
    BY DEF Entry, LeftOverOf
<1>3. e \in DOMAIN entry.environments => entry.environments[e] = rest[e]
    BY DEF Entry, LeftOverOf
<1>4. \A x : Overridden(x, entry.environments, e) = Overridden(x, rest, e)
    BY <1>2, <1>3 DEF Overridden
<1>5. ForEnvironment(entry, e) = Overridden(Overridden(ConfigOf(entry), entry.groups, GroupOf[e]), entry.environments, e)
    BY DEF ForEnvironment, ConfigOf
<1> HIDE DEF entry, rest
<1>6. QED
    BY <1>1, <1>4, <1>5 DEF entry, rest

\* Through all overrides every environment sees its own definition.
LEMMA EntryRealises ==
    ASSUME OneEach, NEW coord, NEW nums, NEW i \in VariantsOf(coord)
    PROVE  Realises(ForEnvironment(Entry(coord, nums), variants[i].env), Definition(i, nums))
<1> DEFINE e     == variants[i].env
           g     == GroupOf[e]
           group == OfGroup(coord, g, nums)
           bases == Bases(coord, nums)
           top   == ConfigOf(Entry(coord, nums))
           mid   == Overridden(top, LeftOver(bases), g)
<1>1. e \in VariantEnvironments(coord)
    BY DEF VariantEnvironments
<1>2. e \in DOMAIN group /\ group[e] = Definition(i, nums)
    BY <1>1, GroupsAre, DefinitionsAre
<1>3. group[e].skip # {}
    BY <1>2 DEF Definition
<1>4. SkipOf(Empty) = {"no"}
    BY DEF Empty, SkipOf, Or
<1>5. Entry(coord, nums).config = Base(bases)
    BY DEF Entry
<1>6. CASE Base(group) = {}
    <2>1. Realises(Overridden(mid, LeftOver(group), e), group[e])
        <3> HIDE DEF mid, group, e
        <3> QED BY <1>2, <1>3, <1>6, LevelRealises
    <2> QED BY <1>1, <1>2, <2>1, EnvironmentSees
<1>7. CASE Base(group) # {}
    <2>1. g \in DOMAIN bases
        BY <1>1, <1>7 DEF Bases
    <2>2. bases[g] \in Base(group)
        BY <2>1, BasesAre
    <2>3. Realises(mid, bases[g])
        <3>1. CASE Base(bases) = {}
            <4>1. top = Empty
                BY <1>5, <3>1 DEF ConfigOf
            <4> HIDE DEF top, bases, g
            <4> QED BY <1>4, <2>1, <3>1, <4>1, LevelRealises
        <3>2. CASE Base(bases) # {}
            <4> DEFINE b == CHOOSE d \in Base(bases) : TRUE
            <4>1. b \in Base(bases) /\ top = Override(Empty, b)
                BY <1>5, <3>2 DEF ConfigOf
            <4> HIDE DEF top, bases, g, b
            <4>2. Realises(top, b)
                BY <1>4, <4>1, FullRealises
            <4> QED BY <2>1, <4>1, <4>2, LevelRealises
        <3> QED BY <3>1, <3>2
    <2>4. Realises(Overridden(mid, LeftOver(group), e), group[e])
        <3> HIDE DEF mid, group, e, bases, g
        <3> QED BY <1>2, <2>2, <2>3, LevelRealises
    <2> QED BY <1>1, <1>2, <2>4, EnvironmentSees
<1> QED BY <1>6, <1>7

\* And nothing that no variant has.
LEMMA EntryDrawn ==
    ASSUME OneEach, NEW coord, NEW nums, NEW e \in VariantEnvironments(coord)
    PROVE  Drawn(ForEnvironment(Entry(coord, nums), e), {Definition(i, nums) : i \in VariantsOf(coord)})
<1> DEFINE S     == {Definition(i, nums) : i \in VariantsOf(coord)}
           bases == Bases(coord, nums)
           top   == ConfigOf(Entry(coord, nums))
<1>1. \A d \in S : Drawn(d, S)
    BY DEF Drawn
<1>2. \A f \in VariantEnvironments(coord) : Definitions(coord, nums)[f] \in S
    BY DefinitionsAre DEF VariantEnvironments
<1>3. ASSUME NEW g
      PROVE  /\ \A b \in Base(OfGroup(coord, g, nums)) : Drawn(b, S)
             /\ \A f \in DOMAIN LeftOver(OfGroup(coord, g, nums)) : Drawn(LeftOver(OfGroup(coord, g, nums))[f], S)
    <2>1. \A f \in DOMAIN OfGroup(coord, g, nums) : OfGroup(coord, g, nums)[f] \in S
        BY <1>2, GroupsAre
    <2> HIDE DEF S
    <2> QED BY <1>1, <2>1, LevelDrawn
<1>4. \A g \in DOMAIN bases : Drawn(bases[g], S)
    BY <1>3, BasesAre
<1>5. (\A b \in Base(bases) : Drawn(b, S)) /\ (\A g \in DOMAIN LeftOver(bases) : Drawn(LeftOver(bases)[g], S))
    <2> HIDE DEF S, bases
    <2> QED BY <1>4, LevelDrawn
<1>6. Drawn(Empty, S)
    BY DEF Drawn, Empty
<1>7. Drawn(top, S)
    <2>1. Entry(coord, nums).config = Base(bases)
        BY DEF Entry
    <2>2. CASE Base(bases) = {}
        BY <1>6, <2>1, <2>2 DEF ConfigOf
    <2>3. CASE Base(bases) # {}
        <3>1. PICK b \in Base(bases) : top = Override(Empty, b)
            BY <2>1, <2>3 DEF ConfigOf
        <3> HIDE DEF S, bases, top
        <3> QED BY <1>5, <1>6, <3>1, OverrideDrawn
    <2> QED BY <2>2, <2>3
<1>8. Drawn(Overridden(top, LeftOver(bases), GroupOf[e]), S)
    <2> HIDE DEF S, bases, top
    <2> QED BY <1>5, <1>7, OverriddenDrawn
<1>9. Drawn(Overridden(Overridden(top, LeftOver(bases), GroupOf[e]), LeftOver(OfGroup(coord, GroupOf[e], nums)), e), S)
    <2> HIDE DEF S, bases, top
    <2> QED BY <1>3, <1>8, OverriddenDrawn
<1> QED BY <1>9, EnvironmentSees

\* A single variant is not reduced.
LEMMA SingleEntry ==
    ASSUME OneEach, NEW coord, NEW nums, NEW i, VariantsOf(coord) = {i}
    PROVE  ForEnvironment(Entry(coord, nums), variants[i].env) = Override(Empty, Definition(i, nums))
<1> DEFINE e     == variants[i].env
           g     == GroupOf[e]
           d     == Definition(i, nums)
           bases == Bases(coord, nums)
<1>1. VariantEnvironments(coord) = {e}
    BY DEF VariantEnvironments
<1>2. Definitions(coord, nums)[e] = d
    BY DefinitionsAre
<1>3. DOMAIN OfGroup(coord, g, nums) = {e} /\ OfGroup(coord, g, nums)[e] = d
    BY <1>1, <1>2, GroupsAre
<1>4. Base(OfGroup(coord, g, nums)) = {d} /\ LeftOver(OfGroup(coord, g, nums)) = <<>>
    BY <1>3 DEF Base, LeftOver, IsOne, AnyOf
<1>5. DOMAIN bases = {g}
    BY <1>1, <1>4 DEF Bases
<1>6. bases[g] = d
    BY <1>4, <1>5, BasesAre
<1>7. Base(bases) = {d} /\ LeftOver(bases) = <<>>
    <2> HIDE DEF bases
    <2> QED BY <1>5, <1>6 DEF Base, LeftOver, IsOne, AnyOf
<1>8. ConfigOf(Entry(coord, nums)) = Override(Empty, d)
    <2>1. Entry(coord, nums).config = {d}
        BY <1>7 DEF Entry
    <2> QED BY <2>1 DEF ConfigOf
<1>9. \A x, f : Overridden(x, <<>>, f) = x
    BY DEF Overridden
<1> QED BY <1>1, <1>4, <1>7, <1>8, <1>9, EnvironmentSees

-----------------------------------------------------------------------------
(* Reading an entry. *)
LEMMA VariantFacts ==
    ASSUME variants \in WrittenProjects
    PROVE  /\ DOMAIN variants \in SUBSET Nat /\ IsFiniteSet(DOMAIN variants)
           /\ DOMAIN variants = 1..Len(variants) /\ Len(variants) \in Nat
           /\ OneEach
           /\ \A i, j \in DOMAIN variants :
                 variants[i].coord = variants[j].coord => variants[i].type = variants[j].type
<1>1. variants \in Seq(Range(variants))
    BY ConfigFilesAssumption
<1>2. DOMAIN variants = 1..Len(variants) /\ Len(variants) \in Nat
    BY <1>1
<1>3. DOMAIN variants \in SUBSET Nat /\ IsFiniteSet(DOMAIN variants)
    BY <1>2, FS_Interval
<1>4. \A i, j \in DOMAIN variants :
          i # j /\ variants[i].coord = variants[j].coord =>
              variants[i].env # variants[j].env /\ variants[i].type = variants[j].type
    BY ConfigFilesAssumption
<1> QED BY <1>2, <1>3, <1>4 DEF OneEach

LEMMA VariantIs ==
    ASSUME variants \in WrittenProjects, NEW i \in DOMAIN variants
    PROVE  LET c == variants[i]
           IN  /\ IsCoordinate(c.coord) /\ c.coord.type = TypeName(c.type)
               /\ IsName(NameOf(i))
               /\ c.env \in DOMAIN GroupOf /\ c.skip \in {"yes", "no"} /\ IsType(c.type)
               /\ \A n \in DOMAIN c.params : IsParameter(c.params[n], c.coord)
               /\ \A x \in c.name \cup c.scope \cup c.after : IsParameter(x, c.coord)
               /\ Optional(c.name) /\ Optional(c.scope) /\ Optional(c.after) /\ Optional(c.origin)
<1> DEFINE c == variants[i]
<1>1. c \in Range(variants)
    BY DEF Range
<1>2. /\ c.coord = [project |-> c.coord.project, type |-> TypeName(c.type), id |-> c.coord.id]
      /\ IsName(Sanitize(c.template.id))
      /\ c.env \in DOMAIN GroupOf /\ c.skip \in {"yes", "no"} /\ IsType(c.type)
      /\ \A n \in DOMAIN c.params : IsParameter(c.params[n], c.coord)
      /\ \A x \in c.name \cup c.scope \cup c.after : IsParameter(x, c.coord)
      /\ Optional(c.name) /\ Optional(c.scope) /\ Optional(c.after) /\ Optional(c.origin)
    BY <1>1, ConfigFilesAssumption
<1>3. IsCoordinate(c.coord) /\ c.coord.type = TypeName(c.type)
    <2> DEFINE t == TypeName(c.type)
    <2> HIDE DEF t
    <2>1. c.coord = [project |-> c.coord.project, type |-> t, id |-> c.coord.id]
        BY <1>2 DEF t
    <2>2. c.coord.type = t
        BY <2>1
    <2> QED BY <2>1, <2>2 DEF IsCoordinate, t
<1> QED BY <1>2, <1>3 DEF NameOf

\* Sets of parameters, written and read.
LEMMA SetsSurvive ==
    ASSUME NEW c, IsCoordinate(c.coord), NEW S, \A p \in S : IsParameter(p, c.coord)
    PROVE  DeserializeAll(SerializeAll(S, c.coord), c.coord, FolderOf(c.coord, c.type)) = Surviving(S, c)
<1> DEFINE coord  == c.coord
           folder == FolderOf(c.coord, c.type)
<1> HIDE DEF folder
<1>1. \A q \in S : Deserialize(Serialize(q, coord), coord, folder) = Survives(q, folder)
    BY ParameterSurvives
<1>2. DeserializeAll(SerializeAll(S, coord), coord, folder) = {Deserialize(Serialize(q, coord), coord, folder) : q \in S}
    BY DEF DeserializeAll, SerializeAll
<1> QED BY <1>1, <1>2 DEF Surviving, folder

LEMMA OverEmpty ==
    ASSUME NEW d
    PROVE  LET o == Override(Empty, d)
           IN  o.name = d.name /\ o.origin = d.origin /\ DOMAIN o.params = DOMAIN d.params
<1>1. Or(d.name, Empty.name) = d.name /\ Or(d.origin, Empty.origin) = d.origin
    BY DEF Empty, Or
<1>2. DOMAIN Empty.params = {}
    BY DEF Empty
<1> QED BY <1>1, <1>2 DEF Override

\* The type, with what belongs to it.
LEMMA TypeSurvives ==
    ASSUME NEW c, IsType(c.type), Acceptable(c)
    PROVE  /\ ReadType(WrittenType(c)) = c.type
           /\ ReadScope(WrittenType(c)) = SerializeAll(c.scope, c.coord)
           /\ ReadAfter(WrittenType(c)) = SerializeAll(c.after, c.coord)
<1> DEFINE t == c.type
           w == WrittenType(c)
<1>1. (t.kind \notin {"classic", "settings"} => c.scope = {}) /\ (t.kind # "settings" => c.after = {})
    BY DEF Acceptable
<1>2. CASE t.kind \in Plain
    <2>1. w = [key |-> "plain", name |-> t.kind] /\ t = [kind |-> t.kind]
        BY <1>2 DEF WrittenType, IsType, Plain
    <2>2. c.scope = {} /\ c.after = {}
        BY <1>1, <1>2 DEF Plain
    <2> QED BY <1>2, <2>1, <2>2 DEF ReadType, ReadScope, ReadAfter, SerializeAll
<1>3. CASE t.kind = "classic"
    <2>1. {p \in c.scope : Writable(p)} = c.scope
        BY DEF Acceptable, Writable
    <2>2. w = [key |-> "api", name |-> t.name, scope |-> SerializeAll(c.scope, c.coord)]
        BY <1>3, <2>1 DEF WrittenType, Plain
    <2>3. t = [kind |-> "classic", name |-> t.name]
        BY <1>3 DEF IsType, Plain
    <2>4. c.after = {}
        BY <1>1, <1>3
    <2> QED BY <2>2, <2>3, <2>4 DEF ReadType, ReadScope, ReadAfter, SerializeAll
<1>4. CASE t.kind = "settings"
    <2> DEFINE scope       == SerializeAll(c.scope, c.coord)
               after       == SerializeAll(c.after, c.coord)
               permissions == {[all |-> {p}] : p \in t.permission}
    <2>1. w = [key |-> "settings", name |-> t.name, scope |-> scope, after |-> after, permissions |-> permissions]
        BY <1>4 DEF WrittenType, Plain
    <2>2. t = [kind |-> "settings", name |-> t.name, permission |-> t.permission]
        BY <1>4 DEF IsType, Plain
    <2>3. UNION {IF p.all = {} THEN {"none"} ELSE p.all : p \in permissions} = t.permission
        <3>1. \A p \in permissions : \E v \in t.permission : p.all = {v}
            OBVIOUS
        <3>2. \A v \in t.permission : \E p \in permissions : p.all = {v}
            <4> TAKE v \in t.permission
            <4>1. [all |-> {v}] \in permissions /\ [all |-> {v}].all = {v}
                OBVIOUS
            <4> QED BY <4>1
        <3> HIDE DEF permissions
        <3> QED BY <3>1, <3>2
    <2> HIDE DEF scope, after, permissions
    <2>4. ReadType(w) = [kind |-> "settings", name |-> t.name,
                         permission |-> UNION {IF p.all = {} THEN {"none"} ELSE p.all : p \in permissions}]
        BY <2>1 DEF ReadType
    <2>5. ReadScope(w) = scope /\ ReadAfter(w) = after
        BY <2>1 DEF ReadScope, ReadAfter
    <2> QED BY <2>2, <2>3, <2>4, <2>5 DEF scope, after
<1>5. CASE t.kind \in {"automation", "document", "openpipeline"}
    <2>1. w = [key |-> t.kind, name |-> t.name] /\ t = [kind |-> t.kind, name |-> t.name]
        BY <1>5 DEF WrittenType, IsType, Plain
    <2>2. c.scope = {} /\ c.after = {}
        BY <1>1, <1>5
    <2> QED BY <1>5, <2>1, <2>2 DEF ReadType, ReadScope, ReadAfter, SerializeAll
<1> QED BY <1>2, <1>3, <1>4, <1>5 DEF IsType

LEMMA FirstIs ==
    ASSUME variants \in WrittenProjects, NEW coord, VariantsOf(coord) # {}
    PROVE  First(coord) \in VariantsOf(coord)
<1>1. VariantsOf(coord) \in SUBSET Nat
    BY VariantFacts DEF VariantsOf
<1> QED BY <1>1, FirstOf DEF First

\* What one variant says, written out.
LEMMA DefinitionIs ==
    ASSUME NEW i, NEW nums
    PROVE  LET c == variants[i]
               d == Definition(i, nums)
           IN  /\ d.name = SerializeAll(c.name, c.coord)
               /\ d.template = {TemplatePath(i, nums)} /\ d.skip = {c.skip} /\ d.origin = c.origin
               /\ DOMAIN d.params = DOMAIN c.params
               /\ \A n \in DOMAIN c.params : d.params[n] = Serialize(c.params[n], c.coord)
BY DEF Definition

\* A parameter is allowed where it was before it was written.
LEMMA AllowedSurvives ==
    ASSUME NEW p, NEW coord, NEW folder, AllowedIn(p, coord)
    PROVE  AllowedIn(Survives(p, folder), coord)
<1>1. CASE p.kind = "file"
    <2> DEFINE moved == [p EXCEPT !.path = folder \o @]
    <2>1. Survives(p, folder) = [moved EXCEPT !.refs = {}]
        BY <1>1 DEF Survives
    <2>2. RefsIn(Survives(p, folder)) = {} \/ RefsIn(Survives(p, folder)) = RefsIn(p)
        BY <1>1, <2>1 DEF RefsIn
    <2> QED BY <2>2 DEF AllowedIn
<1>2. CASE p.kind # "file"
    BY <1>2 DEF Survives
<1> QED BY <1>1, <1>2

\* An acceptable configuration that was written is loaded, as it was.
LEMMA VariantLoads ==
    ASSUME variants \in WrittenProjects, NEW coord, NEW i \in VariantsOf(coord),
           \A j \in VariantsOf(coord) : Acceptable(variants[j]),
           CanWriteType(variants[First(coord)]),
           NumbersApart => templates[TemplatePath(i, numbers)] = variants[i].template.content
    PROVE  LET env   == variants[i].env
               entry == Entry(coord, numbers)
               seen  == ForEnvironment(entry, env)
               l     == FromDefinition(coord, env, entry, seen)
           IN  /\ Loadable(coord, entry, seen)
               /\ l.coord = coord /\ l.env = env
               /\ Kept(variants[i], l)
               /\ VariantsOf(coord) = {i} => Exact(variants[i], l)
<1> DEFINE c     == variants[i]
           env   == c.env
           entry == Entry(coord, numbers)
           seen  == ForEnvironment(entry, env)
           l     == FromDefinition(coord, env, entry, seen)
           d     == Definition(i, numbers)
           first == variants[First(coord)]
           folder == FolderOf(coord, c.type)
<1>1. i \in DOMAIN variants /\ c.coord = coord /\ IsCoordinate(coord) /\ IsType(c.type) /\ coord.type = TypeName(c.type)
    BY VariantIs DEF VariantsOf
<1>2. First(coord) \in DOMAIN variants /\ first.coord = coord /\ first.type = c.type /\ Acceptable(first)
    BY <1>1, FirstIs, VariantFacts DEF VariantsOf
<1>3. entry.type = WrittenType(first)
    BY DEF Entry
<1>4. /\ ReadType(entry.type) = c.type
      /\ ReadScope(entry.type) = SerializeAll(first.scope, coord)
      /\ ReadAfter(entry.type) = SerializeAll(first.after, coord)
    BY <1>1, <1>2, <1>3, TypeSurvives
<1>5. \A p \in c.name : IsParameter(p, coord)
    BY <1>1, VariantIs
<1>6. \A p \in first.scope \cup first.after : IsParameter(p, coord)
    BY <1>2, VariantIs
<1>7. Acceptable(c)
    OBVIOUS
<1>8. Realises(seen, d)
    BY VariantFacts, EntryRealises
<1>9. Drawn(seen, {Definition(j, numbers) : j \in VariantsOf(coord)})
    BY VariantFacts, EntryDrawn DEF VariantEnvironments
<1>10. seen.template = {TemplatePath(i, numbers)}
    BY <1>8, DefinitionIs DEF Realises
<1>11. c.name # {} => seen.name = SerializeAll(c.name, coord)
    BY <1>1, <1>8, DefinitionIs DEF Realises, SerializeAll
<1>12. Or(seen.skip, {"no"}) = {c.skip}
    BY <1>8, DefinitionIs DEF Realises, SkipOf, Or
<1>13. ValueOr(seen.skip, "no") = c.skip
    BY <1>12 DEF Or, ValueOr
<1>14. ASSUME NEW n \in DOMAIN seen.params
       PROVE  \E j \in VariantsOf(coord) : n \in DOMAIN variants[j].params /\ seen.params[n] = Serialize(variants[j].params[n], coord)
    <2>1. PICK j \in VariantsOf(coord) : n \in DOMAIN Definition(j, numbers).params
                                         /\ seen.params[n] = Definition(j, numbers).params[n]
        BY <1>9 DEF Drawn
    <2>2. variants[j].coord = coord
        BY DEF VariantsOf
    <2> QED BY <2>1, <2>2, DefinitionIs
<1> HIDE DEF seen, entry, l, first, folder
<1>15. Loadable(coord, entry, seen)
    <2>1. ValidType(c.type) /\ (NeedsName(c.type) => c.name # {})
        BY <1>7 DEF Acceptable
    <2>2. c.type.kind = "settings" => ReadScope(entry.type) # {}
        BY <1>2, <1>4 DEF CanWriteType, first, SerializeAll
    <2>3. seen.template # {}
        BY <1>10
    <2>4. DOMAIN seen.params \cap Reserved = {}
        BY <1>14 DEF Acceptable
    <2>5. ASSUME NEW n \in DOMAIN seen.params
          PROVE  Readable(seen.params[n]) /\ AllowedIn(Deserialize(seen.params[n], coord, folder), coord)
        <3>1. PICK j \in VariantsOf(coord) : n \in DOMAIN variants[j].params
                                             /\ seen.params[n] = Serialize(variants[j].params[n], coord)
            BY <1>14
        <3>2. j \in DOMAIN variants /\ variants[j].coord = coord
            BY DEF VariantsOf
        <3>3. IsParameter(variants[j].params[n], coord)
            BY <3>1, <3>2, VariantIs
        <3>4. AllowedIn(variants[j].params[n], coord)
            BY <3>1, <3>2 DEF Acceptable
        <3> QED BY <1>1, <3>1, <3>3, <3>4, ParameterSurvives, AllowedSurvives
    <2>6. \A p \in seen.name : Readable(p)
        <3>1. CASE seen.name = {}
            BY <3>1
        <3>2. CASE seen.name # {}
            <4>1. PICK j \in VariantsOf(coord) : seen.name = Definition(j, numbers).name
                BY <1>9, <3>2 DEF Drawn
            <4>2. j \in DOMAIN variants /\ variants[j].coord = coord
                BY DEF VariantsOf
            <4>3. seen.name = SerializeAll(variants[j].name, coord)
                BY <4>1, <4>2, DefinitionIs
            <4>4. \A p \in variants[j].name : IsParameter(p, coord)
                BY <4>2, VariantIs
            <4> QED BY <1>1, <4>3, <4>4, ParameterSurvives DEF SerializeAll
        <3> QED BY <3>1, <3>2
    <2>7. \A p \in ReadScope(entry.type) \cup ReadAfter(entry.type) : Readable(p)
        BY <1>1, <1>4, <1>6, ParameterSurvives DEF SerializeAll
    <2>8. NeedsName(c.type) => seen.name # {}
        BY <1>11, <2>1 DEF SerializeAll
    <2>9. \A p \in ReadScope(entry.type) : p.kind \in {"text", "value", "reference", "environment"}
        <3> SUFFICES ASSUME NEW p \in first.scope
                     PROVE  Serialize(p, coord).kind \in {"text", "value", "reference", "environment"}
            BY <1>4 DEF SerializeAll
        <3>1. p.kind \in {"value", "reference", "environment"}
            BY <1>2 DEF Acceptable
        <3> QED BY <3>1 DEF Serialize
    <2> QED BY <1>4, <2>1, <2>2, <2>3, <2>4, <2>5, <2>6, <2>7, <2>8, <2>9 DEF Loadable, folder
<1>16. /\ l.coord = [coord EXCEPT !.type = TypeName(ReadType(entry.type))] /\ l.env = env
       /\ l.type = ReadType(entry.type) /\ l.name = DeserializeAll(seen.name, coord, folder)
       /\ l.content = templates[CHOOSE p \in seen.template : TRUE]
       /\ l.skip = ValueOr(seen.skip, "no") /\ l.origin = seen.origin
       /\ l.scope = DeserializeAll(ReadScope(entry.type), coord, folder)
       /\ l.after = DeserializeAll(ReadAfter(entry.type), coord, folder)
       /\ DOMAIN l.params = DOMAIN seen.params
       /\ \A n \in DOMAIN seen.params : l.params[n] = Deserialize(seen.params[n], coord, folder)
    BY <1>4 DEF FromDefinition, l, folder
<1>17. l.coord = coord
    BY <1>1, <1>4, <1>16 DEF IsCoordinate
<1>18. Kept(c, l)
    <2>1. c.name # {} => l.name = Surviving(c.name, c)
        <3> HIDE DEF c
        <3> QED BY <1>1, <1>5, <1>11, <1>16, SetsSurvive DEF folder
    <2>2. l.skip = c.skip /\ l.type = c.type
        BY <1>4, <1>13, <1>16
    <2>3. NumbersApart => l.content = c.template.content
        BY <1>10, <1>16
    <2>4. ASSUME NEW n \in DOMAIN c.params
          PROVE  n \in DOMAIN l.params /\ l.params[n] = Survives(c.params[n], folder)
        <3>1. n \in DOMAIN seen.params /\ seen.params[n] = Serialize(c.params[n], coord)
            BY <1>1, <1>8, DefinitionIs DEF Realises
        <3>2. IsParameter(c.params[n], coord)
            BY <1>1, VariantIs
        <3> QED BY <1>1, <1>16, <3>1, <3>2, ParameterSurvives
    <2> QED BY <1>1, <2>1, <2>2, <2>3, <2>4 DEF Kept, folder
<1>19. ASSUME VariantsOf(coord) = {i}
       PROVE  Exact(c, l)
    <2>1. seen = Override(Empty, d)
        BY <1>19, VariantFacts, SingleEntry DEF seen, entry
    <2>2. seen.name = d.name /\ seen.origin = d.origin /\ DOMAIN seen.params = DOMAIN d.params
        BY <2>1, OverEmpty
    <2>3. First(coord) = i
        BY <1>19, FirstIs
    <2>4. l.name = Surviving(c.name, c)
        <3>1. seen.name = SerializeAll(c.name, coord)
            BY <1>1, <2>2, DefinitionIs
        <3> HIDE DEF c
        <3> QED BY <1>1, <1>5, <1>16, <3>1, SetsSurvive DEF folder
    <2>5. l.origin = c.origin /\ DOMAIN l.params = DOMAIN c.params
        BY <1>16, <2>2, DefinitionIs
    <2>6. l.scope = Surviving(c.scope, c) /\ l.after = Surviving(c.after, c)
        <3>1. first = c
            BY <2>3 DEF first
        <3> HIDE DEF c
        <3>2. /\ \A p \in c.scope : IsParameter(p, coord)
              /\ \A p \in c.after : IsParameter(p, coord)
              /\ ReadScope(entry.type) = SerializeAll(c.scope, coord)
              /\ ReadAfter(entry.type) = SerializeAll(c.after, coord)
            BY <1>4, <1>6, <3>1
        <3>3. DeserializeAll(ReadScope(entry.type), coord, folder) = Surviving(c.scope, c)
            BY <1>1, <3>2, SetsSurvive DEF folder
        <3>4. DeserializeAll(ReadAfter(entry.type), coord, folder) = Surviving(c.after, c)
            BY <1>1, <3>2, SetsSurvive DEF folder
        <3> QED BY <1>16, <3>3, <3>4
    <2>7. Surviving(c.scope, c) = c.scope
        BY <1>7 DEF Acceptable, Survives, Surviving
    <2> QED BY <2>4, <2>5, <2>6, <2>7 DEF Exact
<1> QED BY <1>15, <1>16, <1>17, <1>18, <1>19 DEF seen, entry, l

-----------------------------------------------------------------------------
(* The conversion. *)
Converted == {i \in DOMAIN variants : variants[i].coord \notin todo}

FilesTypes ==
    /\ variants \in WrittenProjects
    /\ todo \subseteq Coordinates
    /\ filesStage \in {"convert", "failed", "load", "loaded"}

\* Templates of one name have numbers of their own.
NumbersOf(conv, nums, times) ==
    /\ DOMAIN nums = conv
    /\ DOMAIN times = {NameOf(i) : i \in conv}
    /\ \A i \in conv : nums[i] \in Nat /\ nums[i] <= times[NameOf(i)]
    /\ \A n \in DOMAIN times : times[n] \in Nat /\ times[n] < Cardinality(conv)
    /\ \A i, j \in conv : i # j /\ NameOf(i) = NameOf(j) => nums[i] # nums[j]

NumbersInv == NumbersOf(Converted, numbers, clashes)

\* What was converted has its entry, or could not be written.
EntriesInv ==
    /\ unwritable \cup DOMAIN entries = Coordinates \ todo
    /\ \A coord \in DOMAIN entries :
          /\ entries[coord] = Entry(coord, numbers)
          /\ \A i \in VariantsOf(coord) : CanWrite(variants[i])
          /\ CanWriteType(variants[First(coord)])

\* There is a file for each template, and no other.
TemplatesInv ==
    /\ \A coord \in DOMAIN entries : \A i \in VariantsOf(coord) :
          /\ TemplatePath(i, numbers) \in DOMAIN templates
          /\ NumbersApart => templates[TemplatePath(i, numbers)] = variants[i].template.content
    /\ \A path \in DOMAIN templates : \E i \in Converted : path = TemplatePath(i, numbers)

\* Only what could be written in full is loaded.
WrittenInv == filesStage \in {"load", "loaded"} => todo = {} /\ unwritable = {}

FilesInv == FilesTypes /\ NumbersInv /\ EntriesInv /\ TemplatesInv /\ WrittenInv /\ RoundTrip

\* An entry depends on the numbers of its own variants only.
LEMMA EntryDepends ==
    ASSUME NEW coord, NEW g1, NEW g2, \A i \in VariantsOf(coord) : g1[i] = g2[i]
    PROVE  /\ \A i \in VariantsOf(coord) : TemplatePath(i, g1) = TemplatePath(i, g2)
           /\ Entry(coord, g1) = Entry(coord, g2)
<1>1. \A i \in VariantsOf(coord) : TemplatePath(i, g1) = TemplatePath(i, g2)
    BY DEF TemplatePath
<1>2. \A i \in VariantsOf(coord) : Definition(i, g1) = Definition(i, g2)
    BY <1>1 DEF Definition
<1>3. Definitions(coord, g1) = Definitions(coord, g2)
    <2>1. ASSUME NEW e \in VariantEnvironments(coord)
          PROVE  (CHOOSE i \in VariantsOf(coord) : variants[i].env = e) \in VariantsOf(coord)
        BY DEF VariantEnvironments
    <2> QED BY <1>2, <2>1 DEF Definitions
<1>4. \A g : OfGroup(coord, g, g1) = OfGroup(coord, g, g2)
    BY <1>3 DEF OfGroup
<1>5. Bases(coord, g1) = Bases(coord, g2)
    BY <1>4 DEF Bases
<1>6. \A e : LeftOverOf(coord, e, g1) = LeftOverOf(coord, e, g2)
    BY <1>4 DEF LeftOverOf
<1>7. Entry(coord, g1) = Entry(coord, g2)
    BY <1>5, <1>6 DEF Entry
<1> QED BY <1>1, <1>7

\* Names with numbers are told apart by their names and numbers, but for one
\* that is the other with its number.
LEMMA NumberedApart ==
    ASSUME NEW s, IsName(s), NEW t, IsName(t), NEW m \in Nat, NEW n \in Nat,
           Numbered(s, m) = Numbered(t, n)
    PROVE  \/ s = t /\ m = n
           \/ n > 0 /\ s = Append(t, n)
           \/ m > 0 /\ t = Append(s, m)
<1> DEFINE S == {s[k] : k \in 1..Len(s)} \cup {t[k] : k \in 1..Len(t)} \cup {m, n}
<1>1. s \in [1..Len(s) -> S] /\ t \in [1..Len(t) -> S] /\ Len(s) \in Nat /\ Len(t) \in Nat
    BY DEF IsName
<1>2. s \in Seq(S) /\ t \in Seq(S) /\ m \in S /\ n \in S
    BY <1>1, SeqDef
<1> HIDE DEF S
<1>3. Append(s, m) = Append(t, n) <=> s = t /\ m = n
    BY <1>2, AppendInjective
<1>4. CASE m = 0 /\ n = 0
    BY <1>4 DEF Numbered
<1>5. CASE m = 0 /\ n # 0
    <2>1. s = Append(t, n) /\ n > 0
        BY <1>5 DEF Numbered
    <2> QED BY <2>1
<1>6. CASE m # 0 /\ n = 0
    <2>1. Append(s, m) = t /\ m > 0
        BY <1>6 DEF Numbered
    <2> QED BY <2>1
<1>7. CASE m # 0 /\ n # 0
    <2>1. Append(s, m) = Append(t, n)
        BY <1>7 DEF Numbered
    <2> QED BY <1>3, <2>1
<1> QED BY <1>4, <1>5, <1>6, <1>7

LEMMA PathsApart ==
    ASSUME variants \in WrittenProjects, NumbersApart,
           NEW conv \in SUBSET DOMAIN variants, NEW nums, NEW times, NumbersOf(conv, nums, times),
           NEW i \in conv, NEW j \in conv, i # j
    PROVE  TemplatePath(i, nums) # TemplatePath(j, nums)
<1> SUFFICES ASSUME TemplatePath(i, nums) = TemplatePath(j, nums)
             PROVE  FALSE
    OBVIOUS
<1>1. Cardinality(conv) \in Nat /\ Cardinality(conv) <= Len(variants) /\ Len(variants) \in Nat
    <2>1. IsFiniteSet(DOMAIN variants) /\ DOMAIN variants = 1..Len(variants) /\ Len(variants) \in Nat
        BY VariantFacts
    <2>2. Cardinality(1..Len(variants)) = Len(variants)
        <3>1. \A k \in Nat : Cardinality(1..k) = k
            <4> TAKE k \in Nat
            <4>1. Cardinality(1..k) = IF 1 > k THEN 0 ELSE k - 1 + 1
                BY FS_Interval
            <4> QED BY <4>1
        <3> QED BY <2>1, <3>1
    <2>3. IsFiniteSet(conv) /\ Cardinality(conv) <= Cardinality(DOMAIN variants)
        BY <2>1, FS_Subset
    <2> QED BY <2>1, <2>2, <2>3, FS_CardinalityType
<1>2. ASSUME NEW k \in conv PROVE nums[k] \in 0..Len(variants)
    <2>1. nums[k] \in Nat /\ nums[k] <= times[NameOf(k)] /\ NameOf(k) \in DOMAIN times
        BY DEF NumbersOf
    <2>2. times[NameOf(k)] \in Nat /\ times[NameOf(k)] < Cardinality(conv)
        BY <2>1 DEF NumbersOf
    <2> QED BY <1>1, <2>1, <2>2
<1>3. nums[i] \in 0..Len(variants) /\ nums[j] \in 0..Len(variants)
    BY <1>2
<1>4. IsName(NameOf(i)) /\ IsName(NameOf(j))
    BY VariantIs
<1>5. Numbered(NameOf(i), nums[i]) = Numbered(NameOf(j), nums[j])
    BY DEF TemplatePath
<1>6. \/ NameOf(i) = NameOf(j) /\ nums[i] = nums[j]
      \/ nums[j] > 0 /\ NameOf(i) = Append(NameOf(j), nums[j])
      \/ nums[i] > 0 /\ NameOf(j) = Append(NameOf(i), nums[i])
    BY <1>1, <1>3, <1>4, <1>5, NumberedApart
<1>7. CASE NameOf(i) = NameOf(j) /\ nums[i] = nums[j]
    BY <1>7 DEF NumbersOf
<1>8. CASE nums[j] > 0 /\ NameOf(i) = Append(NameOf(j), nums[j])
    BY <1>1, <1>3, <1>8 DEF NumbersApart
<1>9. CASE nums[i] > 0 /\ NameOf(j) = Append(NameOf(i), nums[i])
    BY <1>1, <1>3, <1>9 DEF NumbersApart
<1> QED BY <1>6, <1>7, <1>8, <1>9

\* The numbers after one more configuration is converted.
Renumbered(coord) ==
    [i \in DOMAIN numbers \cup VariantsOf(coord) |->
        IF i \in VariantsOf(coord) THEN NumberOf(i) ELSE numbers[i]]

LEMMA Numbering ==
    ASSUME variants \in WrittenProjects, NumbersInv,
           NEW coord, VariantsOf(coord) \cap Converted = {}
    PROVE  NumbersOf(Converted \cup VariantsOf(coord), Renumbered(coord), Counted(coord))
<1> DEFINE new         == VariantsOf(coord)
           alike(name) == {i \in new : NameOf(i) = name}
           all         == Converted \cup new
<1>1. DOMAIN variants \in SUBSET Nat /\ IsFiniteSet(DOMAIN variants)
    BY VariantFacts
<1>2. Converted \subseteq DOMAIN variants /\ new \subseteq DOMAIN variants
    BY DEF Converted, VariantsOf
<1>3. IsFiniteSet(Converted) /\ IsFiniteSet(new)
    BY <1>1, <1>2, FS_Subset
<1>4. Cardinality(Converted) \in Nat /\ Cardinality(new) \in Nat
    BY <1>3, FS_CardinalityType
<1>5. Cardinality(all) = Cardinality(Converted) + Cardinality(new)
    <2>1. Cardinality(all) = Cardinality(Converted) + Cardinality(new) - Cardinality(Converted \cap new)
        BY <1>3, FS_Union
    <2>2. Cardinality(Converted \cap new) = 0
        BY FS_EmptySet
    <2> HIDE DEF new, all
    <2> QED BY <1>4, <2>1, <2>2
<1>6. ASSUME NEW name
      PROVE  /\ IsFiniteSet(alike(name)) /\ Cardinality(alike(name)) \in Nat
             /\ Cardinality(alike(name)) <= Cardinality(new)
             /\ alike(name) # {} => Cardinality(alike(name)) > 0
    <2>1. IsFiniteSet(alike(name)) /\ Cardinality(alike(name)) <= Cardinality(new)
        BY <1>3, FS_Subset
    <2>2. Cardinality(alike(name)) \in Nat /\ (Cardinality(alike(name)) = 0 <=> alike(name) = {})
        BY <2>1, FS_CardinalityType, FS_EmptySet
    <2> QED BY <2>1, <2>2
<1>7. ASSUME NEW i \in new
      PROVE  /\ AskedBefore(i) = {j \in alike(NameOf(i)) : j < i}
             /\ IsFiniteSet(AskedBefore(i)) /\ Cardinality(AskedBefore(i)) \in Nat
             /\ Cardinality(AskedBefore(i)) < Cardinality(alike(NameOf(i)))
    <2>1. AskedBefore(i) = {j \in alike(NameOf(i)) : j < i}
        BY DEF AskedBefore, VariantsOf
    <2>2. IsFiniteSet(AskedBefore(i)) /\ Cardinality(AskedBefore(i)) <= Cardinality(alike(NameOf(i)))
          /\ (Cardinality(alike(NameOf(i))) = Cardinality(AskedBefore(i)) => alike(NameOf(i)) = AskedBefore(i))
        BY <1>6, <2>1, FS_Subset
    <2>3. Cardinality(AskedBefore(i)) \in Nat
        BY <2>2, FS_CardinalityType
    <2>4. i \in alike(NameOf(i)) /\ i \notin AskedBefore(i)
        BY <1>1, <1>2, <2>1
    <2>5. alike(NameOf(i)) # AskedBefore(i)
        BY <2>4
    <2>6. Cardinality(alike(NameOf(i))) \in Nat
        BY <1>6
    <2> QED BY <2>1, <2>2, <2>3, <2>5, <2>6
<1>8. ASSUME NEW i \in new, NEW j \in new, NameOf(i) = NameOf(j), i < j
      PROVE  Cardinality(AskedBefore(i)) < Cardinality(AskedBefore(j))
    <2>1. AskedBefore(i) \subseteq AskedBefore(j) /\ i \in AskedBefore(j) /\ i \notin AskedBefore(i)
        <3>1. AskedBefore(i) = {k \in alike(NameOf(i)) : k < i} /\ AskedBefore(j) = {k \in alike(NameOf(i)) : k < j}
            BY <1>7, <1>8
        <3>2. i \in alike(NameOf(i)) /\ alike(NameOf(i)) \subseteq Nat /\ i \in Nat /\ j \in Nat
            BY <1>1, <1>2
        <3> HIDE DEF alike
        <3> QED BY <1>8, <3>1, <3>2
    <2>2. /\ Cardinality(AskedBefore(i)) <= Cardinality(AskedBefore(j))
          /\ Cardinality(AskedBefore(j)) = Cardinality(AskedBefore(i)) => AskedBefore(j) = AskedBefore(i)
        BY <1>7, <2>1, FS_Subset
    <2>3. AskedBefore(j) # AskedBefore(i)
        BY <2>1
    <2>4. Cardinality(AskedBefore(i)) \in Nat /\ Cardinality(AskedBefore(j)) \in Nat
        BY <1>7
    <2> QED BY <2>2, <2>3, <2>4
<1>9. /\ DOMAIN numbers = Converted /\ DOMAIN clashes = {NameOf(i) : i \in Converted}
      /\ \A i \in Converted : numbers[i] \in Nat /\ numbers[i] <= clashes[NameOf(i)]
      /\ \A n \in DOMAIN clashes : clashes[n] \in Nat /\ clashes[n] < Cardinality(Converted)
      /\ \A i, j \in Converted : i # j /\ NameOf(i) = NameOf(j) => numbers[i] # numbers[j]
    BY DEF NumbersInv, NumbersOf
<1>10. ASSUME NEW name
       PROVE  /\ KnownTimes(name) \in Nat /\ KnownTimes(name) <= Cardinality(Converted)
              /\ name \in DOMAIN clashes => KnownTimes(name) > clashes[name]
    BY <1>4, <1>9 DEF KnownTimes
<1> DEFINE nums == Renumbered(coord)
           times == Counted(coord)
<1>11. /\ DOMAIN nums = all
       /\ \A i \in new : nums[i] = KnownTimes(NameOf(i)) + Cardinality(AskedBefore(i))
       /\ \A i \in Converted : nums[i] = numbers[i]
    BY <1>9 DEF Renumbered, NumberOf
<1>12. /\ DOMAIN times = {NameOf(i) : i \in all}
       /\ \A name \in DOMAIN times : times[name] = KnownTimes(name) + Cardinality(alike(name)) - 1
    BY <1>9 DEF Counted
<1> HIDE DEF nums, times
<1>13. ASSUME NEW n \in DOMAIN times
       PROVE  /\ times[n] \in Nat /\ times[n] < Cardinality(all)
              /\ n \in DOMAIN clashes => times[n] >= clashes[n]
    <2> DEFINE k == KnownTimes(n)
               a == Cardinality(alike(n))
    <2>1. times[n] = k + a - 1
        BY <1>12
    <2>2. k \in Nat /\ k <= Cardinality(Converted) /\ a \in Nat /\ a <= Cardinality(new)
        BY <1>6, <1>10
    <2>3. n \in DOMAIN clashes => clashes[n] \in Nat /\ k > clashes[n]
        BY <1>9, <1>10
    <2>4. n \notin DOMAIN clashes => a > 0
        <3> SUFFICES ASSUME n \notin DOMAIN clashes
                     PROVE  alike(n) # {}
            BY <1>6
        <3>1. PICK i \in all : n = NameOf(i)
            BY <1>12
        <3> QED BY <1>9, <3>1
    <2> HIDE DEF k, a
    <2> QED BY <1>4, <1>5, <2>1, <2>2, <2>3, <2>4
<1>14. ASSUME NEW i \in new
       PROVE  /\ nums[i] \in Nat /\ nums[i] <= times[NameOf(i)]
              /\ NameOf(i) \in DOMAIN clashes => nums[i] > clashes[NameOf(i)]
    <2> DEFINE n == NameOf(i)
    <2>1. nums[i] = KnownTimes(n) + Cardinality(AskedBefore(i))
        BY <1>11
    <2>2. n \in DOMAIN times /\ times[n] = KnownTimes(n) + Cardinality(alike(n)) - 1
        BY <1>12
    <2>3. /\ Cardinality(AskedBefore(i)) \in Nat /\ Cardinality(alike(n)) \in Nat
          /\ Cardinality(AskedBefore(i)) < Cardinality(alike(n))
        BY <1>6, <1>7
    <2>4. KnownTimes(n) \in Nat /\ (n \in DOMAIN clashes => KnownTimes(n) > clashes[n] /\ clashes[n] \in Nat)
        BY <1>9, <1>10
    <2> HIDE DEF n
    <2>5. nums[i] \in Nat /\ nums[i] <= times[n] /\ (n \in DOMAIN clashes => nums[i] > clashes[n])
        BY <2>1, <2>2, <2>3, <2>4
    <2> QED BY <2>5 DEF n
<1>15. ASSUME NEW i \in all
       PROVE  nums[i] \in Nat /\ nums[i] <= times[NameOf(i)]
    <2>1. CASE i \in Converted
        <3>1. nums[i] \in Nat /\ nums[i] <= clashes[NameOf(i)] /\ NameOf(i) \in DOMAIN clashes
            BY <1>9, <1>11, <2>1
        <3>2. NameOf(i) \in DOMAIN times
            BY <1>12
        <3>3. times[NameOf(i)] \in Nat /\ times[NameOf(i)] >= clashes[NameOf(i)] /\ clashes[NameOf(i)] \in Nat
            BY <1>9, <1>13, <3>1, <3>2
        <3> QED BY <3>1, <3>3
    <2>2. CASE i \in new
        BY <1>14, <2>2
    <2> QED BY <2>1, <2>2
<1>16. ASSUME NEW i \in Converted, NEW j \in new, NameOf(i) = NameOf(j)
       PROVE  nums[i] # nums[j]
    <2>1. nums[i] \in Nat /\ nums[i] <= clashes[NameOf(i)] /\ NameOf(i) \in DOMAIN clashes
        BY <1>9, <1>11
    <2>2. nums[j] \in Nat /\ nums[j] > clashes[NameOf(i)] /\ clashes[NameOf(i)] \in Nat
        BY <1>9, <1>14, <1>16, <2>1
    <2> QED BY <2>1, <2>2
<1>17. ASSUME NEW i \in new, NEW j \in new, NameOf(i) = NameOf(j), i < j
       PROVE  nums[i] # nums[j]
    <2>1. nums[i] = KnownTimes(NameOf(i)) + Cardinality(AskedBefore(i))
          /\ nums[j] = KnownTimes(NameOf(i)) + Cardinality(AskedBefore(j))
        BY <1>11, <1>17
    <2>2. KnownTimes(NameOf(i)) \in Nat /\ Cardinality(AskedBefore(i)) \in Nat /\ Cardinality(AskedBefore(j)) \in Nat
        BY <1>7, <1>10
    <2>3. Cardinality(AskedBefore(i)) < Cardinality(AskedBefore(j))
        BY <1>8, <1>17
    <2> HIDE DEF new
    <2> QED BY <2>1, <2>2, <2>3
<1>18. ASSUME NEW i \in all, NEW j \in all, i # j, NameOf(i) = NameOf(j)
       PROVE  nums[i] # nums[j]
    <2>1. CASE i \in Converted /\ j \in Converted
        BY <1>9, <1>11, <1>18, <2>1
    <2>2. CASE i \in Converted /\ j \in new
        BY <1>16, <1>18, <2>2
    <2>3. CASE i \in new /\ j \in Converted
        BY <1>16, <1>18, <2>3
    <2>4. CASE i \in new /\ j \in new
        <3>1. i < j \/ j < i
            BY <1>1, <1>2, <1>18, <2>4
        <3> QED BY <1>17, <1>18, <2>4, <3>1
    <2> QED BY <2>1, <2>2, <2>3, <2>4
<1> QED BY <1>11, <1>12, <1>13, <1>15, <1>18 DEF NumbersOf, nums, times

\* What is the same when the configurations are.
LEMMA SameVariants ==
    ASSUME variants' = variants
    PROVE  /\ Coordinates' = Coordinates /\ NumbersApart' = NumbersApart
           /\ \A coord : VariantsOf(coord)' = VariantsOf(coord) /\ First(coord)' = First(coord)
           /\ \A i : NameOf(i)' = NameOf(i)
           /\ \A i : TemplatePath(i, numbers)' = TemplatePath(i, numbers')
           /\ \A coord : Entry(coord, numbers)' = Entry(coord, numbers')
<1>1. Coordinates' = Coordinates
    BY DEF Coordinates
<1>2. \A coord : VariantsOf(coord)' = VariantsOf(coord)
    BY DEF VariantsOf
<1>3. \A coord : First(coord)' = First(coord)
    BY <1>2 DEF First
<1>4. \A i : NameOf(i)' = NameOf(i)
    BY DEF NameOf
<1>5. NumbersApart' = NumbersApart
    BY <1>4 DEF NumbersApart
<1>6. \A i : TemplatePath(i, numbers)' = TemplatePath(i, numbers')
    BY <1>4 DEF TemplatePath, Folder
<1>7. \A i : Definition(i, numbers)' = Definition(i, numbers')
    BY <1>6 DEF Definition
<1>8. \A coord : VariantEnvironments(coord)' = VariantEnvironments(coord)
    BY <1>2 DEF VariantEnvironments
<1>9. \A coord : Definitions(coord, numbers)' = Definitions(coord, numbers')
    BY <1>2, <1>7, <1>8 DEF Definitions
<1>10. \A coord, g : OfGroup(coord, g, numbers)' = OfGroup(coord, g, numbers')
    BY <1>8, <1>9 DEF OfGroup
<1>11. \A coord : Bases(coord, numbers)' = Bases(coord, numbers')
    BY <1>8, <1>10 DEF Bases
<1>12. \A coord, e : LeftOverOf(coord, e, numbers)' = LeftOverOf(coord, e, numbers')
    BY <1>10 DEF LeftOverOf
<1>13. \A coord : Entry(coord, numbers)' = Entry(coord, numbers')
    BY <1>3, <1>8, <1>11, <1>12 DEF Entry
<1> QED BY <1>1, <1>2, <1>3, <1>4, <1>5, <1>6, <1>13

LEMMA FilesStart == ConfigFilesInit => FilesInv
<1> SUFFICES ASSUME ConfigFilesInit
             PROVE  FilesInv
    OBVIOUS
<1>1. Converted = {}
    BY DEF ConfigFilesInit, Converted, Coordinates, Range
<1>2. DOMAIN numbers = {} /\ DOMAIN clashes = {} /\ DOMAIN entries = {} /\ DOMAIN templates = {}
    BY DEF ConfigFilesInit
<1>3. FilesTypes
    BY DEF ConfigFilesInit, FilesTypes
<1>4. NumbersInv
    BY <1>1, <1>2 DEF NumbersInv, NumbersOf
<1>5. EntriesInv /\ TemplatesInv
    BY <1>2 DEF ConfigFilesInit, EntriesInv, TemplatesInv
<1>6. WrittenInv /\ RoundTrip
    BY DEF ConfigFilesInit, WrittenInv, RoundTrip
<1> QED BY <1>3, <1>4, <1>5, <1>6 DEF FilesInv

\* A conversion leaves the numbers, and so the entries and files, of what
\* was converted before as they are, and gives new files to what is new.
LEMMA ConvertKeeps ==
    ASSUME FilesInv, NEW coord \in Coordinates, Convert(coord)
    PROVE  FilesInv'
<1> DEFINE new     == VariantsOf(coord)
           path(i) == TemplatePath(i, numbers')
<1>1. /\ filesStage = "convert" /\ coord \in todo /\ todo' = todo \ {coord}
      /\ clashes' = Counted(coord) /\ numbers' = Renumbered(coord)
      /\ variants' = variants /\ filesStage' = filesStage
    BY DEF Convert, Renumbered
<1>2. FilesTypes /\ NumbersInv /\ EntriesInv /\ TemplatesInv /\ variants \in WrittenProjects
    BY DEF FilesInv, FilesTypes
<1>3. /\ Coordinates' = Coordinates /\ NumbersApart' = NumbersApart
      /\ \A x : VariantsOf(x)' = VariantsOf(x) /\ First(x)' = First(x)
      /\ \A i : NameOf(i)' = NameOf(i)
      /\ \A i : TemplatePath(i, numbers)' = path(i)
      /\ \A x : Entry(x, numbers)' = Entry(x, numbers')
    BY <1>1, SameVariants
<1>4. Converted' = Converted \cup new /\ new \cap Converted = {}
    BY <1>1 DEF Converted, VariantsOf
<1>5. NumbersOf(Converted', numbers', clashes')
    BY <1>1, <1>2, <1>4, Numbering
<1>6. NumbersInv'
    BY <1>3, <1>5 DEF NumbersInv, NumbersOf
<1>7. FilesTypes'
    BY <1>1, <1>2, <1>3 DEF FilesTypes
<1>8. ASSUME NEW i \in Converted
      PROVE  numbers'[i] = numbers[i]
    BY <1>1, <1>2, <1>4 DEF Renumbered, NumbersInv, NumbersOf
<1>9. ASSUME NEW x \in DOMAIN entries
      PROVE  /\ x \in Coordinates /\ x \notin todo /\ x # coord
             /\ \A i \in VariantsOf(x) : i \in Converted /\ path(i) = TemplatePath(i, numbers)
             /\ Entry(x, numbers') = entries[x]
    <2>1. x \in Coordinates /\ x \notin todo /\ x # coord /\ entries[x] = Entry(x, numbers)
        BY <1>1, <1>2 DEF EntriesInv
    <2>2. \A i \in VariantsOf(x) : i \in Converted
        BY <2>1 DEF VariantsOf, Converted
    <2>3. \A i \in VariantsOf(x) : numbers'[i] = numbers[i]
        BY <1>8, <2>2
    <2> QED BY <2>1, <2>2, <2>3, EntryDepends
<1>10. ASSUME NEW i \in Converted PROVE path(i) = TemplatePath(i, numbers)
    BY <1>8 DEF TemplatePath
<1> DEFINE canWrite == (\A i \in new : CanWrite(variants[i])) /\ CanWriteType(variants[First(coord)])
<1>11. ASSUME canWrite
       PROVE  EntriesInv' /\ TemplatesInv'
    <2> DEFINE first(p) == CHOOSE i \in new : path(i) = p /\ \A j \in new : path(j) = p => i <= j
    <2>1. /\ entries' = [x \in DOMAIN entries \cup {coord} |-> IF x = coord THEN Entry(coord, numbers') ELSE entries[x]]
          /\ templates' = [p \in DOMAIN templates \cup {path(i) : i \in new} |->
                IF p \in DOMAIN templates THEN templates[p] ELSE variants[first(p)].template.content]
          /\ unwritable' = unwritable
        BY <1>11 DEF Convert
    <2>2. DOMAIN entries' = DOMAIN entries \cup {coord}
          /\ DOMAIN templates' = DOMAIN templates \cup {path(i) : i \in new}
          /\ \A p \in DOMAIN templates : templates'[p] = templates[p]
        BY <2>1
    <2>3. ASSUME NEW i \in new, path(i) \notin DOMAIN templates, \A j \in new : path(j) = path(i) => j = i
          PROVE  templates'[path(i)] = variants[i].template.content
        <3>1. i <= i
            BY <1>2, VariantFacts DEF VariantsOf
        <3>2. first(path(i)) = i
            BY <2>3, <3>1
        <3>3. templates'[path(i)] = variants[first(path(i))].template.content
            BY <2>1, <2>3
        <3> QED BY <3>2, <3>3
    <2> HIDE DEF first
    <2>4. EntriesInv'
        <3>1. unwritable' \cup DOMAIN entries' = Coordinates' \ todo'
            BY <1>1, <1>2, <1>3, <2>1, <2>2 DEF EntriesInv
        <3>2. ASSUME NEW x \in DOMAIN entries'
              PROVE  /\ entries'[x] = Entry(x, numbers)'
                     /\ \A i \in VariantsOf(x)' : CanWrite(variants[i])'
                     /\ CanWriteType(variants[First(x)])'
            <4>1. CASE x = coord
                BY <1>1, <1>3, <1>11, <2>1, <4>1 DEF CanWrite, CanWriteType
            <4>2. CASE x \in DOMAIN entries /\ x # coord
                BY <1>1, <1>2, <1>3, <1>9, <2>1, <4>2 DEF EntriesInv, CanWrite, CanWriteType
            <4> QED BY <2>2, <4>1, <4>2
        <3> QED BY <3>1, <3>2 DEF EntriesInv
    <2>5. TemplatesInv'
        <3>1. ASSUME NEW i \in new, NumbersApart
              PROVE  templates'[path(i)] = variants[i].template.content
            <4>1. Converted' \in SUBSET DOMAIN variants /\ i \in Converted'
                BY <1>1, <1>4 DEF Converted, VariantsOf
            <4>2. \A j \in Converted' : j # i => path(j) # path(i)
                BY <1>2, <1>5, <3>1, <4>1, PathsApart
            <4>3. path(i) \notin DOMAIN templates
                <5> SUFFICES ASSUME path(i) \in DOMAIN templates
                             PROVE  FALSE
                    OBVIOUS
                <5>1. PICK j \in Converted : path(i) = TemplatePath(j, numbers)
                    BY <1>2 DEF TemplatesInv
                <5> QED BY <1>4, <1>10, <4>2, <5>1
            <4>4. \A j \in new : path(j) = path(i) => j = i
                BY <1>4, <4>2
            <4> QED BY <2>3, <4>3, <4>4
        <3>2. ASSUME NEW x \in DOMAIN entries', NEW i \in VariantsOf(x)
              PROVE  /\ path(i) \in DOMAIN templates'
                     /\ NumbersApart => templates'[path(i)] = variants[i].template.content
            <4>1. CASE x = coord
                BY <2>2, <3>1, <4>1
            <4>2. CASE x \in DOMAIN entries /\ x # coord
                BY <1>2, <1>9, <2>2, <4>2 DEF TemplatesInv
            <4> QED BY <2>2, <4>1, <4>2
        <3>3. ASSUME NEW p \in DOMAIN templates'
              PROVE  \E i \in Converted' : p = path(i)
            <4>1. CASE p \in DOMAIN templates
                <5>1. PICK i \in Converted : p = TemplatePath(i, numbers)
                    BY <1>2, <4>1 DEF TemplatesInv
                <5> QED BY <1>4, <1>10, <5>1
            <4>2. CASE p \in {path(i) : i \in new}
                BY <1>4, <4>2
            <4> QED BY <2>2, <4>1, <4>2
        <3> QED BY <1>1, <1>3, <3>2, <3>3 DEF TemplatesInv
    <2> QED BY <2>4, <2>5
<1>12. ASSUME ~canWrite
       PROVE  EntriesInv' /\ TemplatesInv'
    <2>1. unwritable' = unwritable \cup {coord} /\ entries' = entries /\ templates' = templates
        BY <1>12 DEF Convert
    <2>2. EntriesInv'
        <3>1. unwritable' \cup DOMAIN entries' = Coordinates' \ todo'
            BY <1>1, <1>2, <1>3, <2>1 DEF EntriesInv
        <3>2. ASSUME NEW x \in DOMAIN entries'
              PROVE  /\ entries'[x] = Entry(x, numbers)'
                     /\ \A i \in VariantsOf(x)' : CanWrite(variants[i])'
                     /\ CanWriteType(variants[First(x)])'
            BY <1>1, <1>2, <1>3, <1>9, <2>1 DEF EntriesInv, CanWrite, CanWriteType
        <3> QED BY <3>1, <3>2 DEF EntriesInv
    <2>3. TemplatesInv'
        <3>1. ASSUME NEW x \in DOMAIN entries, NEW i \in VariantsOf(x)
              PROVE  /\ path(i) \in DOMAIN templates
                     /\ NumbersApart => templates[path(i)] = variants[i].template.content
            BY <1>2, <1>9 DEF TemplatesInv
        <3>2. ASSUME NEW p \in DOMAIN templates
              PROVE  \E i \in Converted' : p = path(i)
            <4>1. PICK i \in Converted : p = TemplatePath(i, numbers)
                BY <1>2 DEF TemplatesInv
            <4> QED BY <1>4, <1>10, <4>1
        <3> QED BY <1>1, <1>3, <2>1, <3>1, <3>2 DEF TemplatesInv
    <2> QED BY <2>2, <2>3
<1>13. WrittenInv' /\ RoundTrip'
    BY <1>1 DEF WrittenInv, RoundTrip
<1> QED BY <1>6, <1>7, <1>11, <1>12, <1>13 DEF FilesInv

\* A step that only goes on leaves the files as they are.
LEMMA FilesStay ==
    ASSUME FilesInv, UNCHANGED <<variants, todo, clashes, numbers, templates, entries, unwritable>>
    PROVE  NumbersInv' /\ EntriesInv' /\ TemplatesInv'
<1>1. NumbersInv /\ EntriesInv /\ TemplatesInv
    BY DEF FilesInv
<1>2. /\ Coordinates' = Coordinates /\ NumbersApart' = NumbersApart
      /\ \A x : VariantsOf(x)' = VariantsOf(x) /\ First(x)' = First(x)
      /\ \A i : NameOf(i)' = NameOf(i)
      /\ \A i : TemplatePath(i, numbers)' = TemplatePath(i, numbers)
      /\ \A x : Entry(x, numbers)' = Entry(x, numbers)
    BY SameVariants
<1>3. Converted' = Converted
    BY DEF Converted
<1>4. NumbersInv'
    BY <1>1, <1>2, <1>3 DEF NumbersInv, NumbersOf
<1>5. EntriesInv'
    BY <1>1, <1>2 DEF EntriesInv, CanWrite, CanWriteType
<1>6. TemplatesInv'
    BY <1>1, <1>2, <1>3 DEF TemplatesInv
<1> QED BY <1>4, <1>5, <1>6

LEMMA FilesWriteKeeps ==
    ASSUME FilesInv, WriteConfigs
    PROVE  FilesInv'
<1>1. NumbersInv' /\ EntriesInv' /\ TemplatesInv'
    BY FilesStay DEF WriteConfigs
<1>2. FilesTypes'
    BY DEF FilesInv, FilesTypes, WriteConfigs, Coordinates
<1>3. WrittenInv' /\ RoundTrip'
    BY DEF WriteConfigs, WrittenInv, RoundTrip
<1> QED BY <1>1, <1>2, <1>3 DEF FilesInv

\* All that is acceptable is loaded from its entry.
LEMMA FilesLoadKeeps ==
    ASSUME FilesInv, LoadConfigs
    PROVE  FilesInv'
<1>1. NumbersInv' /\ EntriesInv' /\ TemplatesInv'
    BY FilesStay DEF LoadConfigs
<1>2. FilesTypes'
    BY DEF FilesInv, FilesTypes, LoadConfigs, Coordinates
<1>3. WrittenInv'
    BY DEF FilesInv, LoadConfigs, WrittenInv
<1>4. variants' = variants /\ variants \in WrittenProjects
    BY DEF FilesInv, FilesTypes, LoadConfigs
<1>5. ASSUME NEW coord \in Coordinates, \A i \in VariantsOf(coord) : Acceptable(variants[i]),
             NEW i \in VariantsOf(coord)
      PROVE  \E l \in reread' : /\ l.coord = coord /\ l.env = variants[i].env
                                /\ Kept(variants[i], l)
                                /\ VariantsOf(coord) = {i} => Exact(variants[i], l)
    <2> DEFINE env   == variants[i].env
               entry == Entry(coord, numbers)
               seen(f) == ForEnvironment(entries[f[1]], f[2])
               l     == FromDefinition(coord, env, entry, ForEnvironment(entry, env))
    <2>1. coord \in DOMAIN entries
        BY DEF FilesInv, WrittenInv, EntriesInv, LoadConfigs
    <2>2. /\ entries[coord] = entry /\ CanWriteType(variants[First(coord)])
          /\ NumbersApart => templates[TemplatePath(i, numbers)] = variants[i].template.content
        BY <2>1 DEF FilesInv, EntriesInv, TemplatesInv
    <2>3. /\ Loadable(coord, entry, ForEnvironment(entry, env))
          /\ l.coord = coord /\ l.env = env /\ Kept(variants[i], l)
          /\ VariantsOf(coord) = {i} => Exact(variants[i], l)
        BY <1>4, <1>5, <2>2, VariantLoads
    <2>4. env \in DOMAIN GroupOf
        BY <1>4, VariantIs DEF VariantsOf
    <2>5. l \in reread'
        <3> DEFINE found == {f \in Coordinates \X DOMAIN GroupOf : Loadable(f[1], entries[f[1]], seen(f))}
                   all   == {FromDefinition(f[1], f[2], entries[f[1]], seen(f)) : f \in found}
        <3>1. reread' = all
            BY DEF LoadConfigs
        <3>2. <<coord, env>> \in found
            BY <2>2, <2>3, <2>4
        <3>3. FromDefinition(<<coord, env>>[1], <<coord, env>>[2], entries[<<coord, env>>[1]], seen(<<coord, env>>)) = l
            BY <2>2
        <3> HIDE DEF found, l
        <3>4. l \in all
            BY <3>2, <3>3
        <3> QED BY <3>1, <3>4
    <2> HIDE DEF l
    <2> QED BY <2>3, <2>5
<1>6. RoundTrip'
    <2>1. /\ Coordinates' = Coordinates /\ NumbersApart' = NumbersApart
          /\ \A x : VariantsOf(x)' = VariantsOf(x)
        BY <1>4, SameVariants
    <2> QED BY <1>4, <1>5, <2>1 DEF RoundTrip, Acceptable, Kept, Exact
<1> QED BY <1>1, <1>2, <1>3, <1>6 DEF FilesInv

\* The numbers, entries and files are right throughout, and what is written
\* can be loaded again.
THEOREM FilesInvariance == ConfigFilesSpec => []FilesInv
<1>1. ConfigFilesInit => FilesInv
    BY FilesStart
<1>2. FilesInv /\ [ConfigFilesNext]_configFilesVars => FilesInv'
    <2> SUFFICES ASSUME FilesInv, [ConfigFilesNext]_configFilesVars
                 PROVE  FilesInv'
        OBVIOUS
    <2>1. ASSUME NEW coord \in Coordinates, Convert(coord)
          PROVE  FilesInv'
        BY <2>1, ConvertKeeps
    <2>2. CASE WriteConfigs
        BY <2>2, FilesWriteKeeps
    <2>3. CASE LoadConfigs
        BY <2>3, FilesLoadKeeps
    <2>4. CASE UNCHANGED configFilesVars
        <3>1. UNCHANGED <<variants, todo, clashes, numbers, templates, entries, unwritable>>
              /\ UNCHANGED <<variants, todo, unwritable, reread, filesStage>>
            BY <2>4 DEF configFilesVars
        <3>2. NumbersInv' /\ EntriesInv' /\ TemplatesInv'
            BY <3>1, FilesStay
        <3>3. FilesTypes' /\ WrittenInv'
            BY <3>1 DEF FilesInv, FilesTypes, WrittenInv, Coordinates
        <3>4. RoundTrip'
            <4>1. /\ Coordinates' = Coordinates /\ NumbersApart' = NumbersApart
                  /\ \A x : VariantsOf(x)' = VariantsOf(x)
                BY <3>1, SameVariants
            <4> QED BY <3>1, <4>1 DEF FilesInv, RoundTrip, Acceptable, Kept, Exact
        <3> QED BY <3>2, <3>3, <3>4 DEF FilesInv
    <2> QED BY <2>1, <2>2, <2>3, <2>4 DEF ConfigFilesNext, ConfigFilesDone
<1> QED BY <1>1, <1>2, PTL DEF ConfigFilesSpec

\* Every acceptable configuration that was written is loaded again as it was
\* (config_writer.go, config_entry_loader.go).
THEOREM AlwaysRoundTrip == ConfigFilesSpec => []RoundTrip
<1>1. FilesInv => RoundTrip
    BY DEF FilesInv
<1> QED BY <1>1, FilesInvariance, PTL
=============================================================================
