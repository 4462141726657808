---------------------------- MODULE Environments ----------------------------
(***************************************************************************)
(* A deployment from the command to the last environment: the checks that  *)
(* come before anything is written, in their order, the clients that the   *)
(* credentials of an environment give, and one environment after the       *)
(* other: caches are filled by one goroutine for every type, the           *)
(* configurations are deployed (module Deploy), the caches are cleared.    *)
(***************************************************************************)
EXTENDS Naturals, Sequences, FiniteSets

CONSTANTS Cases,   \* the environments, configurations and options considered
          Nil

VARIABLES
    case,      \* environments, configurations, options
    step,      \* what the command does next
    clients,   \* the kinds of clients an environment has got
    errors,    \* the environments the collected errors are about
    left,      \* environments not yet deployed
    current,   \* the environment being deployed
    loading,   \* types whose cache is being filled
    caches,    \* filled caches: environment and type
    touched,   \* configurations whose turn has come
    broken,    \* those of them that have failed
    outcome    \* what the command returns

vars == <<case, step, clients, errors, left, current, loading, caches, touched, broken, outcome>>

Envs    == DOMAIN case.envs
Configs == {c \in case.configs : ~c.skip}
In(env) == {c \in Configs : c.env = env}

\* The configurations that c refers to, skipped ones included.
Needs(c) == {d \in case.configs : d.env = c.env /\ d.id \in c.needs}

\* The environments whose deployment has failed.
Failing == {c.env : c \in broken}

-----------------------------------------------------------------------------
Platform == {"automation", "bucket", "document", "openpipeline"}

HasPlatform(env) == case.envs[env].oauth \/ case.envs[env].token

\* Configurations of environments that are not selected, of one kind of
\* pipeline twice, or of a platform that the environment does not reach.
WithEnvironments ==
    /\ \A c \in case.configs : c.env \in Envs
    /\ \A c, d \in Configs : c.type = "openpipeline" /\ d.type = "openpipeline" /\ c.kind = d.kind /\ c.env = d.env => c = d
    /\ \A c \in Configs : c.type \in Platform => HasPlatform(c.env)

\* Fault: permissions of settings are not looked at.
AllowedAnyPermission(c) ==
    CASE c.type = "classic" -> case.envs[c.env].access
      [] c.type \in {"settings", "permitted settings"} -> case.envs[c.env].access \/ HasPlatform(c.env)
      [] OTHER -> HasPlatform(c.env)

\* What a configuration needs to be written.
Allowed(c) ==
    CASE c.type = "classic" -> case.envs[c.env].access
      [] c.type = "permitted settings" -> HasPlatform(c.env)
      [] c.type = "settings" -> case.envs[c.env].access \/ HasPlatform(c.env)
      [] OTHER -> HasPlatform(c.env)

\* Settings are written by a platform client if there is one.
CreateClientSet(env) ==
    IF case.dryRun
    THEN {"classic", "platform settings", "automation", "bucket", "document", "openpipeline", "segment", "slo"}
    ELSE (IF HasPlatform(env)
          THEN {"automation", "bucket", "document", "openpipeline", "segment", "slo", "platform settings"} ELSE {})
         \cup (IF case.envs[env].access THEN {"classic"} ELSE {})
         \cup (IF case.envs[env].access /\ ~HasPlatform(env) THEN {"classic settings"} ELSE {})

\* The clients with which a type can be deployed.
ClientsFor(type) ==
    CASE type = "settings" -> {"platform settings", "classic settings"}
      [] type = "permitted settings" -> {"platform settings"}
      [] OTHER -> {type}

\* The cached types: the first configuration of a type decides.
Preloads(env) ==
    {t \in {"classic", "settings"} :
        \E c \in In(env) : (c.type = t \/ (c.type = "permitted settings" /\ t = "settings"))
                           /\ \E k \in clients[env] : k \in ClientsFor(t)}

-----------------------------------------------------------------------------
Init ==
    /\ case \in Cases
    /\ step = "manifest"
    /\ clients = [e \in Envs |-> {}]
    /\ errors = {}
    /\ left = Envs
    /\ current = Nil
    /\ loading = {}
    /\ caches = {}
    /\ touched = {}
    /\ broken = {}
    /\ outcome = Nil

Quiet == UNCHANGED <<case, clients, errors, left, current, loading, caches, touched, broken>>

Stop(result) == step' = "end" /\ outcome' = result
Go(next) == step' = next /\ UNCHANGED outcome

Refuse == Stop([kind |-> "refused", envs |-> {}])

\* The manifest or the projects may be wrong, and an environment may not answer.
LoadManifest == step = "manifest" /\ (Refuse \/ Go("verify")) /\ Quiet

VerifyAuthentication ==
    /\ step = "verify"
    /\ IF case.dryRun THEN Go("projects")
       ELSE \/ Refuse
            \/ (\A e \in Envs : case.envs[e].access \/ HasPlatform(e)) /\ Go("projects")
    /\ Quiet

LoadProjects == step = "projects" /\ (Refuse \/ Go("environments")) /\ Quiet

ValidateWithEnvironments ==
    /\ step = "environments"
    /\ IF WithEnvironments THEN Go("credentials") ELSE Refuse
    /\ Quiet

ValidateCredentials ==
    /\ step = "credentials"
    /\ IF \A c \in Configs : Allowed(c) THEN Go("clients") ELSE Refuse
    /\ Quiet

CreateClients ==
    /\ step = "clients"
    /\ \/ ~case.dryRun /\ Refuse /\ UNCHANGED clients
       \/ Go("validate") /\ clients' = [e \in Envs |-> CreateClientSet(e)]
    /\ UNCHANGED <<case, errors, left, current, loading, caches, touched, broken>>

GoOn == case.continue \/ case.dryRun

\* Errors of the validation are kept only if the deployment goes on.
Validate ==
    /\ step = "validate"
    /\ LET invalid == {e \in Envs : ~case.envs[e].valid}
       IN  IF invalid = {} THEN Go("sort") /\ UNCHANGED errors
           ELSE IF GoOn THEN Go("sort") /\ errors' = invalid
           ELSE Stop([kind |-> "failed", envs |-> invalid]) /\ UNCHANGED errors
    /\ UNCHANGED <<case, clients, left, current, loading, caches, touched, broken>>

Sort ==
    /\ step = "sort"
    /\ IF \A e \in Envs : case.envs[e].sorted THEN Go("next") ELSE Refuse
    /\ Quiet

-----------------------------------------------------------------------------
\* Environments come in any order.
Begin(env) ==
    /\ step = "next"
    /\ env \in left
    /\ left' = left \ {env}
    /\ current' = env
    /\ loading' = Preloads(env)
    /\ Go("preload")
    /\ UNCHANGED <<case, clients, errors, caches, touched, broken>>

\* A cache that cannot be filled is a warning.
Cached(type) ==
    /\ step = "preload"
    /\ type \in loading
    /\ loading' = loading \ {type}
    /\ \/ caches' = caches \cup {<<current, type>>}
       \/ UNCHANGED caches
    /\ UNCHANGED <<case, step, clients, errors, left, current, touched, broken, outcome>>

Preloaded == step = "preload" /\ loading = {} /\ Go("deploy") /\ Quiet

\* All that c refers to has been deployed.
Ready(c) == Needs(c) \subseteq touched \ broken

\* The components of an environment, in the order Deploy allows: what is below
\* a configuration that failed or is skipped has no turn.
DeployConfig(c) ==
    /\ step = "deploy"
    /\ c \in In(current) \ touched /\ Ready(c)
    /\ touched' = touched \cup {c}
    /\ broken' \in {broken, broken \cup {c}}
    /\ UNCHANGED <<case, step, clients, errors, left, current, loading, caches, outcome>>

\* Fault: an environment replaces the errors there are.
Overwrite(env) == errors' = {env}

AddError(env) == errors' = errors \cup {env}

Finish ==
    /\ step = "deploy"
    /\ \A c \in In(current) \ touched : ~Ready(c)
    /\ caches' = {x \in caches : x[1] # current}
    /\ current' = Nil
    /\ IF current \in Failing
       THEN /\ AddError(current)
            /\ IF GoOn THEN Go("next") ELSE Stop([kind |-> "failed", envs |-> errors'])
       ELSE Go("next") /\ UNCHANGED errors
    /\ UNCHANGED <<case, clients, left, loading, touched, broken>>

End ==
    /\ step = "next"
    /\ left = {}
    /\ Stop(IF errors = {} THEN [kind |-> "deployed", envs |-> {}] ELSE [kind |-> "failed", envs |-> errors])
    /\ Quiet

Done == step = "end" /\ UNCHANGED vars

Next ==
    \/ LoadManifest \/ VerifyAuthentication \/ LoadProjects \/ ValidateWithEnvironments
    \/ ValidateCredentials \/ CreateClients \/ Validate \/ Sort
    \/ \E e \in left : Begin(e)
    \/ \E t \in loading : Cached(t)
    \/ Preloaded
    \/ \E c \in case.configs : DeployConfig(c)
    \/ Finish \/ End \/ Done

Spec == Init /\ [][Next]_vars

-----------------------------------------------------------------------------
\* No deployer is given a configuration without a client that can write it:
\* the checks of credentials ask for all that the clients are made from
\* (validateAuthenticationWithProjectConfigs, CreateClientSetWithOptions).
NoMissingClient ==
    step = "deploy" => \A c \in In(current) : ClientsFor(c.type) \cap clients[current] # {}

\* What is returned names the environments that are invalid or have failed and
\* no other; without an error, and whenever the deployment is to go on, every
\* environment has had its turn.  In one that had it the configurations that had
\* theirs are those that refer to deployed ones only: what is below a failed one
\* is left out, and, without an error, what is below a skipped one.  Nothing is
\* touched before all checks have passed, and a failure ends the deployment
\* unless it is to go on (deployConfigs, DeployForAllEnvironments, deployGraph).
FailuresNamed ==
    LET invalid == {e \in Envs : ~case.envs[e].valid}
    IN  /\ outcome # Nil =>
             CASE outcome.kind = "refused"  -> touched = {}
               [] outcome.kind = "deployed" -> invalid = {} /\ broken = {} /\ left = {}
               [] outcome.kind = "failed"   -> /\ outcome.envs = Failing \cup invalid
                                               /\ GoOn => left = {}
        /\ \A e \in Envs \ {current} : \A c \in In(e) :
              c \in touched <=> e \notin left /\ Ready(c)
        /\ ~GoOn => Cardinality(Failing) <= 1 /\ (touched # {} => invalid = {})
        /\ \A x \in caches : x[1] = current
=============================================================================
