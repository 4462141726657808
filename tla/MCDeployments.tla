--------------------------- MODULE MCDeployments ---------------------------
(* What TLC deploys with the modules Environments and ResourceUpsert.         *)
EXTENDS Integers, Sequences

CONSTANT Nil

-----------------------------------------------------------------------------
(* Two environments with every combination of credentials, and pairs of      *)
(* configurations of every type, deployed or checked only; the second may    *)
(* refer to the first.                                                       *)

EnvTypes == {"classic", "settings", "permitted settings", "automation", "openpipeline", "segment"}

EnvAccess == [access : BOOLEAN, oauth : BOOLEAN, token : BOOLEAN, valid : BOOLEAN, sorted : {TRUE}]

EnvGood == [access |-> TRUE, oauth |-> TRUE, token |-> FALSE, valid |-> TRUE, sorted |-> TRUE]

EnvPairs ==
    {[e1 |-> a, e2 |-> EnvGood] : a \in EnvAccess}
    \cup {[e1 |-> EnvGood, e2 |-> [EnvGood EXCEPT !.valid = v, !.sorted = s]] : v \in BOOLEAN, s \in BOOLEAN}

EnvConfig(env, type, id, skip) ==
    [env |-> env, id |-> id, type |-> type, kind |-> "k", skip |-> skip, needs |-> {}]

EnvConfigs ==
    {{EnvConfig("e1", t, 1, skip), [EnvConfig("e1", u, 2, FALSE) EXCEPT !.needs = needs],
      EnvConfig("e2", "settings", 1, FALSE)} :
        t \in EnvTypes, u \in EnvTypes, skip \in BOOLEAN, needs \in {{}, {1}}}
    \cup {{EnvConfig("e3", "classic", 1, FALSE)}}

EnvCases == [envs : EnvPairs, configs : EnvConfigs, continue : BOOLEAN, dryRun : BOOLEAN]

-----------------------------------------------------------------------------
(* Two configurations of each kind, with an origin object that exists, one    *)
(* that does not, and none.                                                   *)

UpConfig(id, kind, origin, custom, flaw) == [id |-> id, kind |-> kind, origin |-> origin, custom |-> custom, flaw |-> flaw]

UpObject(kind, id) == [kind |-> kind, id |-> id, ext |-> Nil, maker |-> Nil, writers |-> {}, state |-> "active"]

UpGiven(x) == <<"given", x>>

UpPair(kind) ==
    {UpConfig("1", kind, UpGiven("o"), IF kind = "document" THEN UpGiven("d") ELSE Nil, "none"),
     UpConfig("2", kind, Nil, Nil, "none")}

UpSimple(kind) == UpConfig("3", kind, Nil, UpGiven("k"), "none")

UpCases ==
    {[configs |-> UpPair(kind) \cup {other}, existing |-> {UpObject(kind, UpGiven("o")), UpObject("openpipeline", UpGiven("k"))}] :
        kind \in {"automation", "bucket", "document", "segment", "slo"},
        other \in {UpSimple("openpipeline"), UpSimple("classic"), UpSimple("settings"),
                   UpConfig("3", "slo", Nil, Nil, "payload"),
                   UpConfig("4", "segment", UpGiven("lost"), Nil, "none")}}

=============================================================================
