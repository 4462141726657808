----------------------------- MODULE MCManifest -----------------------------
(* Pairs of groups and environments with good and bad names, credentials and  *)
(* URLs, with up to two slashes at the end, all restrictions to them;         *)
(* accounts; simple and grouping projects, with dots and slashes in names.    *)
EXTENDS Sequences, TLC

MCHosts == {"host", "host/", "host//"}
MCShorter ==
    "/" :> "" @@ "host/" :> "host" @@ "host//" :> "host/" @@ "elsewhere/" :> "elsewhere" @@ "elsewhere//" :> "elsewhere/"
MCSlashed == {"p/q"}

MCVariables == [v |-> "host/", w |-> "secret", empty |-> "", slash |-> "/"]

MCUrl(type, value) == [type |-> type, value |-> value]
MCSecret(type, name) == [type |-> type, name |-> name]
MCPlain(name)  == MCSecret("", name)
MCOAuth(id, endpoint) == [id |-> MCPlain(id), secret |-> MCSecret("environment", "w"), endpoint |-> endpoint]

MCAuth(token, oauth, platform) == [token |-> token, oauth |-> oauth, platform |-> platform]

MCAuths ==
    {MCAuth({MCPlain("w")}, {}, {}), MCAuth({}, {}, {}), MCAuth({}, {}, {MCPlain("w")}), MCAuth({MCPlain("empty")}, {}, {}),
     MCAuth({MCSecret("value", "w")}, {}, {}), MCAuth({}, {MCOAuth("w", {})}, {MCPlain("w")}),
     MCAuth({MCPlain("w")}, {MCOAuth("w", {MCUrl("environment", "v")})}, {}), MCAuth({}, {MCOAuth("none", {})}, {}),
     MCAuth({}, {MCOAuth("w", {MCUrl("value", "host//")})}, {}), MCAuth({}, {MCOAuth("w", {MCUrl("value", "elsewhere")})}, {})}

MCUrls ==
    {MCUrl("", v) : v \in {"elsewhere", "elsewhere/", "elsewhere//", "/", ""}}
    \cup {MCUrl("environment", v) : v \in {"v", "none", "slash"}} \cup {MCUrl("other", "v")}

MCEnv(name, auth, url) == [name |-> name, auth |-> auth, url |-> url]
MCGood(name) == MCEnv(name, MCAuth({MCPlain("w")}, {}, {}), MCUrl("", "elsewhere"))
MCGroup(name, environments) == [name |-> name, environments |-> environments]

MCGroups ==
    {<<>>}
    \cup {<<MCGroup("g", <<MCGood("e"), MCEnv("f", auth, MCUrl("", "elsewhere"))>>)>> : auth \in MCAuths}
    \cup {<<MCGroup("g", <<MCEnv("e", MCAuth({MCPlain("w")}, {}, {}), url)>>), MCGroup("h", <<MCGood("f")>>)>> : url \in MCUrls}
    \cup {<<MCGroup(g, <<MCGood("e")>>), MCGroup("h", <<MCGood(e)>>)>> : g \in {"g", "h", ""}, e \in {"e", "f", ""}}
    \cup {<<MCGroup("g", <<>>), MCGroup("h", envs)>> : envs \in {<<>>, <<MCGood("e")>>}}

MCRestrictions ==
    {<<{}, {}>>, <<{"g"}, {}>>, <<{}, {"e"}>>, <<{"h"}, {"e"}>>, <<{"g", "h"}, {}>>, <<{}, {"none"}>>, <<{"none"}, {}>>}

MCSimple(name, path) == [name |-> name, path |-> path, type |-> "simple"]
MCGrouping(name, path) == [name |-> name, path |-> path, type |-> "grouping"]

MCProjects ==
    {<<MCSimple(<<"p">>, <<>>)>>, <<MCSimple(<<"p">>, <<>>), MCSimple(<<"p">>, <<<<"q">>>>)>>,
     <<MCSimple(<<"p", "a">>, <<>>), MCSimple(<<"p", "b">>, <<<<"p">>, <<"b">>>>)>>,
     <<MCSimple(<<"p/q">>, <<>>)>>, <<MCSimple(<<"none", "b">>, <<<<"none">>, <<"b">>>>)>>,
     <<MCGrouping(<<"p">>, <<<<"p">>>>), MCSimple(<<"p", "a">>, <<<<"q">>>>)>>,
     <<MCGrouping(<<"p">>, <<<<"p">>>>), MCSimple(<<"q">>, <<>>)>>,
     <<MCGrouping(<<"p">>, <<<<"none">>>>)>>, <<MCSimple(<<>>, <<>>)>>}

MCAccount(name, uuid, oauth, url) == [name |-> name, uuid |-> uuid, oauth |-> oauth, url |-> url]

MCAccounts ==
    {<<>>, <<MCAccount("", MCUrl("", "id"), MCOAuth("w", {}), {})>>}
    \cup {<<MCAccount("a", uuid, oauth, url), MCAccount(name, MCUrl("", "id"), MCOAuth("w", {}), {})>> :
            name \in {"a", "b"}, uuid \in {MCUrl("", "malformed"), MCUrl("environment", "v")},
            oauth \in {MCOAuth("w", {MCUrl("", "host//")}), MCOAuth("empty", {})},
            url \in {{}, {MCUrl("environment", "v")}, {MCUrl("", "host/")}, {MCUrl("", "elsewhere")}}}

MCFile == [version |-> "supported", groups |-> <<>>, accounts |-> <<>>, projects |-> <<MCSimple(<<"p">>, <<>>)>>,
           onlyGroups |-> {}, environments |-> {}, account |-> {}, needEnvironments |-> TRUE, needAccounts |-> FALSE,
           resolve |-> TRUE, platformTokens |-> TRUE, variables |-> MCVariables, folders |-> [x \in {<<<<"p">>>>} |-> {<<"a">>, <<"b">>, <<"a", "b">>}]]

MCCases ==
    {[MCFile EXCEPT !.groups = groups, !.onlyGroups = r[1], !.environments = r[2], !.resolve = resolve, !.platformTokens = tokens] :
        groups \in MCGroups, r \in MCRestrictions, resolve \in BOOLEAN, tokens \in BOOLEAN}
    \cup {[MCFile EXCEPT !.groups = <<MCGroup("g", <<MCGood("e")>>)>>, !.projects = projects, !.version = v] :
        projects \in MCProjects, v \in {"supported", "missing"}}
    \cup {[MCFile EXCEPT !.needEnvironments = FALSE, !.needAccounts = TRUE, !.accounts = accounts, !.account = a, !.resolve = resolve] :
        accounts \in MCAccounts, a \in {{}, {"a"}, {"b"}, {"none"}}, resolve \in BOOLEAN}
==============================================================================
