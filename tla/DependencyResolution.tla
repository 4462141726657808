------------------------ MODULE DependencyResolution ------------------------
(***************************************************************************)
(* After a download ids of other downloaded configurations are replaced by *)
(* references, each configuration by a goroutine of its own, and the ids   *)
(* that are left are extracted into a parameter.  A template is a sequence *)
(* of words with what surrounds them; a word stands for itself, or for a   *)
(* parameter of a name that is a reference or an extracted id.             *)
(***************************************************************************)
EXTENDS Naturals, Sequences, FiniteSets

CONSTANT Downloads \* downloaded configurations and feature flags

VARIABLES
    download,    \* one of them
    configsById, \* key to the configuration that is found by it
    running,     \* configurations whose goroutine has started
    passes,      \* per configuration places of the ids still to be replaced
    templates,   \* per configuration its words, some of them replaced
    references,  \* per configuration parameter name to the configuration meant
    scopes,      \* per configuration its scope, and the configuration it refers to
    unextracted, \* configurations whose ids are not yet extracted
    resolution   \* what is done with all configurations

resolverVars == <<download, configsById, running, passes, templates, references, scopes, unextracted, resolution>>

WordFields == {"text", "before", "joined", "place", "as", "name"}

\* What is downloaded consists of words that stand for themselves.
ASSUME DownloadsAssumption ==
    \A d \in Downloads : \A c \in d.configs :
        /\ DOMAIN c.words = 1..Len(c.words) /\ Len(c.words) \in Nat
        /\ \A i \in DOMAIN c.words : DOMAIN c.words[i] = WordFields /\ c.words[i].as = "itself"

Downloaded == download.configs

-----------------------------------------------------------------------------
\* Keys under which a configuration is known: its id, the object it comes
\* from and for management zones the number in that.
Keys(c) == IF c.kind = "pipeline" THEN {} ELSE {c.id} \cup c.origin \cup c.number

AllKeys == UNION {Keys(c) : c \in Downloaded}

\* Of configurations with one key the last one entered is found.
CollectConfigsById == {f \in [AllKeys -> Downloaded] : \A k \in AllKeys : k \in Keys(f[k])}

IsDashboard(c)    == c.type = "dashboard"
IsShareSetting(c) == c.type = "dashboard-share-setting"

CanReference(to, from) ==
    /\ to # from
    /\ ~(IsDashboard(to) /\ IsDashboard(from))
    /\ ~IsShareSetting(from)

\* Names lose what is not a letter, a digit or an underscore.
CreateParameterName(c) == <<c.type, c.plain>>

-----------------------------------------------------------------------------
\* A dot in a key matches any character.
Equals(text, key) == text = key \/ <<key, text>> \in download.alike

\* Fault: inside of longer words as well.
AnyMatch(word, key) == Equals(word.text, key)

\* A key matches where it stands alone, a document's only after a slash.
GetMatchingRegEx(word, key) ==
    /\ Equals(word.text, key)
    /\ IF configsById[key].kind = "document" THEN word.before = "slash" ELSE word.before # "letter"

\* Within string values only, if so configured.
Fits(word, key) ==
    /\ word.as = "itself" /\ GetMatchingRegEx(word, key)
    /\ download.inStrings => word.place = "within string"

\* In one pass what separates two words belongs to the first match only.
ReplaceAll(words, key) ==
    {hits \in SUBSET {i \in DOMAIN words : Fits(words[i], key)} :
        \A i \in DOMAIN words :
            Fits(words[i], key) => (i \in hits <=> ~(i > 1 /\ words[i - 1].joined /\ i - 1 \in hits))}

Replaced(words, hits, name) ==
    [i \in DOMAIN words |-> IF i \in hits THEN [words[i] EXCEPT !.as = "reference", !.name = name] ELSE words[i]]

-----------------------------------------------------------------------------
\* The scope of a setting becomes a reference if it is a known key.
ResolveScope(c) ==
    IF c.kind = "settings" /\ c.scope \in AllKeys
    THEN [scopes EXCEPT ![c].by = {configsById[c.scope]}]
    ELSE scopes

Occurrences(c) == {i \in DOMAIN c.words : c.words[i].text \in AllKeys}

\* One pass for each occurrence, or one for each key that occurs.
PassesOf(c) ==
    IF download.fast THEN Occurrences(c)
    ELSE {i \in Occurrences(c) : \A j \in Occurrences(c) : c.words[j].text = c.words[i].text => i <= j}

ResolveDependencyReferences(c) ==
    /\ resolution = "resolve" /\ c \notin running
    /\ running' = running \cup {c}
    /\ scopes' = ResolveScope(c)
    /\ passes' = [passes EXCEPT ![c] = PassesOf(c)]
    /\ UNCHANGED <<download, configsById, templates, references, unextracted, resolution>>

\* The key at one of its places: in the order of the content, or any order.
FindAndReplaceIDs(c, i) ==
    /\ resolution = "resolve" /\ i \in passes[c]
    /\ download.fast => \A j \in passes[c] : i <= j
    /\ passes' = [passes EXCEPT ![c] = @ \ {i}]
    /\ LET key  == c.words[i].text
           from == configsById[key]
           name == CreateParameterName(from)
       IN  \E hits \in IF CanReference(c, from) THEN ReplaceAll(templates[c], key) ELSE {{}} :
              /\ templates' = [templates EXCEPT ![c] = Replaced(@, hits, name)]
              /\ references' = IF hits = {} THEN references
                               ELSE [references EXCEPT ![c] = [n \in DOMAIN @ \cup {name} |-> IF n = name THEN from ELSE @[n]]]
    /\ UNCHANGED <<download, configsById, running, scopes, unextracted, resolution>>

ResolveDependencies ==
    /\ resolution = "resolve"
    /\ running = Downloaded
    /\ \A c \in Downloaded : passes[c] = {}
    /\ resolution' = "extract"
    /\ UNCHANGED <<download, configsById, running, passes, templates, references, scopes, unextracted>>

-----------------------------------------------------------------------------
\* Ids of entities and UUIDs, wherever they stand in the content.
FindAllIds(words) == {i \in DOMAIN words : words[i].as = "itself" /\ words[i].text \in download.entities}

ExtractIds(words) ==
    [i \in DOMAIN words |-> IF i \in FindAllIds(words)
                            THEN [words[i] EXCEPT !.as = "extracted", !.name = words[i].text] ELSE words[i]]

\* A scope that is not the environment is extracted if so configured.
ExtractScope(c) ==
    IF download.extractScope /\ c.kind = "settings" /\ scopes[c].by = {} /\ scopes[c].key # "environment"
    THEN [scopes EXCEPT ![c].by = {c}]
    ELSE scopes

ExtractIDsIntoYAML(c) ==
    /\ resolution = "extract" /\ c \in unextracted
    /\ templates' = [templates EXCEPT ![c] = ExtractIds(@)]
    /\ scopes' = ExtractScope(c)
    /\ unextracted' = unextracted \ {c}
    /\ UNCHANGED <<download, configsById, running, passes, references, resolution>>

Extracted ==
    /\ resolution = "extract" /\ unextracted = {}
    /\ resolution' = "done"
    /\ UNCHANGED <<download, configsById, running, passes, templates, references, scopes, unextracted>>

-----------------------------------------------------------------------------
ResolverInit ==
    /\ download \in Downloads
    /\ configsById \in CollectConfigsById
    /\ running = {}
    /\ passes = [c \in Downloaded |-> {}]
    /\ templates = [c \in Downloaded |-> c.words]
    /\ references = [c \in Downloaded |-> <<>>]
    /\ scopes = [c \in Downloaded |-> [key |-> c.scope, by |-> {}]]
    /\ unextracted = Downloaded
    /\ resolution = "resolve"

Resolved == resolution = "done" /\ UNCHANGED resolverVars

ResolverNext ==
    \/ \E c \in Downloaded : \/ ResolveDependencyReferences(c)
                             \/ \E i \in passes[c] : FindAndReplaceIDs(c, i)
                             \/ ExtractIDsIntoYAML(c)
    \/ ResolveDependencies \/ Extracted \/ Resolved

ResolverSpec == ResolverInit /\ [][ResolverNext]_resolverVars

-----------------------------------------------------------------------------
NamesAreDistinct ==
    \A c, d \in Downloaded : c # d => CreateParameterName(c) # CreateParameterName(d)

StandsAlone(c, i) == c.words[i].before # "letter" /\ (download.inStrings => c.words[i].place = "within string")

\* Right after a match of the same key, which is not another pass's.
Hidden(c, i) ==
    /\ i > 1 /\ c.words[i - 1].joined
    /\ IF c.words[i - 1].text = c.words[i].text THEN ~download.fast
       ELSE <<c.words[i].text, c.words[i - 1].text>> \in download.alike

Referable(c, i) ==
    /\ c.words[i].text \in AllKeys /\ StandsAlone(c, i)
    /\ LET from == configsById[c.words[i].text] IN CanReference(c, from) /\ from.kind # "document"

\* What the word at i of c stands for when the project is deployed.
Meant(c, i) == references[c][templates[c][i].name]

\* A project that was downloaded says what the environment said: a word is
\* replaced by a reference only if it is a key of the configuration meant (or
\* one but for dots), which is another one and found under that name;
\* extracted words are kept as they are; and a word that stands alone and is
\* the key of one that can be referenced does not keep its id, unless it is
\* hidden behind another.  (Names have to be distinct.)
SaysTheSame ==
    resolution = "done" /\ NamesAreDistinct =>
        \A c \in Downloaded :
            /\ \A i \in DOMAIN c.words :
                  LET w == templates[c][i]
                  IN  /\ w.text = c.words[i].text
                      /\ w.as = "reference" =>
                            /\ w.name \in DOMAIN references[c] /\ w.before # "letter"
                            /\ Meant(c, i) # c
                            /\ \E key \in Keys(Meant(c, i)) : Equals(w.text, key)
                      /\ w.as = "extracted" => w.name = w.text
                      /\ Referable(c, i) /\ ~Hidden(c, i) => w.as = "reference"
            /\ scopes[c].by # {} => \E d \in scopes[c].by : d = c \/ scopes[c].key \in Keys(d)
            /\ \A n \in DOMAIN references[c] : \E i \in DOMAIN c.words : templates[c][i].as = "reference" /\ templates[c][i].name = n
=============================================================================
