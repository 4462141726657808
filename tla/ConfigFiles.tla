----------------------------- MODULE ConfigFiles -----------------------------
(***************************************************************************)
(* Writing the configurations of a project to files, and loading them      *)
(* again.  The variants of one configuration in the environments become    *)
(* one entry: what all environments of a group share goes into an override *)
(* of the group, what all groups share into the configuration itself, and  *)
(* the rest into overrides of the environments.  Loading applies them in   *)
(* the reverse order.  Templates become files of their own, named after    *)
(* the ids of the templates.                                               *)
(*                                                                         *)
(* Names, values and contents of templates are model values; a template id *)
(* is what a file name keeps of it, a sequence of pieces so that a number  *)
(* can be appended, and how it is spelled.  A path is a sequence of        *)
(* folders and files.  What may be left out is a set of at most one.       *)
(***************************************************************************)
EXTENDS Integers, Sequences, FiniteSets, Functions, FiniteSetsExt

CONSTANTS WrittenProjects, \* the sets of configurations considered, as sequences
          GroupOf,         \* the group of every environment
          KnownNames,      \* the names every kind of type may have
          Reserved         \* names no parameter may have

VARIABLES variants,   \* the configurations to write, in their order
          todo,       \* coordinates whose entry is still to be made
          clashes,    \* how often the name of a template was asked for again
          numbers,    \* the number each template got for that
          templates,  \* the template files: their contents by path
          entries,    \* the entries by coordinate
          unwritable, \* coordinates that could not be written
          reread,       \* the configurations loaded again
          filesStage

configFilesVars == <<variants, todo, clashes, numbers, templates, entries, unwritable, reread, filesStage>>

Coordinates      == {c.coord : c \in Range(variants)}
VariantsOf(coord) == {i \in DOMAIN variants : variants[i].coord = coord}

\* What a file name keeps of the id of a template.
Sanitize(id) == id[1]

IsName(s) == Len(s) \in Nat /\ s = [k \in 1..Len(s) |-> s[k]]

Optional(x) == x = {} \/ \E v \in x : x = {v}

\* Parameters of each kind, and types, have what their kind has.
IsParameter(p, coord) ==
    \/ p.kind = "reference" /\ p = [kind |-> "reference", property |-> p.property,
                                    to |-> [project |-> p.to.project, type |-> p.to.type, id |-> p.to.id]]
    \/ p.kind = "compound" /\ p = [kind |-> "compound", format |-> p.format,
                                   refs |-> {[to |-> coord, property |-> r.property] : r \in p.refs}]
    \/ p.kind = "file" /\ p = [kind |-> "file", path |-> p.path, refs |-> p.refs]
    \/ p.kind = "value" /\ p = [kind |-> "value", text |-> p.text, value |-> p.value] /\ p.text \in BOOLEAN
    \/ p.kind \in {"environment", "list"}

Plain == {"bucket", "segment", "slo"}

IsType(t) ==
    \/ t.kind \in Plain /\ t = [kind |-> t.kind]
    \/ t.kind = "settings" /\ t = [kind |-> t.kind, name |-> t.name, permission |-> t.permission]
       /\ Optional(t.permission)
    \/ t.kind \in {"classic", "automation", "document", "openpipeline"} /\ t = [kind |-> t.kind, name |-> t.name]

\* The type in the coordinates of its configurations.
TypeName(t) == IF t.kind \in {"classic", "settings", "automation"} THEN t.name ELSE t.kind

\* A configuration has one variant per environment, all of one type.
ASSUME ConfigFilesAssumption ==
    \A p \in WrittenProjects :
        /\ p \in Seq(Range(p))
        /\ \A i, j \in DOMAIN p :
              i # j /\ p[i].coord = p[j].coord => p[i].env # p[j].env /\ p[i].type = p[j].type
        /\ \A c \in Range(p) :
              /\ c.coord = [project |-> c.coord.project, type |-> TypeName(c.type), id |-> c.coord.id]
              /\ IsName(Sanitize(c.template.id))
              /\ c.env \in DOMAIN GroupOf /\ c.skip \in {"yes", "no"} /\ IsType(c.type)
              /\ \A n \in DOMAIN c.params : IsParameter(c.params[n], c.coord)
              /\ \A x \in c.name \cup c.scope \cup c.after : IsParameter(x, c.coord)
              /\ Optional(c.name) /\ Optional(c.scope) /\ Optional(c.after) /\ Optional(c.origin)

-----------------------------------------------------------------------------
\* Parameters and what is written of them.  A text is written as it is, any
\* other value under the name of its type.  A reference leaves out what it
\* shares with the configuration it stands in; a compound names parameters
\* of its own configuration only and cannot be written without any.
Writable(p) == p.kind = "compound" => p.format # "" /\ p.refs # {}

Serialize(p, coord) ==
    CASE p.kind = "reference" ->
           [kind |-> "reference", property |-> p.property,
            project |-> IF p.to.project = coord.project THEN {} ELSE {p.to.project},
            type    |-> IF p.to.project = coord.project /\ p.to.type = coord.type THEN {} ELSE {p.to.type},
            id      |-> IF p.to = coord THEN {} ELSE {p.to.id}]
      [] p.kind = "value" /\ p.text -> [kind |-> "text", value |-> p.value]
      [] p.kind = "compound" -> [kind |-> "compound", format |-> p.format, refs |-> {r.property : r \in p.refs}]
      [] p.kind = "file" -> [kind |-> "file", path |-> p.path, refs |-> {}]
      [] OTHER -> p

\* A reference is refused if it has a project or type and not what is below.
Readable(p) ==
    p.kind = "reference" => /\ p.project # {} => p.type # {} /\ p.id # {}
                            /\ p.type # {} => p.id # {}

Or(x, y) == IF x = {} THEN y ELSE x
ValueOr(x, default) == IF x = {} THEN default ELSE CHOOSE v \in x : TRUE

\* A path that is written as it is is read from the folder it was written to.
Deserialize(p, coord, folder) ==
    CASE p.kind = "reference" ->
           [kind |-> "reference", property |-> p.property,
            to |-> [project |-> ValueOr(p.project, coord.project), type |-> ValueOr(p.type, coord.type),
                    id |-> ValueOr(p.id, coord.id)]]
      [] p.kind = "text" -> [kind |-> "value", text |-> TRUE, value |-> p.value]
      [] p.kind = "compound" -> [kind |-> "compound", format |-> p.format,
                                 refs |-> {[to |-> coord, property |-> r] : r \in p.refs}]
      [] p.kind = "file" -> [p EXCEPT !.path = folder \o @]
      [] OTHER -> p

SerializeAll(params, coord)           == {Serialize(p, coord) : p \in params}
DeserializeAll(params, coord, folder) == {Deserialize(p, coord, folder) : p \in params}

\* The type as written, with scope and insertAfter where it has them: a type
\* without a name of its own is a plain string.  A scope of a classic
\* configuration that cannot be written is left out.
WrittenType(c) ==
    LET t == c.type
        written(params) == SerializeAll(params, c.coord)
    IN  IF t.kind \in Plain THEN [key |-> "plain", name |-> t.kind]
        ELSE IF t.kind = "classic"
        THEN [key |-> "api", name |-> t.name, scope |-> written({p \in c.scope : Writable(p)})]
        ELSE IF t.kind = "settings"
        THEN [key |-> "settings", name |-> t.name, scope |-> written(c.scope), after |-> written(c.after),
              permissions |-> {[all |-> {p}] : p \in t.permission}]
        ELSE [key |-> t.kind, name |-> t.name]

\* Permissions that name none for all users mean that these have none.
ReadType(w) ==
    CASE w.key = "plain"    -> IF w.name \in Plain THEN [kind |-> w.name] ELSE [kind |-> "classic", name |-> w.name]
      [] w.key = "api"      -> [kind |-> "classic", name |-> w.name]
      [] w.key = "settings" ->
           [kind |-> "settings", name |-> w.name,
            permission |-> UNION {IF p.all = {} THEN {"none"} ELSE p.all : p \in w.permissions}]
      [] OTHER -> [kind |-> w.key, name |-> w.name]

ReadScope(w) == IF w.key \in {"api", "settings"} THEN w.scope ELSE {}
ReadAfter(w) == IF w.key = "settings" THEN w.after ELSE {}

\* Names of APIs, resources and kinds have to be known, those of schemas not.
ValidType(t) ==
    CASE t.kind \in Plain -> TRUE
      [] t.kind = "settings" -> t.name # "" /\ t.permission \subseteq KnownNames.permission
      [] t.kind = "openpipeline" -> t.name # ""
      [] OTHER -> t.name \in KnownNames[t.kind]

NeedsName(t) == t.kind = "classic" /\ t.name # "dashboard-share-settings"

\* A classic configuration may refer to ids of classic configurations only.
RefsIn(p) ==
    CASE p.kind = "reference" -> {[to |-> p.to, property |-> p.property]}
      [] p.kind \in {"compound", "file"} -> p.refs
      [] OTHER -> {}

AllowedIn(p, coord) ==
    coord.type \in KnownNames.classic =>
        \A r \in RefsIn(p) : r.property = "id" => r.to.type \in KnownNames.classic

-----------------------------------------------------------------------------
\* The folder, in that of its project, of what has a type: documents of each
\* kind have one of their own.
FolderOf(coord, type) ==
    <<<<coord.project>>, IF type.kind = "document" THEN <<coord.type, type.name>> ELSE <<coord.type>>>>

Folder(i) == FolderOf(variants[i].coord, variants[i].type)

\* The file name of a template, numbered if it was asked for before.
NameOf(i) == Sanitize(variants[i].template.id)
Numbered(name, number) == IF number = 0 THEN name ELSE Append(name, number)

TemplatePath(i, given) == <<Folder(i), Numbered(NameOf(i), given[i])>>

\* A configuration as written, before it is reduced (toConfigDefinition).
Definition(i, given) ==
    LET c == variants[i]
    IN  [name |-> SerializeAll(c.name, c.coord), template |-> {TemplatePath(i, given)}, skip |-> {c.skip},
         origin |-> c.origin, params |-> [n \in DOMAIN c.params |-> Serialize(c.params[n], c.coord)]]

Empty == [name |-> {}, template |-> {}, skip |-> {}, origin |-> {}, params |-> <<>>]

\* What definitions, of environments or of groups, share.
AnyOf(defs) == defs[CHOOSE e \in DOMAIN defs : TRUE]
IsOne(defs) == \E e \in DOMAIN defs : DOMAIN defs = {e}

ShareName(defs)     == \A e \in DOMAIN defs : defs[e].name = AnyOf(defs).name
ShareTemplate(defs) == \A e \in DOMAIN defs : defs[e].template = AnyOf(defs).template
ShareSkip(defs) ==
    \/ \A e \in DOMAIN defs : defs[e].skip = AnyOf(defs).skip
    \/ \A e \in DOMAIN defs : defs[e].skip \in {{}, {"no"}}

SharedParams(defs) ==
    {n \in DOMAIN AnyOf(defs).params :
        \A e \in DOMAIN defs : n \in DOMAIN defs[e].params /\ defs[e].params[n] = AnyOf(defs).params[n]}

NothingShared(defs) ==
    /\ SharedParams(defs) = {}
    /\ ~ShareName(defs) \/ AnyOf(defs).name = {}
    /\ ~ShareTemplate(defs) \/ AnyOf(defs).template = {}
    /\ ~ShareSkip(defs) \/ AnyOf(defs).skip = {}

CommonDefinition(defs) ==
    [name     |-> IF ShareName(defs) THEN AnyOf(defs).name ELSE {},
     template |-> IF ShareTemplate(defs) THEN AnyOf(defs).template ELSE {},
     skip     |-> IF ShareSkip(defs) THEN AnyOf(defs).skip ELSE {},
     origin   |-> {},
     params   |-> Restrict(AnyOf(defs).params, SharedParams(defs))]

\* Fault: what is left of a parameter is lost when the name is shared.
ReducedByName(d, defs) ==
    [Empty EXCEPT !.skip = IF ShareSkip(defs) THEN {} ELSE d.skip,
                  !.params = Restrict(d.params, DOMAIN d.params \ SharedParams(defs))]

\* The rest of one of them; an override that says nothing is left out.
Reduced(d, defs) ==
    [name     |-> IF ShareName(defs) THEN {} ELSE d.name,
     template |-> IF ShareTemplate(defs) THEN {} ELSE d.template,
     skip     |-> IF ShareSkip(defs) THEN {} ELSE d.skip,
     origin   |-> {},
     params   |-> Restrict(d.params, DOMAIN d.params \ SharedParams(defs))]

AllShared(d, defs) ==
    DOMAIN d.params \subseteq SharedParams(defs) /\ ShareName(defs) /\ ShareTemplate(defs) /\ ShareSkip(defs)

\* The common base, if there is one, and what it leaves of the definitions.
Base(defs) ==
    IF IsOne(defs) THEN {AnyOf(defs)}
    ELSE IF DOMAIN defs = {} \/ NothingShared(defs) THEN {} ELSE {CommonDefinition(defs)}

LeftOver(defs) ==
    IF DOMAIN defs = {} \/ IsOne(defs) THEN <<>>
    ELSE IF NothingShared(defs) THEN defs
    ELSE [e \in {e \in DOMAIN defs : ~AllShared(defs[e], defs)} |-> Reduced(defs[e], defs)]

\* The entry of one coordinate.  The type, with the scope, is that of the
\* first variant.
VariantEnvironments(coord) == {variants[i].env : i \in VariantsOf(coord)}
Definitions(coord, given) ==
    [e \in VariantEnvironments(coord) |->
        Definition(CHOOSE i \in VariantsOf(coord) : variants[i].env = e, given)]

OfGroup(coord, g, given) ==
    Restrict(Definitions(coord, given), {e \in VariantEnvironments(coord) : GroupOf[e] = g})

Bases(coord, given) ==
    [g \in {g \in {GroupOf[e] : e \in VariantEnvironments(coord)} : Base(OfGroup(coord, g, given)) # {}} |->
        CHOOSE b \in Base(OfGroup(coord, g, given)) : TRUE]

LeftOverOf(coord, e, given) == LeftOver(OfGroup(coord, GroupOf[e], given))

First(coord) == CHOOSE i \in VariantsOf(coord) : \A j \in VariantsOf(coord) : i <= j

Entry(coord, given) ==
    [type |-> WrittenType(variants[First(coord)]),
     config |-> Base(Bases(coord, given)),
     groups |-> LeftOver(Bases(coord, given)),
     environments |-> [e \in {e \in VariantEnvironments(coord) : e \in DOMAIN LeftOverOf(coord, e, given)} |->
                          LeftOverOf(coord, e, given)[e]]]

-----------------------------------------------------------------------------
ConfigFilesInit ==
    /\ variants \in WrittenProjects
    /\ todo = Coordinates
    /\ clashes = <<>> /\ numbers = <<>>
    /\ templates = <<>> /\ entries = <<>> /\ unwritable = {} /\ reread = {}
    /\ filesStage = "convert"

\* Names are numbered in the order in which they are asked for.
AskedBefore(i) == {j \in VariantsOf(variants[i].coord) : j < i /\ NameOf(j) = NameOf(i)}
KnownTimes(name) == IF name \in DOMAIN clashes THEN clashes[name] + 1 ELSE 0
NumberOf(i)      == KnownTimes(NameOf(i)) + Cardinality(AskedBefore(i))

Counted(coord) ==
    LET asked(name) == {i \in VariantsOf(coord) : NameOf(i) = name}
    IN  [name \in DOMAIN clashes \cup {NameOf(i) : i \in VariantsOf(coord)} |->
            KnownTimes(name) + Cardinality(asked(name)) - 1]

CanWrite(c) == \A p \in Range(c.params) \cup c.name : Writable(p)
CanWriteType(c) == c.type.kind = "settings" => c.scope # {} /\ \A p \in c.scope \cup c.after : Writable(p)

\* One coordinate is converted, in any order; the content of a path that is
\* known already is not kept.
Convert(coord) ==
    /\ filesStage = "convert" /\ coord \in todo
    /\ todo' = todo \ {coord}
    /\ clashes' = Counted(coord)
    /\ numbers' = [i \in DOMAIN numbers \cup VariantsOf(coord) |->
                      IF i \in VariantsOf(coord) THEN NumberOf(i) ELSE numbers[i]]
    /\ IF (\A i \in VariantsOf(coord) : CanWrite(variants[i])) /\ CanWriteType(variants[First(coord)])
       THEN /\ entries' = [x \in DOMAIN entries \cup {coord} |-> IF x = coord THEN Entry(coord, numbers') ELSE entries[x]]
            /\ templates' = [p \in DOMAIN templates \cup {TemplatePath(i, numbers') : i \in VariantsOf(coord)} |->
                  IF p \in DOMAIN templates THEN templates[p]
                  ELSE variants[CHOOSE i \in VariantsOf(coord) :
                           /\ TemplatePath(i, numbers') = p
                           /\ \A j \in VariantsOf(coord) : TemplatePath(j, numbers') = p => i <= j].template.content]
            /\ UNCHANGED unwritable
       ELSE unwritable' = unwritable \cup {coord} /\ UNCHANGED <<entries, templates>>
    /\ UNCHANGED <<variants, reread, filesStage>>

\* Any error keeps the whole project from being written.
WriteConfigs ==
    /\ filesStage = "convert" /\ todo = {}
    /\ filesStage' = IF unwritable = {} THEN "load" ELSE "failed"
    /\ UNCHANGED <<variants, todo, clashes, numbers, templates, entries, unwritable, reread>>

-----------------------------------------------------------------------------
Override(base, o) ==
    [name |-> Or(o.name, base.name), template |-> Or(o.template, base.template), skip |-> Or(o.skip, base.skip),
     origin |-> Or(o.origin, base.origin),
     params |-> [n \in DOMAIN base.params \cup DOMAIN o.params |->
                    IF n \in DOMAIN o.params THEN o.params[n] ELSE base.params[n]]]

Overridden(base, f, x) == IF x \in DOMAIN f THEN Override(base, f[x]) ELSE base

\* The definition an environment sees.
ForEnvironment(entry, env) ==
    LET config == IF entry.config = {} THEN Empty ELSE Override(Empty, CHOOSE d \in entry.config : TRUE)
    IN  Overridden(Overridden(config, entry.groups, GroupOf[env]), entry.environments, env)

\* What is refused: an invalid type, no template, a parameter that cannot be
\* read or refers to what it may not, no name for a classic configuration, a
\* scope that is neither value, reference nor environment variable.
Loadable(coord, entry, d) ==
    LET type == ReadType(entry.type)
    IN  /\ ValidType(type)
        /\ type.kind = "settings" => ReadScope(entry.type) # {}
        /\ d.template # {}
        /\ DOMAIN d.params \cap Reserved = {}
        /\ \A n \in DOMAIN d.params :
               Readable(d.params[n]) /\ AllowedIn(Deserialize(d.params[n], coord, FolderOf(coord, type)), coord)
        /\ \A p \in d.name \cup ReadScope(entry.type) \cup ReadAfter(entry.type) : Readable(p)
        /\ NeedsName(type) => d.name # {}
        /\ \A p \in ReadScope(entry.type) : p.kind \in {"text", "value", "reference", "environment"}

FromDefinition(coord, env, entry, d) ==
    LET folder == FolderOf(coord, ReadType(entry.type))
        from(params) == DeserializeAll(params, coord, folder)
    IN  [coord |-> [coord EXCEPT !.type = TypeName(ReadType(entry.type))], env |-> env,
         type |-> ReadType(entry.type), name |-> from(d.name),
         content |-> templates[CHOOSE p \in d.template : TRUE], skip |-> ValueOr(d.skip, "no"), origin |-> d.origin,
         scope |-> from(ReadScope(entry.type)), after |-> from(ReadAfter(entry.type)),
         params |-> [n \in DOMAIN d.params |-> Deserialize(d.params[n], coord, folder)]]

\* Every entry is loaded for every environment.
LoadConfigs ==
    /\ filesStage = "load"
    /\ LET seen(f) == ForEnvironment(entries[f[1]], f[2])
           found == {f \in Coordinates \X DOMAIN GroupOf : Loadable(f[1], entries[f[1]], seen(f))}
       IN  reread' = {FromDefinition(f[1], f[2], entries[f[1]], seen(f)) : f \in found}
    /\ filesStage' = "loaded"
    /\ UNCHANGED <<variants, todo, clashes, numbers, templates, entries, unwritable>>

ConfigFilesDone == filesStage \in {"failed", "loaded"} /\ UNCHANGED configFilesVars

ConfigFilesNext == (\E coord \in Coordinates : Convert(coord)) \/ WriteConfigs \/ LoadConfigs \/ ConfigFilesDone

ConfigFilesSpec == ConfigFilesInit /\ [][ConfigFilesNext]_configFilesVars

-----------------------------------------------------------------------------
\* Configurations the program would load from files written by hand.  Only
\* settings and classic configurations have a scope.
Acceptable(c) ==
    /\ ValidType(c.type)
    /\ NeedsName(c.type) => c.name # {}
    /\ DOMAIN c.params \cap Reserved = {}
    /\ \A n \in DOMAIN c.params : AllowedIn(c.params[n], c.coord)
    /\ \A p \in c.scope : p.kind \in {"value", "reference", "environment"}
    /\ c.scope # {} => c.type.kind \in {"classic", "settings"}
    /\ c.after # {} => c.type.kind = "settings"

\* What a file refers to is not written with it, and its path is taken from
\* another folder.
Survives(p, folder) == IF p.kind = "file" THEN [p EXCEPT !.path = folder \o @, !.refs = {}] ELSE p
Surviving(params, c) == {Survives(p, FolderOf(c.coord, c.type)) : p \in params}

\* No name is that of another with a number.
NumbersApart == \A i, j \in DOMAIN variants : \A n \in 1..Len(variants) : NameOf(i) # Append(NameOf(j), n)

\* All a configuration had, it still has.
Kept(c, l) ==
    /\ c.name # {} => l.name = Surviving(c.name, c)
    /\ l.skip = c.skip /\ l.type = c.type
    /\ NumbersApart => l.content = c.template.content
    /\ \A n \in DOMAIN c.params : n \in DOMAIN l.params /\ l.params[n] = Survives(c.params[n], FolderOf(c.coord, c.type))

Exact(c, l) ==
    /\ l.name = Surviving(c.name, c) /\ l.origin = c.origin
    /\ l.scope = c.scope /\ l.after = Surviving(c.after, c)
    /\ DOMAIN l.params = DOMAIN c.params

\* What is written is loaded again: every variant keeps its name, skip, its
\* own template and its parameters through all overrides, and one that has a
\* single variant (a download) comes back exactly, but for what a file parameter
\* refers to and where its file is (config_writer.go, config_entry_loader.go).
RoundTrip ==
    filesStage = "loaded" =>
        \A coord \in Coordinates : (\A i \in VariantsOf(coord) : Acceptable(variants[i])) =>
            \A i \in VariantsOf(coord) :
                \E l \in reread : /\ l.coord = coord /\ l.env = variants[i].env
                                /\ Kept(variants[i], l)
                                /\ VariantsOf(coord) = {i} => Exact(variants[i], l)
=============================================================================
