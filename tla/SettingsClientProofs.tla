------------------------ MODULE SettingsClientProofs ------------------------
(***************************************************************************)
(* Proofs about SettingsClient, for any number of goroutines, configura-   *)
(* tions and existing objects, whatever fails: an upsert writes only what  *)
(* its own configuration identifies; and, if no two configurations mean    *)
(* one object, an upsert that succeeded left its own, and none is created  *)
(* next to an existing one.                                                *)
(***************************************************************************)
EXTENDS SettingsClient, TLAPS, FiniteSetTheorems

-----------------------------------------------------------------------------
(* The inductive invariant behind OnlyOwnTouched.                          *)

\* Before the POST.
Pre == {"start", "schema"} \cup Lookups

\* Goroutines fetch lists for a lookup, and look for keys where they count.
PlaceInv ==
    /\ pc \in [Active -> Pre \cup {"post", "update", "create", "permission", "done", "failed"}]
    /\ target = [g \in Active |-> target[g]]
    /\ list = [g \in Active |-> list[g]]
    /\ Active \subseteq Goroutines \ {None}
    /\ \A g, h \in Active : External(config[g]) = External(config[h]) => g = h
    /\ \A g \in Active : list[g] # {} => pc[g] \in Lookups
    /\ \A g \in Active : pc[g] = "keys" => schema.unique

\* Ids and external ids are those of one object, and a created one is the target of
\* the goroutine that created it.
RemoteInv ==
    /\ \A o \in remote :
          /\ o = [id |-> o.id, ext |-> o.ext, keys |-> o.keys, scope |-> o.scope, perm |-> o.perm, by |-> o.by]
          /\ o.id # None
    /\ \A o, p \in remote : o.id = p.id \/ (o.ext = p.ext /\ o.ext # None) => o = p
    /\ \A g \in Active, o \in remote :
          o.id = <<"new", g>> => target[g] = <<"new", g>> /\ pc[g] \notin Pre

\* What others deleted does not return.
DeletedInv ==
    /\ \A o \in remote : o.id \notin deleted
    /\ \A g \in Active : <<"new", g>> \in deleted => target[g] = <<"new", g>> /\ pc[g] \notin Pre

\* What was listed is as some object looked; an object that is named for writing looked
\* at some time as its goroutine needs it, and objects not written yet never changed.
Looked(L) == \A e \in L : Face(e) \in was
Alike(e, o) == e.ext = o.ext /\ e.keys = o.keys /\ e.scope = o.scope

TouchInv ==
    /\ Looked(remote)
    /\ \A L \in cache : Looked(L)
    /\ \A g \in Active : \A L \in list[g] : Looked(L)
    /\ \A g \in Active : target[g] # None => \E q \in was : q.id = target[g] /\ Matches(config[g], q)
    /\ \A o \in remote, q \in was : o.by = None /\ q.id = o.id => q = Face(o)

IInv == PlaceInv /\ RemoteInv /\ DeletedInv /\ TouchInv

-----------------------------------------------------------------------------
(* Configurations that mean different objects.                             *)

\* What configurations of a scenario identify.
Means(s, g, o) ==
    \/ SameLegacy(s.config[g], {o}) # {} \/ SameIds(s.config[g], {o}) # {}
    \/ s.schema.unique /\ SameKeys(s.config[g], {o}) # {}

\* No two configurations identify one object, or have unique keys in common.
\* Projects have names, and origins are ids that were given before.
Apart ==
    \A s \in Scenarios : \A g \in DOMAIN s.config :
        /\ s.config[g].project # ""
        /\ s.config[g].origin \notin New
        /\ \A h \in DOMAIN s.config : g # h =>
              /\ \A o \in s.remote : ~(Means(s, g, o) /\ Means(s, h, o))
              /\ s.schema.unique => s.config[g].scope # s.config[h].scope \/ s.config[g].keys \cap s.config[h].keys = {}

\* An object of a configuration is one it identified from the beginning or created.
Belongs(s, g, id) == id = <<"new", g>> \/ \E p \in s.remote : p.id = id /\ Means(s, g, p)

\* An object is as it was or as the configuration is that it belongs to.
Real(s, o) ==
    \/ o.by = None /\ \E p \in s.remote : p.id = o.id /\ Alike(o, p)
    \/ /\ o.by \in DOMAIN s.config
       /\ o.ext = External(s.config[o.by])
       /\ o.keys = s.config[o.by].keys /\ o.scope = s.config[o.by].scope
       /\ Belongs(s, o.by, o.id)

\* What a configuration has once it was written.
Has(g) ==
    /\ target[g] # None
    /\ \/ target[g] \in deleted
       \/ \E o \in remote :
             /\ o.id = target[g] /\ o.ext = External(config[g]) /\ o.by = g
             /\ pc[g] = "done" => config[g].permission \in {"unset", o.perm}

OwnInv(s) ==
    /\ \A o \in remote : Real(s, o)
    /\ \A L \in cache : \A e \in L : Real(s, e)
    /\ \A g \in Active : \A L \in list[g] : \A e \in L : Real(s, e)
    /\ \A g \in Active : target[g] = None \/ Belongs(s, g, target[g])
    /\ \A g \in Active : pc[g] \in {"permission", "update", "create", "done"} => Has(g)

-----------------------------------------------------------------------------
(* Complete lists.                                                         *)

\* A list has what was there before, each object once, and nothing of a goroutine
\* that has not written yet.
Full(s, L) == \A p \in s.remote : \E e \in L : e.id = p.id
Fresh(L) ==
    /\ \A d, e \in L : d.id = e.id => d = e
    /\ \A g \in Active : pc[g] \in Pre => \A e \in L : e.by # g

FreshInv ==
    /\ \A L \in cache : Fresh(L)
    /\ \A g \in Active : \A L \in list[g] : Fresh(L)
    /\ \A g \in Active : pc[g] \in Pre \/ (pc[g] = "post" /\ target[g] = None) => \A o \in remote : o.by # g

\* What lookups that name no object have excluded.
NoKeys(s, g)   == s.schema.unique => \A p \in s.remote : SameKeys(s.config[g], {p}) = {}
NoLegacy(s, g) == \A p \in s.remote : SameLegacy(s.config[g], {p}) = {}
NoIds(s, g)    == \A p \in s.remote : SameIds(s.config[g], {p}) = {}

\* Lookups that name no object exclude more and more of them.
Excludes(s, g) ==
    /\ pc[g] \in {"legacy", "ids"} => NoKeys(s, g)
    /\ pc[g] = "ids" => NoLegacy(s, g)
    /\ pc[g] = "post" =>
          \/ NoKeys(s, g) /\ NoLegacy(s, g) /\ NoIds(s, g)
          \/ \E p \in s.remote : p.ext = External(s.config[g])

CreatedInv(s) ==
    ~partial /\ deleted = {} =>
        /\ Full(s, remote)
        /\ \A L \in cache : Full(s, L)
        /\ \A g \in Active : \A L \in list[g] : Full(s, L)
        /\ \A g \in Active : target[g] = None => Excludes(s, g)
        /\ \A g \in Active : \A o \in remote : o.id = <<"new", g>> => \A p \in s.remote : ~Means(s, g, p)

\* The scenario of a behaviour.
Of(s) == schema = s.schema /\ config = s.config

-----------------------------------------------------------------------------
(* What steps do.                                                          *)

\* What identifies an object, in the terms of configurations.
LEMMA Identifying ==
  \A c, o :
    /\ SameLegacy(c, {o}) # {} <=> o.ext = Legacy(c)
    /\ SameIds(c, {o}) # {} <=> o.id = c.origin \/ o.ext = External(c)
    /\ SameKeys(c, {o}) # {} <=> o.scope = c.scope /\ o.keys \cap c.keys # {}
BY DEF SameLegacy, SameIds, SameKeys

LEMMA AlikeMatch == \A c, o, q : o.id = q.id /\ Alike(o, q) /\ Matches(c, o) => Matches(c, q)
BY Identifying DEF Matches, Alike

LEMMA AlikeLooks ==
  \A c, o, q : o.id = q.id /\ Alike(o, q) =>
    /\ SameLegacy(c, {o}) # {} <=> SameLegacy(c, {q}) # {}
    /\ SameIds(c, {o}) # {} <=> SameIds(c, {q}) # {}
    /\ SameKeys(c, {o}) # {} <=> SameKeys(c, {q}) # {}
BY Identifying DEF Alike

LEMMA Pairs == \A c, g : External(c) # None /\ None # <<"new", g>>
BY DEF External, None

Unwritten == remote' = remote /\ deleted' = deleted /\ target' = target /\ was' = was

\* A goroutine goes on, or fails, without a list in its hands.
Walks(g) ==
    /\ Unwritten /\ list' = list /\ cache' \in {cache, {}} /\ list[g] = {}
    /\ \E w \in {"schema", "keys", "legacy", "update", "create", "failed"} :
          /\ Goto(g, w)
          /\ w = "schema" => pc[g] = "start"
          /\ w \in {"keys", "legacy"} => pc[g] = "schema"
          /\ w = "keys" <=> schema.unique /\ pc[g] = "schema" /\ w # "failed"
          /\ w \in {"update", "create"} => pc[g] = "permission"

\* It fetches a list, or part of one.
Fetches(g) ==
    /\ Unwritten /\ cache' = cache /\ pc' = pc /\ pc[g] \in Lookups
    /\ \E L \in SUBSET remote : list' = [list EXCEPT ![g] = {L}] /\ (L = remote \/ partial')

\* It looks into the cached list, or into the one it enters.
Looks(g, L) ==
    /\ UNCHANGED <<remote, was, deleted>> /\ pc[g] \in Lookups /\ Use(g, L)
    /\ \/ L \in cache /\ cache' = cache /\ list' = list /\ list[g] = {}
       \/ L \in list[g] /\ cache' = list[g] /\ list' = [list EXCEPT ![g] = {}]

\* It writes its object, or the permission of it.
Posts(g) ==
    /\ pc[g] = "post" /\ Acceptable(g) /\ Write(g)
    /\ deleted' = deleted /\ list' = list /\ cache' \in {cache, {}}
    /\ \E w \in {"post", "permission", "done", "failed"} :
          Goto(g, w) /\ (w = "done" => config[g].permission = "unset")

Permits(g) ==
    /\ pc[g] \in {"permission", "update", "create"} /\ Permit(g, config[g].permission)
    /\ \E w \in {"done", "failed"} : Goto(g, w)
    /\ UNCHANGED <<cache, list, target, was, deleted>>

Deletes(o) ==
    /\ remote' = remote \ {o} /\ deleted' = deleted \cup {o.id}
    /\ UNCHANGED <<cache, pc, list, target, was>>

\* Every step is one of these, and none changes what is given.
LEMMA Moves ==
  ASSUME PlaceInv, [Next]_vars
  PROVE  /\ schema' = schema /\ config' = config /\ (partial => partial')
         /\ \/ UNCHANGED <<remote, cache, pc, list, target, was, deleted>>
            \/ \E g \in Active : Walks(g) \/ Fetches(g) \/ (\E L : Looks(g, L)) \/ Posts(g) \/ Permits(g)
            \/ \E o \in remote : Deletes(o)
<1>1. /\ schema' = schema /\ config' = config /\ (partial => partial')
  BY DEF Next, Work, Failure, Done, Start, GetSchema, ReadCache, Fetch, SetCache, PostOk, PostFails, PostAgain,
         GetPermission, SetPermission, DeletePermission, CallFails, OthersDelete, vars, given
<1>. DEFINE Move(g) == Walks(g) \/ Fetches(g) \/ (\E L : Looks(g, L)) \/ Posts(g) \/ Permits(g)
<1>0. ASSUME NEW g \in Active PROVE list[g] # {} => pc[g] \in {"keys", "legacy", "ids"}
  BY DEF PlaceInv, Lookups
<1>2. ASSUME NEW g \in Active, Start(g) PROVE Move(g)
  BY <1>0, <1>2 DEF Start, Walks, Unwritten, At
<1>3. ASSUME NEW g \in Active, GetSchema(g) PROVE Move(g)
  BY <1>0, <1>3 DEF GetSchema, Walks, Unwritten, At
<1>4. ASSUME NEW g \in Active, ReadCache(g) PROVE Move(g)
  BY <1>4 DEF ReadCache, Looks
<1>5. ASSUME NEW g \in Active, Fetch(g) PROVE Move(g)
  BY <1>5 DEF Fetch, Fetches, Unwritten
<1>6. ASSUME NEW g \in Active, SetCache(g) PROVE Move(g)
  BY <1>6 DEF SetCache, Looks, PlaceInv
<1>7. ASSUME NEW g \in Active, PostOk(g) PROVE Move(g)
  BY <1>7 DEF PostOk, Posts, At
<1>8. ASSUME NEW g \in Active, PostFails(g) PROVE Move(g)
  <2>1. CASE Acceptable(g) /\ Write(g)
    BY <1>8, <2>1 DEF PostFails, Posts, At
  <2>2. CASE UNCHANGED <<remote, target, was>>
    BY <1>0, <1>8, <2>2 DEF PostFails, Walks, Unwritten, At
  <2>. QED
    BY <1>8, <2>1, <2>2 DEF PostFails
<1>9. ASSUME NEW g \in Active, PostAgain(g) PROVE Move(g)
  <2>1. pc' = [pc EXCEPT ![g] = "post"]
    BY <1>9 DEF PostAgain, PlaceInv, At
  <2>. QED
    BY <1>9, <2>1 DEF PostAgain, Posts, At, Goto
<1>10. ASSUME NEW g \in Active, GetPermission(g) PROVE Move(g)
  BY <1>0, <1>10 DEF GetPermission, Walks, Unwritten, At
<1>11. ASSUME NEW g \in Active, SetPermission(g) PROVE Move(g)
  BY <1>11 DEF SetPermission, Permits, At
<1>12. ASSUME NEW g \in Active, DeletePermission(g) PROVE Move(g)
  BY <1>12 DEF DeletePermission, Permits, At
<1>13. ASSUME NEW g \in Active, CallFails(g) PROVE Move(g)
  <2>1. CASE pc[g] \in {"update", "create"} /\ Permit(g, config[g].permission)
    BY <1>13, <2>1 DEF CallFails, Permits, At
  <2>2. CASE (pc[g] \in {"schema", "permission", "update", "create"} \/ list[g] = {}) /\ remote' = remote
    BY <1>0, <1>13, <2>2 DEF CallFails, Walks, Unwritten, At
  <2>. QED
    BY <1>13, <2>1, <2>2 DEF CallFails
<1>14. ASSUME NEW o \in remote, OthersDelete(o) PROVE Deletes(o)
  BY <1>14 DEF OthersDelete, Deletes
<1>. QED
  BY <1>1, <1>2, <1>3, <1>4, <1>5, <1>6, <1>7, <1>8, <1>9, <1>10, <1>11, <1>12, <1>13, <1>14
     DEF Next, Work, Failure, Done, vars

\* A POST creates an object with a new id, or replaces one.
Creates(g) ==
    /\ target[g] = None /\ \A o \in remote : o.ext # External(config[g])
    /\ target' = [target EXCEPT ![g] = <<"new", g>>]
    /\ remote' = remote \cup {Object(<<"new", g>>, config[g], "none", g)}
    /\ \A o \in remote : o.id # <<"new", g>>

Replaces(g, m) ==
    /\ m.id = target[g] \/ (target[g] = None /\ m.ext = External(config[g]))
    /\ target' = [target EXCEPT ![g] = m.id]
    /\ remote' = (remote \ {m}) \cup {Object(m.id, config[g], m.perm, g)}
    /\ \A o \in remote \ {m} : o.id # m.id /\ o.ext # External(config[g])

LEMMA PostMoves ==
  ASSUME PlaceInv, RemoteInv, NEW g \in Active, Posts(g)
  PROVE  Creates(g) \/ \E m \in remote : Replaces(g, m)
<1>0. /\ \A o \in remote : o.id # None
      /\ \A o, p \in remote : o.id = p.id => o = p
      /\ \A o, p \in remote : o.ext = External(config[g]) /\ p.ext = External(config[g]) => o = p
      /\ \A o \in remote : o.id = <<"new", g>> => target[g] = <<"new", g>>
  BY Pairs DEF RemoteInv
<1>1. \A o \in remote \ Meant(g) : o.ext # External(config[g])
  BY DEF Posts, Acceptable
<1>2. CASE Meant(g) = {}
  <2>1. target[g] = None
    BY <1>2 DEF Posts, Acceptable
  <2>2. Written(g) = {<<"new", g>>}
    BY <1>2 DEF Written
  <2>3. /\ remote' = (remote \ Meant(g)) \cup {Object(<<"new", g>>, config[g], perm, g) : perm \in {"none"}}
        /\ target' = [target EXCEPT ![g] = <<"new", g>>]
    BY <1>2, <2>2 DEF Posts, Write
  <2>4. {Object(<<"new", g>>, config[g], perm, g) : perm \in {"none"}} = {Object(<<"new", g>>, config[g], "none", g)}
    OBVIOUS
  <2>. QED
    BY <1>0, <1>1, <1>2, <2>1, <2>3, <2>4, Pairs DEF Creates
<1>3. CASE Meant(g) # {}
  <2>1. PICK m \in Meant(g) : TRUE
    BY <1>3
  <2>2. /\ m \in remote
        /\ m.id = target[g] \/ (target[g] = None /\ m.ext = External(config[g]))
    BY <2>1 DEF Meant
  <2>3. Meant(g) = {m}
    BY <1>0, <2>1 DEF Meant
  <2>4. Written(g) = {m.id}
    BY <2>3 DEF Written, Ids
  <2>5. /\ remote' = (remote \ Meant(g)) \cup {Object(m.id, config[g], perm, g) : perm \in {o.perm : o \in Meant(g)}}
        /\ target' = [target EXCEPT ![g] = m.id]
    BY <1>3, <2>4 DEF Posts, Write
  <2>6. {Object(m.id, config[g], perm, g) : perm \in {o.perm : o \in Meant(g)}} = {Object(m.id, config[g], m.perm, g)}
    BY <2>3
  <2>7. \A o \in remote \ {m} : o.id # m.id /\ o.ext # External(config[g])
    BY <1>0, <1>1, <2>2, <2>3
  <2>8. remote' = (remote \ {m}) \cup {Object(m.id, config[g], m.perm, g)}
    BY <2>3, <2>5, <2>6
  <2>. QED
    BY <2>2, <2>5, <2>7, <2>8 DEF Replaces
<1>. QED
  BY <1>2, <1>3

-----------------------------------------------------------------------------
(* Only objects of the own are touched.                                    *)

\* A lookup names what the goroutine named before, nothing, or what it matches.
LEMMA LooksFor ==
  ASSUME PlaceInv, NEW g \in Active, NEW L, Looks(g, L)
  PROVE  /\ pc'[g] \in {"legacy", "ids", "post", "failed"} /\ pc' = [pc EXCEPT ![g] = pc'[g]]
         /\ target' = [target EXCEPT ![g] = target'[g]]
         /\ \/ target'[g] = target[g]
            \/ target'[g] = None
            \/ \E e \in L : e.id = target'[g] /\ Matches(config[g], e)
<1>1. pc'[g] \in {"legacy", "ids", "post", "failed"} /\ pc' = [pc EXCEPT ![g] = pc'[g]]
  BY DEF PlaceInv, Looks, Use, Goto, After, At
<1>2. CASE target' = target
  BY <1>1, <1>2 DEF PlaceInv
<1>3. CASE \E id \in Lookup(g, L) : target' = [target EXCEPT ![g] = id]
  <2>1. PICK id \in Lookup(g, L) : target' = [target EXCEPT ![g] = id]
    BY <1>3
  <2>2. target'[g] = id
    BY <2>1 DEF PlaceInv
  <2>3. id \in {target[g], None} \/ \E e \in L : e.id = id /\ Matches(config[g], e)
    <3>1. CASE pc[g] = "keys"
      <4>1. id = target[g] \/ id \in Ids(SameKeys(config[g], L))
        BY <2>1, <3>1 DEF Lookup, ByKeys, At
      <4>2. schema.unique
        BY <3>1 DEF PlaceInv
      <4>. QED
        BY <4>1, <4>2 DEF Ids, SameKeys, Matches
    <3>2. CASE pc[g] = "legacy"
      <4>1. id = target[g] \/ id \in Ids(SameLegacy(config[g], L))
        BY <2>1, <3>2 DEF Lookup, ByLegacy, At
      <4>. QED
        BY <4>1 DEF Ids, SameLegacy, Matches
    <3>3. CASE pc[g] = "ids"
      <4>1. id = target[g] \/ id = None \/ id \in Ids(SameIds(config[g], L))
        BY <2>1, <3>3 DEF Lookup, ByIds, At
      <4>. QED
        BY <4>1 DEF Ids, SameIds, Matches
    <3>. QED
      BY <3>1, <3>2, <3>3 DEF Looks, Lookups
  <2>. QED
    BY <1>1, <2>1, <2>2, <2>3
<1>. QED
  BY <1>2, <1>3 DEF Looks, Use

\* Permissions are of the target; everything else of an object stays.
LEMMA PermitsOnly ==
  ASSUME RemoteInv, NEW g \in Active, Permits(g)
  PROVE  /\ \A o \in remote : o.id # target[g] => o \in remote'
         /\ \A o \in remote : o.id = target[g] => [o EXCEPT !.perm = config[g].permission] \in remote'
         /\ \A q \in remote' : \E o \in remote :
               /\ q.id = o.id /\ Alike(o, q) /\ q.by = o.by
               /\ q = [id |-> q.id, ext |-> q.ext, keys |-> q.keys, scope |-> q.scope, perm |-> q.perm, by |-> q.by]
               /\ q.perm = IF o.id = target[g] THEN config[g].permission ELSE o.perm
<1>1. remote' = {IF o.id = target[g] THEN [o EXCEPT !.perm = config[g].permission] ELSE o : o \in remote}
  BY DEF Permits, Permit
<1>2. \A o \in remote : o = [id |-> o.id, ext |-> o.ext, keys |-> o.keys,
                             scope |-> o.scope, perm |-> o.perm, by |-> o.by]
  BY DEF RemoteInv
<1>3. ASSUME NEW q \in remote'
      PROVE  \E o \in remote :
               /\ q.id = o.id /\ Alike(o, q) /\ q.by = o.by
               /\ q = [id |-> q.id, ext |-> q.ext, keys |-> q.keys, scope |-> q.scope, perm |-> q.perm, by |-> q.by]
               /\ q.perm = IF o.id = target[g] THEN config[g].permission ELSE o.perm
  <2>1. PICK o \in remote : q = IF o.id = target[g] THEN [o EXCEPT !.perm = config[g].permission] ELSE o
    BY <1>1
  <2>. QED
    BY <1>2, <2>1 DEF Alike
<1>. QED
  BY <1>1, <1>3

LEMMA ObjectIs ==
  \A id, c, perm, g : LET n == Object(id, c, perm, g)
                      IN  /\ n.id = id /\ n.ext = External(c) /\ n.keys = c.keys /\ n.scope = c.scope
                          /\ n.perm = perm /\ n.by = g
                          /\ n = [id |-> n.id, ext |-> n.ext, keys |-> n.keys,
                                  scope |-> n.scope, perm |-> n.perm, by |-> n.by]
BY DEF Object

LEMMA FirstPlace == Init => PlaceInv
BY SettingsAssumption DEF Init, PlaceInv, Pre, Active

LEMMA FirstRemote == ASSUME Init PROVE RemoteInv
<1>1. PICK s \in Scenarios : config = s.config /\ remote = s.remote
  BY DEF Init
<1>2. \A o \in remote :
        /\ o.id \notin New \cup {None}
        /\ o = [id |-> o.id, ext |-> o.ext, keys |-> o.keys, scope |-> o.scope, perm |-> o.perm, by |-> None]
  BY <1>1, SettingsAssumption
<1>3. \A o \in remote :
        o = [id |-> o.id, ext |-> o.ext, keys |-> o.keys, scope |-> o.scope, perm |-> o.perm, by |-> o.by]
  BY <1>2
<1>4. \A o, p \in remote : o.id = p.id \/ (o.ext = p.ext /\ o.ext # None) => o = p
  BY <1>1, SettingsAssumption
<1>5. \A g \in Active : <<"new", g>> \in New
  BY <1>1, SettingsAssumption DEF New, Active
<1>. QED
  BY <1>2, <1>3, <1>4, <1>5 DEF RemoteInv

\* How objects look, and that it is by this that they are identified.
LEMMA Facing ==
  /\ \A o : Face(o).id = o.id
  /\ \A c, o : Matches(c, Face(o)) <=> Matches(c, o)
  /\ \A o, q : o.id = q.id /\ Alike(o, q) => Face(o) = Face(q)
<1>1. \A o : Face(o).id = o.id /\ Alike(o, Face(o))
  BY DEF Face, Alike
<1>2. \A o : Alike(Face(o), o)
  BY <1>1 DEF Alike
<1>. QED
  BY <1>1, <1>2, AlikeMatch DEF Face, Alike

LEMMA FirstTouch == ASSUME Init PROVE TouchInv
<1>1. Looked(remote) /\ was = Faces
  BY DEF Looked, Init, Faces
<1>2. \A o, p \in remote : o.id = p.id => o = p
  BY FirstRemote DEF RemoteInv
<1>3. \A o \in remote, q \in was : q.id = o.id => q = Face(o)
  BY <1>1, <1>2, Facing DEF Faces
<1>. QED
  BY <1>1, <1>3 DEF Init, TouchInv

LEMMA PlaceStep == ASSUME PlaceInv, [Next]_vars PROVE PlaceInv'
<1>1. Active' = Active /\ schema' = schema /\ config' = config
  BY Moves DEF Active
<1>2. CASE UNCHANGED <<remote, cache, pc, list, target, was, deleted>>
  BY <1>1, <1>2 DEF PlaceInv
<1>3. ASSUME NEW g \in Active, Walks(g) PROVE PlaceInv'
  BY <1>1, <1>3 DEF PlaceInv, Walks, Unwritten, Goto, Pre, Lookups
<1>4. ASSUME NEW g \in Active, Fetches(g) PROVE PlaceInv'
  BY <1>1, <1>4 DEF PlaceInv, Fetches, Unwritten, Goto, Pre, Lookups
<1>5. ASSUME NEW g \in Active, NEW L, Looks(g, L) PROVE PlaceInv'
  <2>1. /\ pc'[g] \in {"legacy", "ids", "post", "failed"} /\ pc' = [pc EXCEPT ![g] = pc'[g]]
        /\ target' = [target EXCEPT ![g] = target'[g]]
    BY <1>5, LooksFor
  <2>2. list'[g] = {} /\ list' = [list EXCEPT ![g] = {}]
    BY <1>5 DEF Looks, PlaceInv
  <2>3. \A h \in Active : (h # g => pc'[h] = pc[h] /\ list'[h] = list[h]) /\ pc'[g] # "keys"
    BY <2>1, <2>2 DEF PlaceInv
  <2>4. /\ \A h \in Active : list'[h] # {} => pc'[h] \in Lookups
        /\ \A h \in Active : pc'[h] = "keys" => schema.unique
    BY <2>2, <2>3 DEF PlaceInv
  <2>5. pc' \in [Active -> Pre \cup {"post", "update", "create", "permission", "done", "failed"}]
    <3>1. pc'[g] \in Pre \cup {"post", "update", "create", "permission", "done", "failed"}
      BY <2>1 DEF Pre, Lookups
    <3>. QED
      BY <2>1, <3>1 DEF PlaceInv
  <2>6. target' = [h \in Active |-> target'[h]]
    BY <2>1 DEF PlaceInv
  <2>7. list' = [h \in Active |-> list'[h]]
    BY <2>2 DEF PlaceInv
  <2>. QED
    BY <1>1, <2>4, <2>5, <2>6, <2>7 DEF PlaceInv
<1>6. ASSUME NEW g \in Active, Posts(g) PROVE PlaceInv'
  <2>1. target' = [target EXCEPT ![g] = target'[g]]
    BY <1>6 DEF Posts, Write, PlaceInv
  <2>2. PICK w \in {"post", "permission", "done", "failed"} : pc' = [pc EXCEPT ![g] = w]
    BY <1>6 DEF Posts, Goto
  <2>3. list' = list /\ pc[g] = "post"
    BY <1>6 DEF Posts
  <2>4. /\ \A h \in Active : list'[h] # {} => pc'[h] \in Lookups
        /\ \A h \in Active : pc'[h] = "keys" => schema.unique
    BY <2>2, <2>3 DEF PlaceInv, Lookups
  <2>5. pc' \in [Active -> Pre \cup {"post", "update", "create", "permission", "done", "failed"}]
    BY <2>2 DEF PlaceInv
  <2>6. target' = [h \in Active |-> target'[h]] /\ list' = [h \in Active |-> list'[h]]
    BY <2>1, <2>3 DEF PlaceInv
  <2>. QED
    BY <1>1, <2>4, <2>5, <2>6 DEF PlaceInv
<1>7. ASSUME NEW g \in Active, Permits(g) PROVE PlaceInv'
  BY <1>1, <1>7 DEF PlaceInv, Permits, Goto, Pre, Lookups
<1>8. ASSUME NEW o \in remote, Deletes(o) PROVE PlaceInv'
  BY <1>1, <1>8 DEF PlaceInv, Deletes
<1>. QED
  BY Moves, <1>2, <1>3, <1>4, <1>5, <1>6, <1>7, <1>8

\* Nobody returns to where the object is looked for.
LEMMA Going ==
  ASSUME PlaceInv, [Next]_vars
  PROVE  \A g \in Active : pc'[g] \in Pre => pc[g] \in Pre
<1>1. CASE pc' = pc
  BY <1>1
<1>2. ASSUME NEW g \in Active, Walks(g) PROVE \A h \in Active : pc'[h] \in Pre => pc[h] \in Pre
  BY <1>2 DEF PlaceInv, Walks, Goto, Pre, Lookups
<1>3. ASSUME NEW g \in Active, NEW L, Looks(g, L) PROVE \A h \in Active : pc'[h] \in Pre => pc[h] \in Pre
  <2>1. pc[g] \in Pre /\ pc' = [pc EXCEPT ![g] = pc'[g]]
    BY <1>3, LooksFor DEF Looks, Pre
  <2>2. \A h \in Active : h # g => pc'[h] = pc[h]
    BY <2>1 DEF PlaceInv
  <2>. QED
    BY <2>1, <2>2
<1>4. ASSUME NEW g \in Active, Posts(g) \/ Permits(g) PROVE \A h \in Active : pc'[h] \in Pre => pc[h] \in Pre
  <2>1. PICK w \in {"post", "permission", "done", "failed"} : pc' = [pc EXCEPT ![g] = w]
    BY <1>4 DEF Posts, Permits, Goto
  <2>. QED
    BY <2>1 DEF PlaceInv, Pre, Lookups
<1>. QED
  BY Moves, <1>1, <1>2, <1>3, <1>4 DEF Fetches, Deletes

LEMMA RemoteStep == ASSUME IInv, [Next]_vars PROVE RemoteInv'
<1>0. Active' = Active /\ schema' = schema /\ config' = config /\ PlaceInv /\ RemoteInv
  BY Moves DEF Active, IInv
<1>. DEFINE Record(o) == /\ o = [id |-> o.id, ext |-> o.ext, keys |-> o.keys,
                                 scope |-> o.scope, perm |-> o.perm, by |-> o.by]
                         /\ o.id # None
            One(o, p) == o.id = p.id \/ (o.ext = p.ext /\ o.ext # None) => o = p
            Mine(g)   == target'[g] = <<"new", g>> /\ pc'[g] \notin Pre
            Goal == /\ \A o \in remote' : Record(o)
                    /\ \A o, p \in remote' : One(o, p)
                    /\ \A g \in Active, o \in remote' : o.id = <<"new", g>> => Mine(g)
<1>1. SUFFICES Goal
  BY <1>0 DEF RemoteInv
<1>2. /\ \A o \in remote : Record(o)
      /\ \A o, p \in remote : One(o, p)
      /\ \A g \in Active, o \in remote : o.id = <<"new", g>> => target[g] = <<"new", g>> /\ pc[g] \notin Pre
  BY <1>0 DEF RemoteInv
<1>3. \A g \in Active : pc[g] \notin Pre => pc'[g] \notin Pre
  BY <1>0, Going
<1>4. CASE remote' \subseteq remote /\ \A g \in Active : pc[g] \notin Pre => target'[g] = target[g]
  BY <1>2, <1>3, <1>4
<1>5. ASSUME NEW g \in Active, NEW L, Looks(g, L) PROVE Goal
  <2>1. pc[g] \in Pre /\ remote' = remote /\ target' = [target EXCEPT ![g] = target'[g]]
    BY <1>0, <1>5, LooksFor DEF Looks, Pre
  <2>2. \A h \in Active : pc[h] \notin Pre => target'[h] = target[h]
    BY <1>0, <2>1 DEF PlaceInv
  <2>. QED
    BY <1>4, <2>1, <2>2
<1>6. ASSUME NEW g \in Active, Posts(g) PROVE Goal
  <2>0. pc[g] = "post" /\ pc[g] \notin Pre
    BY <1>6 DEF Posts, Pre, Lookups
  <2>1. CASE Creates(g)
    <3>. DEFINE n == Object(<<"new", g>>, config[g], "none", g)
    <3>1. /\ Record(n) /\ n.id = <<"new", g>> /\ n.ext = External(config[g])
      BY ObjectIs, Pairs
    <3>2. \A o \in remote : o.id # n.id /\ o.ext # n.ext
      BY <2>1, <3>1 DEF Creates
    <3>3. target'[g] = <<"new", g>> /\ \A h \in Active : h # g => target'[h] = target[h]
      BY <1>0, <2>1 DEF Creates, PlaceInv
    <3>4. remote' = remote \cup {n}
      BY <2>1 DEF Creates
    <3>5. \A h \in Active : h # g => n.id # <<"new", h>>
      BY <3>1
    <3>. HIDE DEF n, Record
    <3>6. \A o, p \in remote' : One(o, p)
      BY <1>2, <3>2, <3>4
    <3>7. \A h \in Active, o \in remote' : o.id = <<"new", h>> => Mine(h)
      BY <1>2, <1>3, <2>0, <3>3, <3>4, <3>5
    <3>. QED
      BY <1>2, <3>1, <3>4, <3>6, <3>7
  <2>2. ASSUME NEW m \in remote, Replaces(g, m) PROVE Goal
    <3>. DEFINE n == Object(m.id, config[g], m.perm, g)
    <3>1. /\ n.id = m.id /\ n.ext = External(config[g])
          /\ n = [id |-> n.id, ext |-> n.ext, keys |-> n.keys, scope |-> n.scope, perm |-> n.perm, by |-> n.by]
      BY ObjectIs
    <3>2. \A o \in remote \ {m} : o.id # n.id /\ o.ext # n.ext
      BY <2>2, <3>1 DEF Replaces
    <3>3. target'[g] = m.id /\ \A h \in Active : h # g => target'[h] = target[h]
      BY <1>0, <2>2 DEF Replaces, PlaceInv
    <3>4. remote' = (remote \ {m}) \cup {n}
      BY <2>2 DEF Replaces
    <3>5. \A o \in remote \ {m} : o.id # <<"new", g>>
      BY <1>0, <1>2, <2>2, <3>1, <3>2, Pairs DEF Replaces
    <3>6. m.id # None
      BY <1>2
    <3>. HIDE DEF n
    <3>7. \A o, p \in remote' : One(o, p)
      BY <1>2, <3>2, <3>4
    <3>8. \A h \in Active, o \in remote' : o.id = <<"new", h>> => Mine(h)
      BY <1>2, <1>3, <2>0, <3>1, <3>3, <3>4, <3>5
    <3>9. \A o \in remote' : Record(o)
      BY <1>2, <3>1, <3>4, <3>6
    <3>. QED
      BY <3>7, <3>8, <3>9
  <2>. QED
    BY <1>0, <1>6, <2>1, <2>2, PostMoves
<1>7. ASSUME NEW g \in Active, Permits(g) PROVE Goal
  <2>1. \A q \in remote' : \E o \in remote :
               /\ q.id = o.id /\ Alike(o, q) /\ q.by = o.by
               /\ q = [id |-> q.id, ext |-> q.ext, keys |-> q.keys, scope |-> q.scope, perm |-> q.perm, by |-> q.by]
               /\ q.perm = IF o.id = target[g] THEN config[g].permission ELSE o.perm
    BY <1>0, <1>7, PermitsOnly
  <2>2. \A q \in remote' : Record(q)
    BY <1>2, <2>1
  <2>3. ASSUME NEW q \in remote', NEW r \in remote', q.id = r.id \/ (q.ext = r.ext /\ q.ext # None) PROVE q = r
    <3>1. PICK o \in remote :
               /\ q.id = o.id /\ Alike(o, q) /\ q.by = o.by
               /\ q = [id |-> q.id, ext |-> q.ext, keys |-> q.keys, scope |-> q.scope, perm |-> q.perm, by |-> q.by]
               /\ q.perm = IF o.id = target[g] THEN config[g].permission ELSE o.perm
      BY <2>1
    <3>2. PICK p \in remote :
               /\ r.id = p.id /\ Alike(p, r) /\ r.by = p.by
               /\ r = [id |-> r.id, ext |-> r.ext, keys |-> r.keys, scope |-> r.scope, perm |-> r.perm, by |-> r.by]
               /\ r.perm = IF p.id = target[g] THEN config[g].permission ELSE p.perm
      BY <2>1
    <3>3. o = p
      BY <1>2, <2>3, <3>1, <3>2 DEF Alike
    <3>4. q.id = r.id /\ q.ext = r.ext /\ q.keys = r.keys /\ q.scope = r.scope /\ q.perm = r.perm /\ q.by = r.by
      BY <3>1, <3>2, <3>3 DEF Alike
    <3>. QED
      BY <3>1, <3>2, <3>4
  <2>4. target' = target
    BY <1>7 DEF Permits
  <2>5. \A h \in Active, o \in remote' : o.id = <<"new", h>> => Mine(h)
    BY <1>2, <1>3, <2>1, <2>4
  <2>. QED
    BY <2>2, <2>3, <2>5
<1>. QED
  BY <1>0, <1>4, <1>5, <1>6, <1>7, Moves DEF Walks, Fetches, Unwritten, Deletes

\* Objects of the environment keep what identifies them, unless an upsert writes them.
LEMMA Rewritten ==
  ASSUME IInv, [Next]_vars, NEW q \in remote'
  PROVE  \/ \E o \in remote : o.id = q.id /\ Alike(o, q) /\ o.by = q.by
         \/ \E g \in Active : /\ Posts(g) /\ q = Object(q.id, config[g], q.perm, g) /\ target'[g] = q.id
                              /\ (target[g] = None /\ q.id = <<"new", g>> /\ \A o \in remote : o.ext # q.ext)
                                 \/ \E o \in remote : o.id = q.id
                                                      /\ (o.id = target[g] \/ (target[g] = None /\ o.ext = q.ext))
<1>1. CASE q \in remote
  BY <1>1 DEF Alike
<1>2. ASSUME NEW g \in Active, Posts(g), q \notin remote
      PROVE  /\ q = Object(q.id, config[g], q.perm, g) /\ target'[g] = q.id
             /\ (target[g] = None /\ q.id = <<"new", g>> /\ \A o \in remote : o.ext # q.ext)
                \/ \E o \in remote : o.id = q.id /\ (o.id = target[g] \/ (target[g] = None /\ o.ext = q.ext))
  <2>1. CASE Creates(g)
    <3>1. q = Object(<<"new", g>>, config[g], "none", g)
      BY <1>2, <2>1 DEF Creates
    <3>2. q = Object(q.id, config[g], q.perm, g) /\ q.id = <<"new", g>> /\ q.ext = External(config[g])
      BY <3>1, ObjectIs
    <3>. QED
      BY <2>1, <3>2 DEF Creates, IInv, PlaceInv
  <2>2. ASSUME NEW m \in remote, Replaces(g, m)
        PROVE  /\ q = Object(q.id, config[g], q.perm, g) /\ target'[g] = q.id
               /\ \E o \in remote : o.id = q.id /\ (o.id = target[g] \/ (target[g] = None /\ o.ext = q.ext))
    <3>1. q = Object(m.id, config[g], m.perm, g)
      BY <1>2, <2>2 DEF Replaces
    <3>2. q = Object(q.id, config[g], q.perm, g) /\ q.id = m.id /\ q.ext = External(config[g])
      BY <3>1, ObjectIs
    <3>3. m.id = target[g] \/ (target[g] = None /\ m.ext = External(config[g]))
      BY <2>2 DEF Replaces
    <3>. QED
      <4>1. target'[g] = m.id
        BY <2>2 DEF Replaces, IInv, PlaceInv
      <4>2. m.id = target[g] \/ (target[g] = None /\ m.ext = q.ext)
        BY <3>2, <3>3
      <4>. QED
        BY <3>2, <4>1, <4>2
  <2>. QED
    BY <1>2, <2>1, <2>2, PostMoves DEF IInv
<1>3. ASSUME NEW g \in Active, Permits(g) PROVE \E o \in remote : o.id = q.id /\ Alike(o, q) /\ o.by = q.by
  BY <1>3, PermitsOnly DEF IInv
<1>4. \/ remote' \subseteq remote
      \/ \E g \in Active : Posts(g) \/ Permits(g)
  BY Moves DEF IInv, Walks, Fetches, Looks, Unwritten, Deletes
<1>. QED
  BY <1>1, <1>2, <1>3, <1>4

\* Lists hold objects of the environment, of now or of earlier.
LEMMA Listed ==
  ASSUME PlaceInv, [Next]_vars
  PROVE  /\ \A L \in cache' : L \in cache \/ \E g \in Active : L \in list[g]
         /\ \A g \in Active : \A L \in list'[g] :
               L \in list[g] \/ (L \subseteq remote /\ remote' = remote /\ deleted' = deleted
                                 /\ (L = remote \/ partial'))
<1>1. CASE UNCHANGED <<remote, cache, pc, list, target, was, deleted>>
  BY <1>1
<1>2. CASE list' = list /\ cache' \subseteq cache
  BY <1>2
<1>3. ASSUME NEW g \in Active, Fetches(g)
      PROVE  cache' = cache /\ \A h \in Active : \A L \in list'[h] :
               L \in list[h] \/ (L \subseteq remote /\ remote' = remote /\ deleted' = deleted
                                 /\ (L = remote \/ partial'))
  BY <1>3 DEF Fetches, Unwritten, PlaceInv
<1>4. ASSUME NEW g \in Active, NEW L, Looks(g, L)
      PROVE  /\ \A M \in cache' : M \in cache \/ M \in list[g]
             /\ \A h \in Active : \A M \in list'[h] : M \in list[h]
  BY <1>4 DEF Looks, PlaceInv
<1>. QED
  BY Moves, <1>1, <1>2, <1>3, <1>4 DEF Walks, Posts, Permits, Deletes

\* A named object stays named after the lookups.
LEMMA Naming ==
  ASSUME IInv, [Next]_vars, NEW g \in Active, pc[g] \notin Pre, target[g] # None
  PROVE  target'[g] = target[g]
<1>1. ASSUME NEW h \in Active, NEW L, Looks(h, L) PROVE target'[g] = target[g]
  <2>1. pc[h] \in Pre /\ target' = [target EXCEPT ![h] = target'[h]]
    BY <1>1, LooksFor DEF Looks, Pre, IInv
  <2>. QED
    BY <2>1 DEF IInv, PlaceInv
<1>2. ASSUME NEW h \in Active, Posts(h) PROVE target'[g] = target[g]
  <2>1. CASE h = g
    <3>1. PICK m \in remote : Replaces(g, m)
      BY <1>2, <2>1, PostMoves DEF IInv, Creates
    <3>. QED
      BY <3>1 DEF Replaces, IInv, PlaceInv
  <2>2. CASE h # g
    BY <1>2, <2>2 DEF Posts, Write, IInv, PlaceInv
  <2>. QED
    BY <2>1, <2>2
<1>. QED
  BY <1>1, <1>2, Moves DEF IInv, Walks, Fetches, Unwritten, Permits, Deletes

LEMMA DeletedStep == ASSUME IInv, [Next]_vars PROVE DeletedInv'
<1>0. Active' = Active /\ config' = config /\ PlaceInv /\ RemoteInv /\ DeletedInv
  BY Moves DEF Active, IInv
<1>1. \A g \in Active : <<"new", g>> \in deleted => target'[g] = <<"new", g>> /\ pc'[g] \notin Pre
  BY <1>0, Naming, Going, Pairs DEF DeletedInv
<1>2. CASE deleted' = deleted
  <2>1. ASSUME NEW q \in remote' PROVE q.id \notin deleted
    BY <1>0, <2>1, Rewritten, Pairs DEF DeletedInv
  <2>. QED
    BY <1>0, <1>1, <1>2, <2>1 DEF DeletedInv
<1>3. ASSUME NEW o \in remote, Deletes(o) PROVE DeletedInv'
  <2>1. \A q \in remote' : q \in remote /\ q # o
    BY <1>3 DEF Deletes
  <2>2. \A q \in remote' : q.id \notin deleted'
    BY <1>0, <1>3, <2>1 DEF Deletes, DeletedInv, RemoteInv
  <2>3. \A g \in Active : o.id = <<"new", g>> => target'[g] = <<"new", g>> /\ pc'[g] \notin Pre
    BY <1>0, <1>3 DEF RemoteInv, Deletes
  <2>. QED
    BY <1>0, <1>1, <1>3, <2>2, <2>3 DEF DeletedInv, Deletes
<1>. QED
  BY <1>0, <1>2, <1>3, Moves DEF Walks, Fetches, Looks, Posts, Permits, Unwritten

\* Only what is new in the environment is new in the history.
LEMMA Remembers ==
  ASSUME PlaceInv, [Next]_vars
  PROVE  was' = was \/ was' = was \cup {Face(o) : o \in remote'}
<1>1. ASSUME NEW g \in Active, Posts(g) PROVE was' = was \cup {Face(o) : o \in remote'}
  BY <1>1 DEF Posts, Write, Faces
<1>. QED
  BY <1>1, Moves DEF Walks, Fetches, Looks, Permits, Deletes, Unwritten

LEMMA TouchStep == ASSUME IInv, [Next]_vars PROVE TouchInv'
<1>0. /\ Active' = Active /\ schema' = schema /\ config' = config
      /\ PlaceInv /\ RemoteInv /\ TouchInv /\ PlaceInv' /\ RemoteInv'
  BY Moves, PlaceStep, RemoteStep DEF Active, IInv
<1>1. was \subseteq was'
  BY <1>0, Remembers
<1>2. ASSUME NEW q \in remote' PROVE Face(q) \in was'
  <2>1. CASE was' = was \cup {Face(o) : o \in remote'}
    BY <2>1
  <2>2. CASE was' = was /\ ~(\E o \in remote : o.id = q.id /\ Alike(o, q))
    <3>1. PICK g \in Active : Posts(g)
      BY <2>2, Rewritten
    <3>. QED
      BY <3>1 DEF Posts, Write, Faces
  <2>3. CASE was' = was /\ \E o \in remote : o.id = q.id /\ Alike(o, q)
    BY <1>0, <2>3, Facing DEF TouchInv, Looked
  <2>. QED
    BY <1>0, <2>1, <2>2, <2>3, Remembers
<1>3. Looked(remote)'
  BY <1>2 DEF Looked
<1>4. \A L \in cache' : \A e \in L : Face(e) \in was'
  BY <1>0, <1>1, Listed DEF TouchInv, Looked
<1>5. \A g \in Active : \A L \in list'[g] : \A e \in L : Face(e) \in was'
  <2>1. \A L \in SUBSET remote : \A e \in L : Face(e) \in was'
    BY <1>0, <1>1 DEF TouchInv, Looked
  <2>. QED
    BY <1>0, <1>1, <2>1, Listed DEF TouchInv, Looked
<1>6. ASSUME NEW g \in Active, target'[g] # None
      PROVE  \E q \in was' : q.id = target'[g] /\ Matches(config[g], q)
  <2>1. CASE target'[g] = target[g]
    BY <1>0, <1>1, <1>6, <2>1 DEF TouchInv
  <2>2. ASSUME NEW h \in Active, NEW L, Looks(h, L), target'[g] # target[g]
        PROVE  \E q \in was' : q.id = target'[g] /\ Matches(config[g], q)
    <3>1. /\ target' = [target EXCEPT ![h] = target'[h]]
          /\ \/ target'[h] = target[h] \/ target'[h] = None
             \/ \E e \in L : e.id = target'[h] /\ Matches(config[h], e)
      BY <1>0, <2>2, LooksFor
    <3>2. h = g
      BY <1>0, <2>2, <3>1 DEF PlaceInv
    <3>3. PICK e \in L : e.id = target'[g] /\ Matches(config[g], e)
      BY <1>6, <2>2, <3>1, <3>2
    <3>4. Face(e) \in was
      BY <1>0, <2>2, <3>2 DEF Looks, TouchInv, Looked
    <3>. QED
      BY <1>1, <3>3, <3>4, Facing
  <2>3. ASSUME NEW h \in Active, Posts(h), target'[g] # target[g]
        PROVE  \E q \in was' : q.id = target'[g] /\ Matches(config[g], q)
    <3>1. h = g
      BY <1>0, <2>3 DEF Posts, Write, PlaceInv
    <3>2. ASSUME NEW n, n \in remote', n.id = target'[g], n.ext = External(config[g])
          PROVE  \E q \in was' : q.id = target'[g] /\ Matches(config[g], q)
      <4>1. Matches(config[g], n)
        BY <3>2, Identifying DEF Matches
      <4>. QED
        BY <1>2, <3>2, <4>1, Facing
    <3>3. CASE Creates(g)
      <4>1. target'[g] = <<"new", g>>
        BY <1>0, <3>3 DEF Creates, PlaceInv
      <4>2. Object(<<"new", g>>, config[g], "none", g) \in remote'
        BY <3>3 DEF Creates
      <4>. QED
        BY <3>2, <4>1, <4>2, ObjectIs
    <3>4. ASSUME NEW m \in remote, Replaces(g, m)
          PROVE  \E q \in was' : q.id = target'[g] /\ Matches(config[g], q)
      <4>1. target'[g] = m.id
        BY <1>0, <3>4 DEF Replaces, PlaceInv
      <4>2. Object(m.id, config[g], m.perm, g) \in remote'
        BY <3>4 DEF Replaces
      <4>. QED
        BY <3>2, <4>1, <4>2, ObjectIs
    <3>. QED
      BY <1>0, <2>3, <3>1, <3>3, <3>4, PostMoves
  <2>. QED
    BY <1>0, <2>1, <2>2, <2>3, Moves DEF Walks, Fetches, Unwritten, Permits, Deletes
<1>7. ASSUME NEW o \in remote', NEW q \in was', o.by = None, q.id = o.id PROVE q = Face(o)
  <2>1. CASE q \in was
    <3>1. PICK p \in remote : p.id = o.id /\ Alike(p, o) /\ p.by = o.by
      <4>1. ASSUME NEW g \in Active, o = Object(o.id, config[g], o.perm, g) PROVE FALSE
        BY <1>0, <1>7, <4>1, ObjectIs DEF PlaceInv
      <4>. QED
        BY <4>1, Rewritten
    <3>. QED
      BY <1>0, <1>7, <2>1, <3>1, Facing DEF TouchInv
  <2>2. CASE \E p \in remote' : q = Face(p)
    BY <1>0, <1>7, <2>2, Facing DEF RemoteInv
  <2>. QED
    BY <1>0, <2>1, <2>2, Remembers
<1>8. (\A g \in Active : target[g] # None => \E q \in was : q.id = target[g] /\ Matches(config[g], q))'
  BY <1>0, <1>6 DEF Matches
<1>. QED
  BY <1>0, <1>3, <1>4, <1>5, <1>7, <1>8 DEF TouchInv, Looked

LEMMA Invariance == Spec => []IInv
<1>1. ASSUME Init PROVE IInv
  <2>1. DeletedInv
    BY <1>1 DEF Init, DeletedInv
  <2>. QED
    BY <1>1, <2>1, FirstPlace, FirstRemote, FirstTouch DEF IInv
<1>2. IInv /\ [Next]_vars => IInv'
  BY PlaceStep, RemoteStep, DeletedStep, TouchStep DEF IInv
<1>. QED
  BY <1>1, <1>2, PTL DEF Spec

\* Types, that a cached list replaces the one before it, that a goroutine holds one
\* list, and that ids are those of one object.
THEOREM TypeCorrect == Spec => []TypeOK
<1>1. ASSUME Init PROVE TypeOK
  BY <1>1, FirstRemote DEF Init, TypeOK, RemoteInv
<1>2. ASSUME IInv, TypeOK, [Next]_vars PROVE TypeOK'
  <2>0. PlaceInv /\ Active' = Active
    BY <1>2, Moves DEF IInv, Active
  <2>1. \A L, M \in cache' : L = M
    BY <1>2, <2>0, Moves DEF TypeOK, Walks, Fetches, Unwritten, Looks, Posts, Permits, Deletes
  <2>2. \A g \in Active : \A L, M \in list'[g] : L = M
    BY <1>2, <2>0, Moves DEF TypeOK, PlaceInv, Walks, Fetches, Unwritten, Looks, Posts, Permits, Deletes
  <2>3. schemas' \in BOOLEAN /\ partial' \in BOOLEAN
    BY <1>2 DEF TypeOK, Next, Work, Failure, Done, Start, GetSchema, ReadCache, Fetch, SetCache, PostOk, PostFails,
                PostAgain, GetPermission, SetPermission, DeletePermission, CallFails, OthersDelete, vars
  <2>4. (\A o, p \in remote : o.id = p.id => o = p)'
    BY <1>2, RemoteStep DEF RemoteInv
  <2>5. (pc \in [Active -> {"start", "schema", "post", "update", "create",
                            "permission", "done", "failed"} \cup Lookups])'
    BY <1>2, <2>0, PlaceStep DEF PlaceInv, Pre
  <2>. QED
    BY <2>0, <2>1, <2>2, <2>3, <2>4, <2>5 DEF TypeOK
<1>. QED
  BY <1>1, <1>2, Invariance, PTL DEF Spec

\* Whatever fails and however old the list an upsert looked into, it writes only what
\* its own configuration identifies, as it is or looked at some time.
THEOREM OnlyOwn == Spec => OnlyOwnTouched
<1>. DEFINE Owned == \A o \in remote \ remote' : deleted' = deleted =>
                        \E g \in Active : Writer(g) /\ IdentifiedBy(g, o)
<1>1. ASSUME IInv, [Next]_vars PROVE Owned
  <2>0. PlaceInv /\ RemoteInv /\ DeletedInv /\ TouchInv
    BY <1>1 DEF IInv
  <2>. SUFFICES ASSUME NEW o \in remote, o \notin remote', deleted' = deleted
                PROVE  \E g \in Active : Writer(g) /\ IdentifiedBy(g, o)
    OBVIOUS
  <2>1. \A g \in Active : o.id = target[g] => IdentifiedBy(g, o)
    <3>1. o.id # None
      BY <2>0 DEF RemoteInv
    <3>. QED
      BY <2>0, <3>1 DEF TouchInv, IdentifiedBy
  <2>2. \A g \in Active : o.ext = External(config[g]) => IdentifiedBy(g, o)
    <3>1. Face(o) \in was /\ Face(o).id = o.id
      BY <2>0, Facing DEF TouchInv, Looked
    <3>2. \A g \in Active : o.ext = External(config[g]) => Matches(config[g], Face(o))
      BY Facing, Identifying DEF Matches
    <3>. QED
      BY <3>1, <3>2 DEF IdentifiedBy
  <2>3. ASSUME NEW g \in Active, Posts(g) PROVE Writer(g) /\ IdentifiedBy(g, o)
    <3>1. PICK m \in remote : Replaces(g, m)
      BY <2>0, <2>3, PostMoves DEF Creates
    <3>2. o = m
      BY <3>1 DEF Replaces
    <3>3. IdentifiedBy(g, o)
      BY <2>1, <2>2, <3>1, <3>2 DEF Replaces
    <3>4. Writer(g)
      <4>. DEFINE n == Object(m.id, config[g], m.perm, g)
      <4>1. n \in remote' /\ n.by = g /\ n.id = m.id
        BY <3>1, ObjectIs DEF Replaces
      <4>2. n \notin remote
        BY <2>0, <3>2, <4>1 DEF RemoteInv
      <4>3. PICK w : pc' = [pc EXCEPT ![g] = w]
        BY <2>3 DEF Posts, Goto
      <4>4. pc'[g] # pc[g] \/ pc' = pc
        BY <2>0, <4>3 DEF PlaceInv
      <4>. HIDE DEF n
      <4>. QED
        BY <4>1, <4>2, <4>4 DEF Writer
    <3>. QED
      BY <3>3, <3>4
  <2>4. ASSUME NEW g \in Active, Permits(g) PROVE Writer(g) /\ IdentifiedBy(g, o)
    <3>1. o.id = target[g]
      BY <2>0, <2>4, PermitsOnly
    <3>2. pc'[g] # pc[g]
      BY <2>0, <2>4 DEF PlaceInv, Permits, Goto
    <3>. QED
      BY <2>1, <3>1, <3>2 DEF Writer
  <2>5. \A p \in remote : ~Deletes(p)
    BY <2>0 DEF Deletes, DeletedInv
  <2>. QED
    BY <1>1, <2>0, <2>3, <2>4, <2>5, Moves DEF Walks, Fetches, Looks, Unwritten
<1>. QED
  BY <1>1, Invariance, PTL DEF Spec, OnlyOwnTouched

-----------------------------------------------------------------------------
(* Objects of one configuration only.                                      *)

LEMMA Meaning ==
  \A s, g, o : Of(s) => (Matches(config[g], o) <=> Means(s, g, o))
BY Identifying DEF Of, Matches, Means

\* What an upsert finds belongs to its configuration, ...
LEMMA Whose ==
  ASSUME Apart, NEW s \in Scenarios, Of(s), NEW g \in Active, NEW o, Real(s, o), Matches(config[g], o)
  PROVE  Belongs(s, g, o.id)
<1>0. DOMAIN s.config = Active /\ Means(s, g, o)
  BY Meaning DEF Of, Active
<1>1. CASE \E p \in s.remote : p.id = o.id /\ Alike(o, p)
  <2>1. PICK p \in s.remote : p.id = o.id /\ Alike(o, p)
    BY <1>1
  <2>2. Means(s, g, p)
    BY <2>1, AlikeMatch, Meaning
  <2>. QED
    BY <2>1, <2>2 DEF Belongs
<1>2. ASSUME NEW h \in Active, h # g,
             o.ext = External(s.config[h]), o.keys = s.config[h].keys, o.scope = s.config[h].scope, Belongs(s, h, o.id)
      PROVE  FALSE
  <2>1. /\ s.config[h].project # "" /\ s.config[g].origin \notin New
        /\ \A p \in s.remote : ~(Means(s, g, p) /\ Means(s, h, p))
        /\ s.schema.unique => s.config[g].scope # s.config[h].scope \/ s.config[g].keys \cap s.config[h].keys = {}
    <3>. g \in DOMAIN s.config /\ h \in DOMAIN s.config /\ g # h
      BY <1>0, <1>2
    <3>1. s.config[h].project # "" /\ s.config[g].origin \notin New
      BY DEF Apart
    <3>2. \A p \in s.remote : ~(Means(s, g, p) /\ Means(s, h, p))
      BY DEF Apart
    <3>3. s.schema.unique => s.config[g].scope # s.config[h].scope \/ s.config[g].keys \cap s.config[h].keys = {}
      BY DEF Apart
    <3>. QED
      BY <3>1, <3>2, <3>3
  <2>2. CASE o.ext = Legacy(s.config[g])
    <3>1. External(s.config[h]) = Legacy(s.config[g])
      BY <1>2, <2>2
    <3>2. \A c, d : External(c) = Legacy(d) => c.project = ""
      BY DEF External, Legacy
    <3>. QED
      BY <2>1, <3>1, <3>2
  <2>3. CASE o.ext = External(s.config[g])
    BY <1>0, <1>2, <2>3, SettingsAssumption
  <2>4. CASE o.id = s.config[g].origin
    <3>1. CASE o.id = <<"new", h>>
      BY <1>0, <1>2, <2>1, <2>4, <3>1, SettingsAssumption DEF New
    <3>2. CASE \E p \in s.remote : p.id = o.id /\ Means(s, h, p)
      <4>1. PICK p \in s.remote : p.id = o.id /\ Means(s, h, p)
        BY <3>2
      <4>2. Means(s, g, p)
        BY <2>4, <4>1, Identifying DEF Means
      <4>. QED
        BY <2>1, <4>1, <4>2
    <3>. QED
      BY <1>2, <3>1, <3>2 DEF Belongs
  <2>5. CASE s.schema.unique /\ o.scope = s.config[g].scope /\ o.keys \cap s.config[g].keys # {}
    BY <1>2, <2>1, <2>5
  <2>. QED
    BY <1>0, <2>2, <2>3, <2>4, <2>5, Identifying DEF Means
<1>. QED
  BY <1>0, <1>1, <1>2 DEF Real

\* ... and to no other.
LEMMA Alone ==
  ASSUME Apart, NEW s \in Scenarios, Of(s), NEW g \in Active, NEW h \in Active, NEW id,
         Belongs(s, g, id), Belongs(s, h, id)
  PROVE  g = h
<1>0. DOMAIN s.config = Active
  BY DEF Of, Active
<1>1. <<"new", g>> \in New /\ <<"new", h>> \in New
  BY <1>0, SettingsAssumption DEF New
<1>2. \A p \in s.remote : p.id \notin New
  BY SettingsAssumption
<1>3. \A p, q \in s.remote : p.id = q.id => p = q
  BY SettingsAssumption
<1>4. \A p \in s.remote : Means(s, g, p) /\ Means(s, h, p) => g = h
  BY <1>0 DEF Apart
<1>. QED
  BY <1>1, <1>2, <1>3, <1>4 DEF Belongs

LEMMA RealIs ==
  ASSUME NEW s, NEW o, NEW q, Real(s, o), o.id = q.id, o.by = q.by, Alike(o, q)
  PROVE  Real(s, q)
BY DEF Real, Alike

LEMMA RealId ==
  ASSUME NEW s \in Scenarios, NEW o, Real(s, o)
  PROVE  o.id # None
<1>1. \A p \in s.remote : p.id # None
  BY SettingsAssumption
<1>. QED
  BY <1>1, Pairs DEF Real, Belongs

\* A POST writes an object of the configuration.
LEMMA Writes ==
  ASSUME Apart, NEW s \in Scenarios, Of(s), IInv, OwnInv(s), NEW g \in Active, Posts(g)
  PROVE  /\ Belongs(s, g, target'[g])
         /\ \A o \in remote : o \in remote' \/ Belongs(s, g, o.id)
         /\ \E q \in remote' : /\ q = Object(target'[g], config[g], q.perm, g)
                               /\ \A o \in remote' : o \in remote \/ o = q
<1>1. CASE Creates(g)
  <2>1. target'[g] = <<"new", g>>
    BY <1>1 DEF Creates, IInv, PlaceInv
  <2>2. /\ remote' = remote \cup {Object(<<"new", g>>, config[g], "none", g)}
        /\ Object(<<"new", g>>, config[g], "none", g).perm = "none"
    BY <1>1, ObjectIs DEF Creates
  <2>. QED
    BY <2>1, <2>2 DEF Belongs
<1>2. ASSUME NEW m \in remote, Replaces(g, m)
      PROVE  /\ Belongs(s, g, target'[g])
             /\ \A o \in remote : o \in remote' \/ Belongs(s, g, o.id)
             /\ \E q \in remote' : /\ q = Object(target'[g], config[g], q.perm, g)
                                   /\ \A o \in remote' : o \in remote \/ o = q
  <2>1. target'[g] = m.id
    BY <1>2 DEF Replaces, IInv, PlaceInv
  <2>2. /\ remote' = (remote \ {m}) \cup {Object(m.id, config[g], m.perm, g)}
        /\ Object(m.id, config[g], m.perm, g).perm = m.perm
    BY <1>2, ObjectIs DEF Replaces
  <2>3. CASE m.id = target[g]
    <3>1. m.id # None
      BY DEF IInv, RemoteInv
    <3>. QED
      BY <2>1, <2>2, <2>3, <3>1 DEF OwnInv
  <2>4. CASE m.ext = External(config[g])
    <3>1. Matches(config[g], m)
      BY <2>4, Identifying DEF Matches
    <3>2. Belongs(s, g, m.id)
      BY <3>1, Whose DEF OwnInv
    <3>. QED
      BY <2>1, <2>2, <3>2
  <2>. QED
    BY <1>2, <2>3, <2>4 DEF Replaces
<1>. QED
  BY <1>1, <1>2, PostMoves DEF IInv

LEMMA RealStep ==
  ASSUME Apart, NEW s \in Scenarios, Of(s), IInv, OwnInv(s), [Next]_vars
  PROVE  /\ \A o \in remote' : Real(s, o)
         /\ \A L \in cache' : \A e \in L : Real(s, e)
         /\ \A g \in Active : \A L \in list'[g] : \A e \in L : Real(s, e)
         /\ \A g \in Active : target'[g] = None \/ Belongs(s, g, target'[g])
<1>0. /\ \A o \in remote : Real(s, o)
      /\ \A L \in cache : \A e \in L : Real(s, e)
      /\ \A g \in Active : \A L \in list[g] : \A e \in L : Real(s, e)
      /\ \A g \in Active : target[g] = None \/ Belongs(s, g, target[g])
  BY DEF OwnInv
<1>1. ASSUME NEW g \in Active, Posts(g) PROVE Belongs(s, g, target'[g])
  BY <1>1, Writes
<1>2. ASSUME NEW q \in remote' PROVE Real(s, q)
  <2>1. CASE \E o \in remote : o.id = q.id /\ Alike(o, q) /\ o.by = q.by
    BY <1>0, <2>1, RealIs
  <2>2. ASSUME NEW g \in Active, Posts(g), q = Object(q.id, config[g], q.perm, g), target'[g] = q.id
        PROVE  Real(s, q)
    <3>1. Belongs(s, g, q.id)
      BY <1>1, <2>2
    <3>2. q.by = g /\ q.ext = External(config[g]) /\ q.keys = config[g].keys /\ q.scope = config[g].scope
      BY <2>2, ObjectIs
    <3>. QED
      BY <3>1, <3>2 DEF Real, Of, Active
  <2>. QED
    BY <2>1, <2>2, Rewritten
<1>3. \A L \in cache' : \A e \in L : Real(s, e)
  BY <1>0, Listed DEF IInv
<1>4. \A g \in Active : \A L \in list'[g] : \A e \in L : Real(s, e)
  BY <1>0, Listed DEF IInv
<1>5. ASSUME NEW g \in Active, NEW L, Looks(g, L) PROVE \A h \in Active : target'[h] = None \/ Belongs(s, h, target'[h])
  <2>1. \A e \in L : Real(s, e)
    BY <1>0, <1>5 DEF Looks
  <2>2. target' = [target EXCEPT ![g] = target'[g]]
    BY <1>5, LooksFor DEF IInv
  <2>3. CASE \E e \in L : e.id = target'[g] /\ Matches(config[g], e)
    <3>1. Belongs(s, g, target'[g])
      BY <2>1, <2>3, Whose
    <3>. QED
      BY <1>0, <2>2, <3>1 DEF IInv, PlaceInv
  <2>4. CASE target'[g] = target[g] \/ target'[g] = None
    BY <1>0, <2>2, <2>4 DEF IInv, PlaceInv
  <2>. QED
    BY <1>5, <2>3, <2>4, LooksFor DEF IInv
<1>6. ASSUME NEW g \in Active, Posts(g) PROVE \A h \in Active : target'[h] = None \/ Belongs(s, h, target'[h])
  BY <1>0, <1>1, <1>6 DEF Posts, Write, IInv, PlaceInv
<1>7. \A h \in Active : target'[h] = None \/ Belongs(s, h, target'[h])
  BY <1>0, <1>5, <1>6, Moves DEF IInv, Walks, Fetches, Unwritten, Permits, Deletes
<1>. QED
  BY <1>2, <1>3, <1>4, <1>7

\* Permissions are of the objects of their configurations.
LEMMA HasStep ==
  ASSUME Apart, NEW s \in Scenarios, Of(s), IInv, OwnInv(s), [Next]_vars,
         NEW h \in Active, pc'[h] \in {"permission", "update", "create", "done"}
  PROVE  Has(h)'
<1>0. config' = config /\ PlaceInv /\ RemoteInv /\ \A g \in Active : target[g] # None => Belongs(s, g, target[g])
  BY Moves DEF IInv, OwnInv
<1>. DEFINE Posted == {"permission", "update", "create", "done"}
            Fine(o) == o.id = target[h] /\ o.ext = External(config[h]) /\ o.by = h
            Set(o)  == pc[h] = "done" => config[h].permission \in {"unset", o.perm}
            Still   == /\ target'[h] # None
                       /\ \/ target'[h] \in deleted'
                          \/ \E o \in remote' :
                                /\ o.id = target'[h] /\ o.ext = External(config[h]) /\ o.by = h
                                /\ pc'[h] = "done" => config[h].permission \in {"unset", o.perm}
<1>1. SUFFICES Still
  BY <1>0 DEF Has
<1>2. pc[h] \in Posted => target[h] # None /\ (target[h] \in deleted \/ \E o \in remote : Fine(o) /\ Set(o))
  BY DEF OwnInv, Has
<1>3. CASE UNCHANGED <<remote, cache, pc, list, target, was, deleted>>
  BY <1>2, <1>3
<1>4. ASSUME NEW g \in Active, Walks(g) PROVE Still
  <2>1. PICK w \in {"schema", "keys", "legacy", "update", "create", "failed"} :
            pc' = [pc EXCEPT ![g] = w] /\ (w \in {"update", "create"} => pc[g] = "permission")
    BY <1>4 DEF Walks, Goto
  <2>2. pc[h] \in Posted /\ (pc'[h] = "done" => pc[h] = "done")
    BY <1>0, <2>1 DEF PlaceInv
  <2>. QED
    BY <1>2, <1>4, <2>2 DEF Walks, Unwritten
<1>5. ASSUME NEW g \in Active, Fetches(g) PROVE Still
  BY <1>2, <1>5 DEF Fetches, Unwritten
<1>6. ASSUME NEW g \in Active, NEW L, Looks(g, L) PROVE Still
  <2>1. /\ pc'[g] \in {"legacy", "ids", "post", "failed"} /\ pc' = [pc EXCEPT ![g] = pc'[g]]
        /\ target' = [target EXCEPT ![g] = target'[g]]
    BY <1>0, <1>6, LooksFor
  <2>2. h # g /\ pc'[h] = pc[h] /\ target'[h] = target[h]
    BY <1>0, <2>1 DEF PlaceInv
  <2>. QED
    BY <1>2, <1>6, <2>2 DEF Looks
<1>7. ASSUME NEW g \in Active, Posts(g) PROVE Still
  <2>0. PICK w \in {"post", "permission", "done", "failed"} :
            pc' = [pc EXCEPT ![g] = w] /\ (w = "done" => config[g].permission = "unset")
    BY <1>7 DEF Posts, Goto
  <2>1. CASE h = g
    <3>1. PICK q \in remote' : q = Object(target'[g], config[g], q.perm, g)
      BY <1>7, Writes
    <3>2. q.id = target'[g] /\ q.ext = External(config[g]) /\ q.by = g
      BY <3>1, ObjectIs
    <3>3. target'[g] # None
      BY <1>7, <3>2, RemoteStep DEF RemoteInv
    <3>4. pc'[g] = "done" => config[g].permission = "unset"
      BY <1>0, <2>0 DEF PlaceInv
    <3>. QED
      BY <2>1, <3>2, <3>3, <3>4
  <2>2. CASE h # g
    <3>1. pc'[h] = pc[h] /\ target'[h] = target[h]
      BY <1>0, <1>7, <2>0, <2>2 DEF PlaceInv, Posts, Write
    <3>2. target[h] # None /\ Belongs(s, h, target[h])
      BY <1>0, <1>2, <3>1
    <3>3. ASSUME NEW o \in remote, Fine(o) PROVE o \in remote'
      BY <1>7, <2>2, <3>2, <3>3, Writes, Alone
    <3>. QED
      BY <1>2, <1>7, <3>1, <3>3 DEF Posts
  <2>. QED
    BY <2>1, <2>2
<1>8. ASSUME NEW g \in Active, Permits(g) PROVE Still
  <2>0. PICK w \in {"done", "failed"} : pc' = [pc EXCEPT ![g] = w]
    BY <1>8 DEF Permits, Goto
  <2>1. pc[g] \in Posted /\ target' = target /\ deleted' = deleted
    BY <1>8 DEF Permits
  <2>2. pc[h] \in Posted
    BY <1>0, <2>0, <2>1 DEF PlaceInv
  <2>3. CASE target[h] \in deleted
    BY <1>2, <2>1, <2>2, <2>3
  <2>4. ASSUME NEW o \in remote, Fine(o), Set(o) PROVE Still
    <3>1. target[h] # None /\ Belongs(s, h, target[h])
      BY <1>0, <1>2, <2>2
    <3>2. CASE h = g
      <4>1. [o EXCEPT !.perm = config[g].permission] \in remote'
        BY <1>0, <1>8, <2>4, <3>2, PermitsOnly
      <4>2. o = [id |-> o.id, ext |-> o.ext, keys |-> o.keys, scope |-> o.scope, perm |-> o.perm, by |-> o.by]
        BY <1>0 DEF RemoteInv
      <4>. DEFINE q == [o EXCEPT !.perm = config[g].permission]
      <4>3. q.id = o.id /\ q.ext = o.ext /\ q.by = o.by /\ q.perm = config[g].permission
        BY <4>2
      <4>. HIDE DEF q
      <4>4. q \in remote'
        BY <4>1 DEF q
      <4>. QED
        BY <2>1, <2>4, <3>1, <3>2, <4>3, <4>4
    <3>3. CASE h # g
      <4>1. target[g] # None => Belongs(s, g, target[g])
        BY <1>0
      <4>2. o.id # target[g]
        BY <2>4, <3>1, <3>3, <4>1, Alone
      <4>3. o \in remote'
        BY <1>0, <1>8, <4>2, PermitsOnly
      <4>4. pc'[h] = pc[h]
        BY <1>0, <2>0, <3>3 DEF PlaceInv
      <4>. QED
        BY <2>1, <2>4, <3>1, <4>3, <4>4
    <3>. QED
      BY <3>2, <3>3
  <2>. QED
    BY <1>2, <2>2, <2>3, <2>4
<1>9. ASSUME NEW p \in remote, Deletes(p) PROVE Still
  BY <1>2, <1>9 DEF Deletes
<1>. QED
  BY <1>0, <1>3, <1>4, <1>5, <1>6, <1>7, <1>8, <1>9, Moves

LEMMA OwnStep ==
  ASSUME Apart, NEW s \in Scenarios, Of(s), IInv, OwnInv(s), [Next]_vars
  PROVE  Of(s)' /\ OwnInv(s)'
<1>1. schema' = schema /\ config' = config /\ Active' = Active
  BY Moves DEF IInv, Active
<1>2. \A g \in Active : pc'[g] \in {"permission", "update", "create", "done"} => Has(g)'
  BY HasStep
<1>. QED
  BY <1>1, <1>2, RealStep DEF Of, OwnInv

LEMMA FirstOwn == ASSUME Init PROVE \E s \in Scenarios : Of(s) /\ remote = s.remote /\ OwnInv(s)
<1>1. PICK s \in Scenarios : schema = s.schema /\ config = s.config /\ remote = s.remote
  BY DEF Init
<1>2. \A o \in remote : o.by = None
  <2>1. \A o \in remote : o = [id |-> o.id, ext |-> o.ext, keys |-> o.keys,
                               scope |-> o.scope, perm |-> o.perm, by |-> None]
    BY <1>1, SettingsAssumption
  <2>. QED
    BY <2>1
<1>3. \A o \in remote : Real(s, o)
  BY <1>1, <1>2 DEF Real, Alike
<1>. QED
  BY <1>1, <1>3 DEF Init, Of, OwnInv

LEMMA Owning ==
  ASSUME Apart
  PROVE  Spec => [](IInv /\ \E s \in Scenarios : Of(s) /\ OwnInv(s))
<1>1. Init => \E s \in Scenarios : Of(s) /\ OwnInv(s)
  BY FirstOwn
<1>2. IInv /\ (\E s \in Scenarios : Of(s) /\ OwnInv(s)) /\ [Next]_vars => (\E s \in Scenarios : Of(s) /\ OwnInv(s))'
  BY OwnStep
<1>. QED
  BY <1>1, <1>2, Invariance, PTL DEF Spec

\* Where no two configurations mean one object, what was deployed is kept, whatever
\* other upserts and failed calls do.
THEOREM OwnStays == Apart => (Spec => [](OwnObjectKept /\ \A g \in Active : At(g, "done") => Kept(g)))
<1>. SUFFICES ASSUME Apart
              PROVE  Spec => [](OwnObjectKept /\ \A g \in Active : At(g, "done") => Kept(g))
  OBVIOUS
<1>1. (\E s \in Scenarios : Of(s) /\ OwnInv(s)) =>
        OwnObjectKept /\ \A g \in Active : At(g, "done") => Kept(g)
  BY DEF OwnInv, Has, OwnObjectKept, Kept, At
<1>. QED
  BY <1>1, Owning, PTL

-----------------------------------------------------------------------------
(* Nothing is created next to an existing object.                          *)

\* Without a name there is nothing of the goroutine.
Nameless(g) == pc[g] \in Pre \/ (pc[g] = "post" /\ target[g] = None)

LEMMA NamelessBefore ==
  ASSUME IInv, [Next]_vars, NEW g \in Active, Nameless(g)'
  PROVE  Nameless(g) /\ ~Posts(g)
<1>0. PlaceInv /\ (pc'[g] \in Pre \/ (pc'[g] = "post" /\ target'[g] = None))
  BY DEF IInv, Nameless
<1>1. ASSUME Posts(g) PROVE FALSE
  <2>1. pc[g] = "post" /\ pc[g] \notin Pre
    BY <1>1 DEF Posts, Pre, Lookups
  <2>2. target'[g] = None
    BY <1>0, <2>1, Going
  <2>3. Creates(g) \/ \E m \in remote : Replaces(g, m)
    BY <1>1, PostMoves DEF IInv
  <2>4. \A m \in remote : m.id # None
    BY DEF IInv, RemoteInv
  <2>. QED
    BY <1>0, <2>2, <2>3, <2>4, Pairs DEF Creates, Replaces, PlaceInv
<1>2. CASE pc'[g] \in Pre
  BY <1>0, <1>1, <1>2, Going DEF Nameless
<1>3. CASE pc'[g] = pc[g] /\ target'[g] = target[g]
  BY <1>0, <1>1, <1>3 DEF Nameless
<1>4. ASSUME pc'[g] = "post", target'[g] = None PROVE Nameless(g)
  <2>1. ASSUME NEW h \in Active, Walks(h) PROVE pc'[g] = pc[g] /\ target'[g] = target[g]
    BY <1>0, <1>4, <2>1 DEF Walks, Unwritten, Goto, PlaceInv
  <2>2. ASSUME NEW h \in Active, NEW L, Looks(h, L) PROVE Nameless(g)
    <3>1. pc' = [pc EXCEPT ![h] = pc'[h]] /\ target' = [target EXCEPT ![h] = target'[h]] /\ pc[h] \in Pre
      BY <1>0, <2>2, LooksFor DEF Looks, Pre
    <3>2. CASE h = g
      BY <3>1, <3>2 DEF Nameless
    <3>3. CASE h # g
      BY <1>0, <1>3, <1>1, <3>1, <3>3 DEF PlaceInv
    <3>. QED
      BY <3>2, <3>3
  <2>3. ASSUME NEW h \in Active, Posts(h) PROVE pc'[g] = pc[g] /\ target'[g] = target[g]
    <3>1. h # g
      BY <1>1, <2>3
    <3>2. target'[g] = target[g]
      BY <1>0, <2>3, <3>1 DEF Posts, Write, PlaceInv
    <3>3. pc'[g] = pc[g]
      BY <1>0, <2>3, <3>1 DEF Posts, Goto, PlaceInv
    <3>. QED
      BY <3>2, <3>3
  <2>4. ASSUME NEW h \in Active, Permits(h) PROVE pc'[g] = pc[g] /\ target'[g] = target[g]
    BY <1>0, <1>4, <2>4 DEF Permits, Goto, PlaceInv
  <2>. QED
    BY <1>0, <1>1, <1>3, <2>1, <2>2, <2>3, <2>4, Moves DEF Fetches, Unwritten, Deletes
<1>. QED
  BY <1>0, <1>1, <1>2, <1>4

LEMMA FreshStep == ASSUME IInv, FreshInv, [Next]_vars PROVE FreshInv'
<1>0. Active' = Active /\ PlaceInv /\ RemoteInv
  BY Moves DEF Active, IInv
<1>1. \A g \in Active : pc'[g] \in Pre => pc[g] \in Pre
  BY <1>0, Going
<1>2. \A L : Fresh(L) => Fresh(L)'
  BY <1>0, <1>1 DEF Fresh
<1>3. \A L : L \subseteq remote => Fresh(L)
  BY <1>0 DEF Fresh, FreshInv, RemoteInv
<1>4. \A L \in cache' : Fresh(L)'
  BY <1>0, <1>2, Listed DEF FreshInv
<1>5. \A g \in Active : \A L \in list'[g] : Fresh(L)'
  BY <1>0, <1>2, <1>3, Listed DEF FreshInv
<1>6. ASSUME NEW g \in Active, Nameless(g)', NEW q \in remote' PROVE q.by # g
  <2>1. Nameless(g) /\ ~Posts(g)
    BY <1>6, NamelessBefore
  <2>2. \A o \in remote : o.by # g
    BY <2>1 DEF Nameless, FreshInv
  <2>. QED
    BY <2>1, <2>2, Rewritten, ObjectIs
<1>. QED
  BY <1>0, <1>4, <1>5, <1>6 DEF FreshInv, Nameless

LEMMA FirstFresh == ASSUME Init PROVE FreshInv
<1>1. PICK s \in Scenarios : config = s.config /\ remote = s.remote
  BY DEF Init
<1>2. \A o \in remote : o.by = None
  <2>1. \A o \in remote : o = [id |-> o.id, ext |-> o.ext, keys |-> o.keys,
                               scope |-> o.scope, perm |-> o.perm, by |-> None]
    BY <1>1, SettingsAssumption
  <2>. QED
    BY <2>1
<1>3. \A g \in Active : g # None
  BY <1>1, SettingsAssumption DEF Active
<1>4. \A o, p \in remote : o.id = p.id => o = p
  BY <1>1, SettingsAssumption
<1>5. Fresh(remote)
  BY <1>2, <1>3, <1>4 DEF Fresh
<1>. QED
  BY <1>2, <1>3, <1>5 DEF Init, FreshInv

\* What was there before is in a full list as it was, or is of another configuration.
LEMMA Excluded ==
  ASSUME Apart, NEW s \in Scenarios, Of(s), NEW g \in Active, NEW L, Full(s, L),
         \A e \in L : Real(s, e) /\ e.by # g, NEW p \in s.remote, Means(s, g, p)
  PROVE  \E e \in L : e.id = p.id /\ Alike(e, p)
<1>1. PICK e \in L : e.id = p.id
  BY DEF Full
<1>2. \A q \in s.remote : q.id = p.id => q = p
  BY SettingsAssumption
<1>3. ASSUME e.by \in Active, Belongs(s, e.by, e.id) PROVE FALSE
  <2>1. Belongs(s, g, e.id)
    BY <1>1 DEF Belongs
  <2>2. e.by = g
    BY <1>3, <2>1, Alone
  <2>. QED
    BY <2>2
<1>. QED
  BY <1>1, <1>2, <1>3 DEF Real, Of, Active

\* Two objects with the ids of a configuration: one has its external id.
LEMMA TwoIds ==
  ASSUME NEW c, NEW L, \A d, e \in L : d.id = e.id => d = e,
         SameIds(c, L) # {}, Cardinality(SameIds(c, L)) # 1
  PROVE  \E e \in L : e.ext = External(c)
<1>1. PICK d \in SameIds(c, L) : TRUE
  OBVIOUS
<1>2. SameIds(c, L) # {d}
  BY FS_Singleton
<1>3. PICK e \in SameIds(c, L) : e # d
  BY <1>1, <1>2
<1>. QED
  BY <1>1, <1>3 DEF SameIds

LEMMA LooksExclude ==
  ASSUME Apart, NEW s \in Scenarios, Of(s), IInv, FreshInv, OwnInv(s),
         NEW g \in Active, NEW L, Looks(g, L), Full(s, L), target'[g] = None,
         target[g] = None => Excludes(s, g)
  PROVE  /\ pc'[g] \in {"legacy", "ids"} => NoKeys(s, g)
         /\ pc'[g] = "ids" => NoLegacy(s, g)
         /\ pc'[g] = "post" =>
               \/ NoKeys(s, g) /\ NoLegacy(s, g) /\ NoIds(s, g)
               \/ \E p \in s.remote : p.ext = External(s.config[g])
<1>0. PlaceInv /\ schema = s.schema /\ config = s.config /\ pc[g] \in Lookups
  BY DEF IInv, Of, Looks
<1>1. /\ \A e \in L : Real(s, e) /\ e.by # g
      /\ \A d, e \in L : d.id = e.id => d = e
  BY <1>0 DEF Looks, OwnInv, FreshInv, Fresh, Pre
<1>2. \A e \in L : e.id # None
  BY <1>1, RealId
<1>3. \A p \in s.remote : Means(s, g, p) => \E e \in L : e.id = p.id /\ Alike(e, p)
  BY <1>1, Excluded
<1>4. pc'[g] = "failed" \/ (pc'[g] = After(g) /\ \E id \in Lookup(g, L) : target'[g] = id)
  BY <1>0 DEF Looks, Use, Goto, PlaceInv
<1>5. CASE pc'[g] = "failed"
  BY <1>5
<1>6. CASE pc[g] = "keys" /\ pc'[g] = After(g) /\ None \in Lookup(g, L)
  <2>1. SameKeys(config[g], L) = {}
    <3>1. None \in ByKeys(g, L)
      BY <1>6 DEF Lookup, At
    <3>2. None \notin Ids(SameKeys(config[g], L))
      BY <1>2 DEF Ids, SameKeys
    <3>. QED
      BY <3>1, <3>2 DEF ByKeys
  <2>2. NoKeys(s, g)
    <3>1. ASSUME NEW p \in s.remote, SameKeys(s.config[g], {p}) # {}, s.schema.unique PROVE FALSE
      <4>1. PICK e \in L : e.id = p.id /\ Alike(e, p)
        BY <1>3, <3>1 DEF Means
      <4>2. SameKeys(config[g], {e}) # {}
        BY <1>0, <3>1, <4>1, AlikeLooks
      <4>. QED
        BY <2>1, <4>2 DEF SameKeys
    <3>. QED
      BY <3>1 DEF NoKeys
  <2>3. pc'[g] = "legacy"
    BY <1>6 DEF After, At
  <2>. QED
    BY <2>2, <2>3
<1>7. CASE pc[g] = "legacy" /\ pc'[g] = After(g) /\ None \in Lookup(g, L)
  <2>1. SameLegacy(config[g], L) = {} /\ target[g] = None
    <3>1. None \in ByLegacy(g, L)
      BY <1>7 DEF Lookup, At
    <3>2. None \notin Ids(SameLegacy(config[g], L))
      BY <1>2 DEF Ids, SameLegacy
    <3>. QED
      BY <3>1, <3>2 DEF ByLegacy
  <2>2. NoLegacy(s, g)
    <3>1. ASSUME NEW p \in s.remote, SameLegacy(s.config[g], {p}) # {} PROVE FALSE
      <4>1. PICK e \in L : e.id = p.id /\ Alike(e, p)
        BY <1>3, <3>1 DEF Means
      <4>2. SameLegacy(config[g], {e}) # {}
        BY <1>0, <3>1, <4>1, AlikeLooks
      <4>. QED
        BY <2>1, <4>2 DEF SameLegacy
    <3>. QED
      BY <3>1 DEF NoLegacy
  <2>3. pc'[g] = "ids"
    BY <1>7 DEF After, At
  <2>. QED
    BY <1>7, <2>1, <2>2, <2>3 DEF Excludes
<1>8. CASE pc[g] = "ids" /\ pc'[g] = After(g) /\ None \in Lookup(g, L)
  <2>0. pc'[g] \in {"failed", "post"}
    BY <1>8 DEF After, At
  <2>1. None \in ByIds(g, L)
    BY <1>8 DEF Lookup, At
  <2>2. CASE SameIds(config[g], L) = {}
    <3>1. target[g] = None
      <4>1. ByIds(g, L) = {target[g]}
        BY <2>2, FS_EmptySet DEF ByIds
      <4>. QED
        BY <2>1, <4>1
    <3>2. NoIds(s, g)
      <4>1. ASSUME NEW p \in s.remote, SameIds(s.config[g], {p}) # {} PROVE FALSE
        <5>1. PICK e \in L : e.id = p.id /\ Alike(e, p)
          BY <1>3, <4>1 DEF Means
        <5>2. SameIds(config[g], {e}) # {}
          BY <1>0, <4>1, <5>1, AlikeLooks
        <5>. QED
          BY <2>2, <5>2 DEF SameIds
      <4>. QED
        BY <4>1 DEF NoIds
    <3>. QED
      BY <1>8, <2>0, <3>1, <3>2 DEF Excludes
  <2>3. CASE SameIds(config[g], L) # {} /\ Cardinality(SameIds(config[g], L)) # 1
    <3>1. PICK e \in L : e.ext = External(config[g])
      BY <1>1, <2>3, TwoIds
    <3>2. CASE e.by \in Active /\ e.ext = External(config[e.by])
      BY <1>0, <1>1, <3>1, <3>2 DEF PlaceInv
    <3>3. CASE \E p \in s.remote : p.id = e.id /\ Alike(e, p)
      BY <1>0, <2>0, <3>1, <3>3 DEF Alike
    <3>. QED
      BY <1>0, <1>1, <3>2, <3>3 DEF Real, Active
  <2>4. CASE SameIds(config[g], L) # {} /\ Cardinality(SameIds(config[g], L)) = 1
    <3>1. None \notin Ids(SameIds(config[g], L))
      BY <1>2 DEF Ids, SameIds
    <3>. QED
      BY <2>1, <2>4, <3>1 DEF ByIds
  <2>. QED
    BY <2>2, <2>3, <2>4
<1>. QED
  BY <1>0, <1>4, <1>5, <1>6, <1>7, <1>8 DEF Lookups

LEMMA CreatedStep ==
  ASSUME Apart, NEW s \in Scenarios, Of(s), IInv, FreshInv, OwnInv(s), CreatedInv(s), [Next]_vars
  PROVE  CreatedInv(s)'
<1>0. /\ Active' = Active /\ schema = s.schema /\ config = s.config
      /\ (partial => partial') /\ PlaceInv /\ RemoteInv
  BY Moves DEF IInv, Active, Of
<1>1. deleted' = deleted \/ deleted' # {}
  BY <1>0, Moves DEF Walks, Fetches, Looks, Posts, Permits, Deletes, Unwritten
<1>. SUFFICES ASSUME ~partial', deleted' = {}
              PROVE  /\ Full(s, remote')
                     /\ \A L \in cache' : Full(s, L)
                     /\ \A g \in Active : \A L \in list'[g] : Full(s, L)
                     /\ \A g \in Active : target'[g] = None => Excludes(s, g)'
                     /\ \A g \in Active : \A o \in remote' : o.id = <<"new", g>> => \A p \in s.remote : ~Means(s, g, p)
  BY <1>0 DEF CreatedInv, Full
<1>2. /\ deleted' = deleted /\ ~partial
      /\ Full(s, remote)
      /\ \A L \in cache : Full(s, L)
      /\ \A g \in Active : \A L \in list[g] : Full(s, L)
      /\ \A g \in Active : target[g] = None => Excludes(s, g)
      /\ \A g \in Active : \A o \in remote : o.id = <<"new", g>> => \A p \in s.remote : ~Means(s, g, p)
  <2>1. deleted = {} /\ deleted' = deleted /\ ~partial
    BY <1>0, <1>1, Moves DEF Walks, Fetches, Looks, Posts, Permits, Deletes, Unwritten
  <2>. QED
    BY <2>1 DEF CreatedInv
<1>3. \A o \in remote : o.id \notin deleted'
  BY <1>2 DEF IInv, DeletedInv
<1>4. Full(s, remote')
  <2>1. ASSUME NEW g \in Active, Posts(g), NEW o \in remote PROVE \E q \in remote' : q.id = o.id
    <3>1. CASE Creates(g)
      BY <3>1 DEF Creates
    <3>2. ASSUME NEW m \in remote, Replaces(g, m) PROVE \E q \in remote' : q.id = o.id
      <4>1. Object(m.id, config[g], m.perm, g).id = m.id
        BY ObjectIs
      <4>. QED
        BY <3>2, <4>1 DEF Replaces
    <3>. QED
      BY <1>0, <2>1, <3>1, <3>2, PostMoves
  <2>2. ASSUME NEW g \in Active, Permits(g), NEW o \in remote PROVE \E q \in remote' : q.id = o.id
    <3>1. [o EXCEPT !.perm = config[g].permission].id = o.id
      <4>1. o = [id |-> o.id, ext |-> o.ext, keys |-> o.keys, scope |-> o.scope, perm |-> o.perm, by |-> o.by]
        BY <1>0 DEF RemoteInv
      <4>. QED
        BY <4>1
    <3>. QED
      BY <1>0, <2>2, <3>1, PermitsOnly
  <2>3. \A o \in remote : \E q \in remote' : q.id = o.id
    BY <1>0, <1>2, <1>3, <2>1, <2>2, Moves DEF Walks, Fetches, Looks, Unwritten, Deletes
  <2>. QED
    BY <1>2, <2>3 DEF Full
<1>5. \A L \in cache' : Full(s, L)
  BY <1>0, <1>2, Listed
<1>6. \A g \in Active : \A L \in list'[g] : Full(s, L)
  BY <1>0, <1>2, Listed
<1>7. ASSUME NEW g \in Active, target'[g] = None PROVE Excludes(s, g)'
  <2>. DEFINE Excluding ==
                /\ pc'[g] \in {"legacy", "ids"} => NoKeys(s, g)
                /\ pc'[g] = "ids" => NoLegacy(s, g)
                /\ pc'[g] = "post" =>
                      \/ NoKeys(s, g) /\ NoLegacy(s, g) /\ NoIds(s, g)
                      \/ \E p \in s.remote : p.ext = External(s.config[g])
  <2>1. SUFFICES Excluding
    BY DEF Excludes, NoKeys, NoLegacy, NoIds
  <2>2. CASE pc'[g] = pc[g] /\ target'[g] = target[g]
    BY <1>2, <1>7, <2>2 DEF Excludes
  <2>3. ASSUME NEW h \in Active, Walks(h) PROVE Excluding
    <3>1. CASE h # g
      BY <1>0, <2>2, <2>3, <3>1 DEF Walks, Unwritten, Goto, PlaceInv
    <3>2. CASE h = g
      <4>1. PICK w \in {"schema", "keys", "legacy", "update", "create", "failed"} :
               /\ pc' = [pc EXCEPT ![g] = w]
               /\ w \in {"keys", "legacy"} => pc[g] = "schema"
               /\ w = "keys" <=> schema.unique /\ pc[g] = "schema" /\ w # "failed"
        BY <2>3, <3>2 DEF Walks, Goto
      <4>2. pc'[g] = w
        BY <1>0, <4>1 DEF PlaceInv
      <4>3. w = "legacy" => ~s.schema.unique
        BY <1>0, <4>1
      <4>. QED
        BY <4>2, <4>3 DEF NoKeys
    <3>. QED
      BY <3>1, <3>2
  <2>4. ASSUME NEW h \in Active, NEW L, Looks(h, L) PROVE Excluding
    <3>1. CASE h # g
      <4>1. pc' = [pc EXCEPT ![h] = pc'[h]] /\ target' = [target EXCEPT ![h] = target'[h]]
        BY <1>0, <2>4, LooksFor
      <4>. QED
        BY <1>0, <2>2, <3>1, <4>1 DEF PlaceInv
    <3>2. CASE h = g
      <4>1. Full(s, L)
        BY <1>2, <2>4 DEF Looks
      <4>. QED
        BY <1>2, <1>7, <2>4, <3>2, <4>1, LooksExclude
    <3>. QED
      BY <3>1, <3>2
  <2>5. ASSUME NEW h \in Active, Posts(h) PROVE Excluding
    <3>1. CASE h = g
      <4>1. PICK q \in remote' : q = Object(target'[g], config[g], q.perm, g)
        BY <2>5, <3>1, Writes
      <4>2. q.id = target'[g]
        BY <4>1, ObjectIs
      <4>. QED
        BY <1>7, <4>2, RemoteStep DEF RemoteInv
    <3>2. CASE h # g
      BY <1>0, <2>2, <2>5, <3>2 DEF Posts, Write, Goto, PlaceInv
    <3>. QED
      BY <3>1, <3>2
  <2>6. ASSUME NEW h \in Active, Permits(h) PROVE Excluding
    <3>1. PICK w \in {"done", "failed"} : pc' = [pc EXCEPT ![h] = w]
      BY <2>6 DEF Permits, Goto
    <3>2. CASE h # g
      BY <1>0, <2>2, <2>6, <3>1, <3>2 DEF Permits, PlaceInv
    <3>3. CASE h = g
      BY <1>0, <3>1, <3>3 DEF PlaceInv
    <3>. QED
      BY <3>2, <3>3
  <2>. QED
    BY <1>0, <2>2, <2>3, <2>4, <2>5, <2>6, Moves DEF Fetches, Unwritten, Deletes
<1>8. ASSUME NEW g \in Active, NEW q \in remote', q.id = <<"new", g>>, NEW p \in s.remote PROVE ~Means(s, g, p)
  <2>1. CASE \E o \in remote : o.id = q.id
    BY <1>2, <1>8, <2>1
  <2>2. ASSUME NEW h \in Active, Posts(h), target[h] = None, q = Object(q.id, config[h], q.perm, h),
               q.id = <<"new", h>>, \A o \in remote : o.ext # q.ext, Means(s, g, p)
        PROVE  FALSE
    <3>1. h = g /\ q.ext = External(config[g]) /\ pc[g] = "post"
      BY <1>8, <2>2, ObjectIs DEF Posts
    <3>2. \A o \in remote : Real(s, o) /\ o.by # g
      BY <2>2, <3>1 DEF OwnInv, FreshInv
    <3>3. CASE NoKeys(s, g) /\ NoLegacy(s, g) /\ NoIds(s, g)
      BY <2>2, <3>3 DEF NoKeys, NoLegacy, NoIds, Means
    <3>4. ASSUME NEW r \in s.remote, r.ext = External(s.config[g]) PROVE FALSE
      <4>1. Means(s, g, r)
        BY <3>4, Identifying DEF Means
      <4>2. PICK o \in remote : o.id = r.id /\ Alike(o, r)
        BY <1>2, <3>2, <4>1, Excluded
      <4>. QED
        BY <1>0, <2>2, <3>1, <3>4, <4>2 DEF Alike
    <3>. QED
      BY <1>2, <2>2, <3>1, <3>3, <3>4 DEF Excludes
  <2>. QED
    BY <2>1, <2>2, Rewritten
<1>. QED
  BY <1>4, <1>5, <1>6, <1>7, <1>8

LEMMA Creating ==
  ASSUME Apart
  PROVE  Spec => [](\E s \in Scenarios : Of(s) /\ OwnInv(s) /\ CreatedInv(s))
<1>1. ASSUME Init PROVE FreshInv /\ \E s \in Scenarios : Of(s) /\ OwnInv(s) /\ CreatedInv(s)
  <2>1. PICK s \in Scenarios : Of(s) /\ remote = s.remote /\ OwnInv(s)
    BY <1>1, FirstOwn
  <2>2. /\ cache \in {{}, {remote}} /\ \A g \in Active : list[g] = {} /\ pc[g] = "start"
    BY <1>1 DEF Init
  <2>3. Full(s, remote)
    BY <2>1 DEF Full
  <2>4. \A g \in Active : \A o \in remote : o.id # <<"new", g>>
    BY <1>1, <2>2, FirstRemote DEF RemoteInv, Pre
  <2>. QED
    BY <1>1, <2>1, <2>2, <2>3, <2>4, FirstFresh DEF CreatedInv, Excludes
<1>2. ASSUME IInv, FreshInv, \E s \in Scenarios : Of(s) /\ OwnInv(s) /\ CreatedInv(s), [Next]_vars
      PROVE  FreshInv' /\ (\E s \in Scenarios : Of(s) /\ OwnInv(s) /\ CreatedInv(s))'
  BY <1>2, FreshStep, OwnStep, CreatedStep
<1>. QED
  BY <1>1, <1>2, Invariance, PTL DEF Spec

\* Unless a list ended early or others delete, no goroutine creates an object when the
\* environment has one that its configuration identifies: the three lookups and the
\* POST itself together miss none.
THEOREM CreatesOnce == Apart => (Spec => []NothingCreatedTwice)
<1>. SUFFICES ASSUME Apart PROVE Spec => []NothingCreatedTwice
  OBVIOUS
<1>1. ASSUME NEW s \in Scenarios, Of(s), OwnInv(s), CreatedInv(s) PROVE NothingCreatedTwice
  <2>. SUFFICES ASSUME ~partial, deleted = {}, NEW g \in Active, NEW o \in remote, o.id = <<"new", g>>,
                       NEW p \in remote, p.id \notin New, Matches(config[g], p)
                PROVE  FALSE
    BY DEF NothingCreatedTwice
  <2>1. Belongs(s, g, p.id)
    BY <1>1, Whose DEF OwnInv
  <2>2. <<"new", g>> \in New
    <3>1. g \in Goroutines
      BY <1>1, SettingsAssumption DEF Of, Active
    <3>. QED
      BY <3>1 DEF New
  <2>3. PICK r \in s.remote : Means(s, g, r)
    BY <2>1, <2>2 DEF Belongs
  <2>. QED
    BY <1>1, <2>3 DEF CreatedInv
<1>2. (\E s \in Scenarios : Of(s) /\ OwnInv(s) /\ CreatedInv(s)) => NothingCreatedTwice
  BY <1>1
<1>. QED
  BY <1>2, Creating, PTL
=============================================================================
