---------------------------- MODULE CommandProofs ----------------------------
(***************************************************************************)
(* What holds of the commands that talk to an environment.                 *)
(* Of the deployers of all kinds, for any configurations and objects of    *)
(* others, however often they are deployed: nothing is created next to     *)
(* what was made before, and an id that is handed on is that of an object  *)
(* its configuration has written.                                          *)
(* Of a deletion, for any delete file, clients and objects, whatever fails *)
(* and whatever others delete: only what is named goes, and an environment *)
(* without errors has nothing left of it.                                  *)
(* Of downloaded configurations, however their goroutines interleave: a    *)
(* reference means the one whose id it replaces, and none is missed.       *)
(* Of generated delete files, for any projects: all that can be named is.  *)
(* Of a download, for any objects and options, whatever cannot be read: it *)
(* holds what was asked for and read, in its scope and order.              *)
(***************************************************************************)
EXTENDS ResourceUpsert, Deletion, DependencyResolution, DeleteFile, Downloads, Integers,
        FiniteSetTheorems, WellFoundedInduction, TLAPS

\* The kinds whose objects are created under an id the configuration has; the
\* others carry it as their id from outside.
Named  == {"automation", "bucket", "document", "openpipeline"}
Listed == {"segment", "slo", "classic", "settings"}

NameId(c) ==
    CASE c.kind \in {"automation", "bucket"} -> IF c.origin # Nil THEN c.origin ELSE Own(c)
      [] c.kind = "document" -> IF c.custom # Nil THEN c.custom ELSE Own(c)
      [] OTHER -> c.custom

Chosen(n) == <<"chosen", n>>

IsObject(o) ==
    o = [kind |-> o.kind, id |-> o.id, ext |-> o.ext, maker |-> o.maker, writers |-> o.writers, state |-> o.state]

\* Coordinates are unique, and nothing carries an identifier made from one of
\* them before the first deployment, nor one the environment is still to
\* choose.  Classic configurations of a deployment have different names.
ConfigsApart(k) ==
    /\ Nil \notin k.configs
    /\ \A c \in k.configs :
           /\ c.kind \in Named \cup Listed
           /\ Own(c) # Nil
           /\ \A n \in Nat : c.origin # Chosen(n) /\ c.custom # Chosen(n)
    /\ \A c, d \in k.configs :
           /\ c.id = d.id => c = d
           /\ c.origin # Own(d) /\ c.custom # Own(d)
           /\ c.kind = "classic" /\ d.kind = "classic" /\ c.custom = d.custom => c = d

ObjectsApart(k) ==
    /\ \A o \in k.existing :
           /\ IsObject(o) /\ o.maker = Nil /\ o.writers = {} /\ o.state = "active"
           /\ \A c \in k.configs : o.id # Own(c) /\ o.ext # Own(c)
           /\ \A n \in Nat : o.id # Chosen(n)
    /\ \A o, p \in k.existing : o.kind = p.kind /\ o.id = p.id => o = p

Apart(k) == ConfigsApart(k) /\ ObjectsApart(k)

-----------------------------------------------------------------------------
\* Whose an object is: made by a configuration under its own id, or with its
\* id from outside and an id that was chosen for it alone.
MadeBy(o, c, f) ==
    /\ o.kind = c.kind
    /\ c.kind \in Named => o.id = NameId(c)
    /\ c.kind \in Listed => o.ext = Own(c) /\ \E n \in Nat : n < f /\ o.id = Chosen(n)

\* A configuration that has an object's id from outside has made it or names it
\* as its origin; who else has written it names it too.
MeantBy(o, c) ==
    /\ o.id = Own(c) => o.maker = c
    /\ o.kind = c.kind /\ c.kind \in Listed /\ o.ext = Own(c) => o.maker = c \/ o.id = c.origin

ObjectOk(o, k, g, f) ==
    /\ IsObject(o)
    /\ o.state \in {"active", "creating", "deleting"}
    /\ o.state = "deleting" => o.id \in g
    /\ o.maker \in k.configs \cup {Nil}
    /\ o.maker \in k.configs => MadeBy(o, o.maker, f)
    /\ \A n \in Nat : o.id = Chosen(n) => n < f
    /\ \A c \in k.configs : MeantBy(o, c)
    /\ o.writers \subseteq k.configs
    /\ \A c \in o.writers : c # o.maker => o.id \in {c.origin, c.custom}

ObjectInv == \A o \in objects : ObjectOk(o, case, gone, fresh)

\* Neither ids nor makers occur twice.
UniqueInv ==
    \A o, p \in objects :
        (o.kind = p.kind /\ o.id = p.id) \/ (o.maker = p.maker /\ o.maker \in case.configs) => o = p

\* What a deployer knows: the ids it tries are its own, what it is about to
\* create is not there, what it has found is meant for it, what it has handed
\* on it has written; and what it never does in a dry run.
Tried(c) == {c.origin} \cup (IF c.kind \in Named THEN {NameId(c)} ELSE {})

Trying(c)   == ids[c] \in Seq(Tried(c)) /\ ids[c] # <<>>
NoneMade(c) == c.kind \in Listed => \A o \in objects : o.maker # c

FoundOwn(c) ==
    /\ c.kind \in Listed
    /\ \A n \in Nat : Head(ids[c]) = Chosen(n) => n < fresh
    /\ Head(ids[c]) = c.origin \/ \A o \in At(c, Head(ids[c])) : o.maker = c

HandedOn(c) == resolved[c] \in gone \/ \E o \in At(c, resolved[c]) : c \in o.writers

KnowsInv(c) ==
    /\ step[c] = "update" => Trying(c)
    /\ step[c] = "create" => NoneMade(c)
    /\ step[c] = "match" => FoundOwn(c)
    /\ step[c] \in {"done", "await created"} /\ ~dry => HandedOn(c)
    /\ dry => ~Unimplemented(c)
    /\ step[c] = "await" => c.kind = "bucket" /\ Trying(c)
    /\ step[c] = "client" => c.kind \in {"classic", "settings"}
    /\ step[c] = "store" => c.kind = "classic" /\ dry

DryInv == dry => objects = Existing

EntryInv == \A e \in entries : \E c \in case.configs : c.kind = "classic" /\ e = [key |-> c.custom, by |-> c]

IInv ==
    /\ case \in Cases
    /\ fresh \in Nat
    /\ DOMAIN step = Configs /\ DOMAIN ids = Configs /\ DOMAIN resolved = Configs
    /\ ObjectInv /\ UniqueInv /\ DryInv /\ EntryInv
    /\ \A c \in Configs : KnowsInv(c)

-----------------------------------------------------------------------------
\* Operators of the model.
LEMMA OwnIsOwn == \A c, d : Own(c) = Own(d) => c.id = d.id
  BY DEF Own

LEMMA OwnIsNotChosen == \A c, n : Own(c) # Chosen(n)
  BY DEF Own, Chosen

LEMMA ChosenOnce == \A m, n : Chosen(m) = Chosen(n) => m = n
  BY DEF Chosen

LEMMA CreateIds ==
    ASSUME NEW c, c.kind \in Named \cup Listed
    PROVE  CreateId(c) = IF c.kind \in Named THEN NameId(c) ELSE Chosen(fresh)
  BY DEF CreateId, NameId, Named, Listed, Chosen

LEMMA NameIds ==
    ASSUME NEW c, c.kind \in Named
    PROVE  NameId(c) \in {c.origin, c.custom, Own(c)}
  BY DEF NameId, Named

LEMMA TailLeft ==
    ASSUME NEW S, NEW q \in Seq(S), Len(q) > 1
    PROVE  Tail(q) # <<>>
<1>1. Len(Tail(q)) = Len(q) - 1 /\ Len(q) \in Nat
  OBVIOUS
<1>2. \A n \in Nat : n > 1 => n - 1 # 0
  OBVIOUS
<1>3. Len(Tail(q)) # 0
  BY <1>1, <1>2, Zenon
<1>4. \A p : p = <<>> => Len(p) = 0
  OBVIOUS
<1>. QED
  BY <1>3, <1>4, Zenon

LEMMA WriteIs ==
    ASSUME NEW o, NEW c, IsObject(o)
    PROVE  /\ IsObject(Write(o, c))
           /\ Write(o, c).kind = o.kind /\ Write(o, c).id = o.id /\ Write(o, c).maker = o.maker
           /\ Write(o, c).state = o.state /\ Write(o, c).writers = o.writers \cup {c}
           /\ Write(o, c).ext = IF c.kind \in Listed THEN Own(c) ELSE o.ext
<1>. DEFINE Object(k, i, e, m, w, s) ==
              [kind |-> k, id |-> i, ext |-> e, maker |-> m, writers |-> w, state |-> s]
<1>1. PICK k, i, e, m, w, s : o = Object(k, i, e, m, w, s)
  BY DEF IsObject
<1>2. Mark(o, c) = Object(k, i, IF c.kind \in Listed THEN Own(c) ELSE e, m, w, s)
  BY <1>1 DEF Mark, HasExternalId, Listed
<1>3. Write(o, c) = Object(k, i, IF c.kind \in Listed THEN Own(c) ELSE e, m, w \cup {c}, s)
  BY <1>2 DEF Write
<1>. QED
  BY <1>1, <1>3 DEF IsObject

LEMMA NewIs ==
    ASSUME NEW c, c.kind \in Named \cup Listed
    PROVE  /\ IsObject(NewObject(c))
           /\ NewObject(c).kind = c.kind /\ NewObject(c).maker = c /\ NewObject(c).writers = {c}
           /\ NewObject(c).id = IF c.kind \in Named THEN NameId(c) ELSE Chosen(fresh)
           /\ NewObject(c).ext = IF c.kind \in Listed THEN Own(c) ELSE Nil
           /\ NewObject(c).state \in {"active", "creating"}
  BY CreateIds DEF NewObject, IsObject, HasExternalId, Named, Listed

LEMMA TriedSeq == \A S, id : id \in S => IfAny(id) \in Seq(S)
  BY DEF IfAny

LEMMA TryIs ==
    ASSUME NEW c, c.kind \in Named \cup Listed, Own(c) # Nil
    PROVE  /\ First(c) \in {"update", "await"} => IdsToTry(c) \in Seq(Tried(c)) /\ IdsToTry(c) # <<>>
           /\ First(c) \in {"client", "await", "list", "update"}
           /\ First(c) = "client" => c.kind \in {"classic", "settings"}
           /\ First(c) = "await" <=> c.kind = "bucket"
<1>1. /\ First(c) \in {"client", "await", "list", "update"}
      /\ First(c) = "client" => c.kind \in {"classic", "settings"}
      /\ First(c) = "await" <=> c.kind = "bucket"
      /\ First(c) \in {"update", "await"} => c.kind \notin {"classic", "settings"}
      /\ First(c) = "update" => IdsToTry(c) # <<>>
  BY DEF First
<1>5. c.kind = "bucket" => IdsToTry(c) # <<>>
  BY CreateIds DEF IdsToTry, IfAny, NameId, Named
<1>2. CASE c.kind = "document"
  <2>1. Tried(c) = {c.origin, CreateId(c)}
    BY <1>2, CreateIds DEF Tried, Named
  <2>2. IfAny(c.origin) \in Seq(Tried(c)) /\ IfAny(CreateId(c)) \in Seq(Tried(c))
    BY <2>1, TriedSeq
  <2>3. IdsToTry(c) = IfAny(c.origin) \o IfAny(CreateId(c))
    BY <1>2 DEF IdsToTry
  <2>4. IdsToTry(c) \in Seq(Tried(c))
    BY <2>2, <2>3
  <2>. QED
    BY <1>1, <1>5, <2>4
<1>3. CASE c.kind \in {"segment", "slo"}
  BY <1>1, <1>3, <1>5, TriedSeq DEF IdsToTry, Tried
<1>4. CASE c.kind \in Named \ {"document"}
  <2>1. CreateId(c) \in Tried(c)
    BY <1>4, CreateIds DEF Tried
  <2>2. IdsToTry(c) = IfAny(CreateId(c))
    BY <1>4 DEF IdsToTry, Named
  <2>3. IdsToTry(c) \in Seq(Tried(c))
    BY <2>1, <2>2, TriedSeq
  <2>. QED
    BY <1>1, <1>5, <2>3
<1>. QED
  BY <1>1, <1>2, <1>3, <1>4 DEF Listed

-----------------------------------------------------------------------------
\* What happens to one object.
LEMMA OkLater ==
    ASSUME NEW o, NEW k, NEW g, NEW g2, NEW f \in Nat, NEW f2 \in Nat,
           ObjectOk(o, k, g, f), g \subseteq g2, f <= f2
    PROVE  ObjectOk(o, k, g2, f2)
<1>1. o.maker \in k.configs => MadeBy(o, o.maker, f2)
  BY DEF ObjectOk, MadeBy
<1>. QED
  BY <1>1 DEF ObjectOk

LEMMA OkWritten ==
    ASSUME NEW o, NEW k, NEW g, NEW f \in Nat, NEW c \in k.configs, ConfigsApart(k),
           ObjectOk(o, k, g, f), o.kind = c.kind,
           c.kind \in Listed => o.maker = c \/ o.id = c.origin,
           o.maker = c \/ o.id \in {c.origin, c.custom}
    PROVE  ObjectOk(Write(o, c), k, g, f)
<1> DEFINE w == Write(o, c)
<1>1. /\ IsObject(w) /\ w.kind = o.kind /\ w.id = o.id /\ w.maker = o.maker /\ w.state = o.state
      /\ w.writers = o.writers \cup {c} /\ w.ext = IF c.kind \in Listed THEN Own(c) ELSE o.ext
  BY WriteIs DEF ObjectOk
<1>. HIDE DEF w
<1>2. w.maker \in k.configs => MadeBy(w, w.maker, f)
  <2>1. CASE o.maker = c
    BY <1>1, <2>1 DEF ObjectOk, MadeBy
  <2>2. CASE o.maker \in k.configs /\ o.maker # c
    <3>1. c.kind \in Named
      <4>1. ~\E n \in Nat : c.origin = Chosen(n)
        BY DEF ConfigsApart
      <4>. QED
        BY <2>2, <4>1 DEF ObjectOk, MadeBy, ConfigsApart
    <3>2. w.ext = o.ext
      BY <1>1, <3>1 DEF Named, Listed
    <3>. QED
      BY <1>1, <2>2, <3>2 DEF ObjectOk, MadeBy
  <2>. QED
    BY <1>1, <2>1, <2>2
<1>3. \A d \in k.configs : MeantBy(w, d)
  <2>. SUFFICES ASSUME NEW d \in k.configs PROVE MeantBy(w, d)
    OBVIOUS
  <2>1. MeantBy(o, d)
    BY DEF ObjectOk
  <2>2. CASE c.kind \in Listed
    <3>1. w.ext = Own(d) => c = d
      BY <1>1, <2>2, OwnIsOwn DEF ConfigsApart
    <3>. QED
      BY <1>1, <2>1, <2>2, <3>1 DEF MeantBy
  <2>3. CASE c.kind \notin Listed
    BY <1>1, <2>1, <2>3 DEF MeantBy
  <2>. QED
    BY <2>2, <2>3
<1>4. \A d \in w.writers : d # w.maker => w.id \in {d.origin, d.custom}
  BY <1>1 DEF ObjectOk
<1>5. ObjectOk(w, k, g, f)
  BY <1>1, <1>2, <1>3, <1>4 DEF ObjectOk
<1>. QED
  BY <1>5 DEF w

LEMMA OkNew ==
    ASSUME NEW k, NEW g, NEW c \in k.configs, ConfigsApart(k), fresh \in Nat
    PROVE  ObjectOk(NewObject(c), k, g, fresh + 1)
<1> DEFINE w == NewObject(c)
<1>1. c.kind \in Named \cup Listed
  BY DEF ConfigsApart
<1>2. /\ IsObject(w) /\ w.kind = c.kind /\ w.maker = c /\ w.writers = {c}
      /\ w.id = IF c.kind \in Named THEN NameId(c) ELSE Chosen(fresh)
      /\ w.ext = IF c.kind \in Listed THEN Own(c) ELSE Nil
      /\ w.state \in {"active", "creating"}
  BY <1>1, NewIs
<1>. HIDE DEF w
<1>3. MadeBy(w, c, fresh + 1)
  BY <1>1, <1>2 DEF MadeBy, Named, Listed
<1>4. \A n \in Nat : w.id = Chosen(n) => n < fresh + 1
  <2>1. CASE c.kind \in Named
    BY <1>2, <2>1, NameIds, OwnIsNotChosen DEF ConfigsApart
  <2>2. CASE c.kind \notin Named
    BY <1>2, <2>2, ChosenOnce
  <2>. QED
    BY <2>1, <2>2
<1>5. \A d \in k.configs : MeantBy(w, d)
  <2>. SUFFICES ASSUME NEW d \in k.configs PROVE MeantBy(w, d)
    OBVIOUS
  <2>1. Own(c) = Own(d) => c = d
    BY OwnIsOwn DEF ConfigsApart
  <2>2. w.id = Own(d) => c = d
    <3>1. CASE c.kind \in Named
      BY <1>2, <2>1, <3>1, NameIds DEF ConfigsApart
    <3>2. CASE c.kind \notin Named
      BY <1>2, <3>2, OwnIsNotChosen
    <3>. QED
      BY <3>1, <3>2
  <2>3. w.kind = d.kind /\ d.kind \in Listed /\ w.ext = Own(d) => c = d
    BY <1>2, <2>1
  <2>. QED
    BY <1>2, <2>2, <2>3 DEF MeantBy
<1>6. ObjectOk(w, k, g, fresh + 1)
  BY <1>2, <1>3, <1>4, <1>5 DEF ObjectOk
<1>. QED
  BY <1>6 DEF w

-----------------------------------------------------------------------------
\* What happens to the objects.  Every object afterwards was one before or is
\* new, made by a configuration that had none; every object before is one
\* afterwards, with its writers, or is among those that others have deleted.
SameObject(p, o) == p.kind = o.kind /\ p.id = o.id /\ p.maker = o.maker

Back(c) ==
    \A p \in objects' : \/ \E o \in objects : SameObject(p, o)
                        \/ p.maker = c /\ (p.kind \in Listed => p.id = Chosen(fresh))

Forth ==
    \A o \in objects : o.id \in gone' \/ \E p \in objects' : SameObject(p, o) /\ o.writers \subseteq p.writers

Evolves(c) ==
    /\ ObjectInv' /\ UniqueInv' /\ Back(c) /\ Forth
    /\ fresh' \in Nat /\ fresh <= fresh' /\ gone \subseteq gone'

LEMMA NothingHappens ==
    ASSUME IInv, NEW c, UNCHANGED <<case, objects, gone, fresh>>
    PROVE  Evolves(c)
<1>1. Back(c) /\ Forth
  BY DEF Back, Forth, SameObject
<1>2. ObjectInv' /\ UniqueInv'
  BY DEF IInv, ObjectInv, UniqueInv
<1>. QED
  BY <1>1, <1>2 DEF Evolves, IInv

\* An object is exchanged for one of the same identity.
LEMMA Exchanged ==
    ASSUME IInv, NEW c, NEW o \in objects, NEW w, UNCHANGED <<case, fresh>>,
           objects' = (objects \ {o}) \cup {w}, SameObject(w, o), o.writers \subseteq w.writers,
           gone \subseteq gone', ObjectOk(w, case, gone', fresh)
    PROVE  Evolves(c)
<1>1. Back(c)
  BY DEF Back, SameObject
<1>2. Forth
  BY DEF Forth, SameObject
<1>3. ObjectInv'
  <2>. SUFFICES ASSUME NEW p \in objects' PROVE ObjectOk(p, case, gone', fresh)
    BY DEF ObjectInv
  <2>1. CASE p \in objects
    <3>1. fresh \in Nat /\ fresh <= fresh
      BY DEF IInv
    <3>2. ObjectOk(p, case, gone, fresh)
      BY <2>1 DEF IInv, ObjectInv
    <3>. QED
      BY <3>1, <3>2, OkLater
  <2>. QED
    BY <2>1
<1>4. UniqueInv'
  BY DEF UniqueInv, IInv, SameObject
<1>. QED
  BY <1>1, <1>2, <1>3, <1>4 DEF Evolves, IInv

LEMMA Overwritten ==
    ASSUME IInv, Apart(case), NEW c \in Configs, NEW o \in objects, UNCHANGED <<case, gone, fresh>>,
           objects' = (objects \ {o}) \cup {Write(o, c)}, o.kind = c.kind,
           c.kind \in Listed => o.maker = c \/ o.id = c.origin,
           o.maker = c \/ o.id \in {c.origin, c.custom}
    PROVE  Evolves(c) /\ \E p \in objects' : p.kind = c.kind /\ p.id = o.id /\ c \in p.writers
<1> DEFINE w == Write(o, c)
<1>1. ObjectOk(o, case, gone, fresh) /\ fresh \in Nat /\ c \in case.configs
  BY DEF IInv, ObjectInv, Configs
<1>2. ObjectOk(w, case, gone, fresh)
  BY <1>1, OkWritten DEF Apart
<1>3. SameObject(w, o) /\ w.writers = o.writers \cup {c} /\ w \in objects'
  BY <1>1, WriteIs DEF ObjectOk, SameObject
<1>. HIDE DEF w
<1>4. Evolves(c)
  <2>1. objects' = (objects \ {o}) \cup {w}
    BY DEF w
  <2>. QED
    BY <1>2, <1>3, <2>1, Exchanged
<1>. QED
  BY <1>3, <1>4 DEF SameObject

LEMMA Added ==
    ASSUME IInv, Apart(case), NEW c \in Configs, UNCHANGED <<case, gone>>, fresh' = fresh + 1,
           objects' = objects \cup {NewObject(c)},
           c.kind \in Named => At(c, NameId(c)) = {}, NoneMade(c)
    PROVE  Evolves(c) /\ \E p \in objects' : p.kind = c.kind /\ p.id = CreateId(c) /\ c \in p.writers
<1> DEFINE w == NewObject(c)
<1>1. fresh \in Nat /\ c \in case.configs /\ c.kind \in Named \cup Listed
  BY DEF IInv, Configs, Apart, ConfigsApart
<1>2. ObjectOk(w, case, gone, fresh + 1)
  BY <1>1, OkNew DEF Apart
<1>3. /\ w.kind = c.kind /\ w.maker = c /\ w.writers = {c}
      /\ w.id = IF c.kind \in Named THEN NameId(c) ELSE Chosen(fresh)
  BY <1>1, NewIs
<1>4. objects' = objects \cup {w}
  OBVIOUS
<1>. HIDE DEF w
<1>5. Back(c)
  BY <1>3, <1>4 DEF Back, SameObject, Named, Listed
<1>6. Forth
  BY <1>4 DEF Forth, SameObject
<1>7. ObjectInv'
  <2>. SUFFICES ASSUME NEW p \in objects' PROVE ObjectOk(p, case, gone, fresh + 1)
    BY DEF ObjectInv
  <2>1. CASE p \in objects
    <3>1. fresh + 1 \in Nat /\ fresh <= fresh + 1 /\ gone \subseteq gone
      BY <1>1
    <3>2. ObjectOk(p, case, gone, fresh)
      BY <2>1 DEF IInv, ObjectInv
    <3>. QED
      BY <1>1, <3>1, <3>2, OkLater
  <2>. QED
    BY <1>2, <1>4, <2>1
<1>8. \A o \in objects : ~(o.kind = w.kind /\ o.id = w.id) /\ o.maker # c
  <2>. SUFFICES ASSUME NEW o \in objects
               PROVE  ~(o.kind = w.kind /\ o.id = w.id) /\ o.maker # c
    OBVIOUS
  <2>1. ObjectOk(o, case, gone, fresh)
    BY DEF IInv, ObjectInv
  <2>2. CASE c.kind \in Named
    <3>1. ~(o.kind = c.kind /\ o.id = NameId(c))
      BY <2>2 DEF At
    <3>2. o.maker # c
      BY <1>1, <2>1, <2>2, <3>1 DEF ObjectOk, MadeBy
    <3>. QED
      BY <1>3, <2>2, <3>1, <3>2
  <2>3. CASE c.kind \notin Named
    <3>1. o.maker # c
      BY <1>1, <2>3 DEF NoneMade
    <3>2. o.id # Chosen(fresh)
      BY <1>1, <2>1 DEF ObjectOk
    <3>. QED
      BY <1>3, <2>3, <3>1, <3>2
  <2>. QED
    BY <2>2, <2>3
<1>9. UniqueInv'
  BY <1>3, <1>4, <1>8 DEF UniqueInv, IInv
<1>10. Evolves(c)
  BY <1>1, <1>5, <1>6, <1>7, <1>9 DEF Evolves
<1>11. CreateId(c) = w.id
  BY <1>1, <1>3, CreateIds
<1>. QED
  BY <1>3, <1>4, <1>10, <1>11

LEMMA Removed ==
    ASSUME IInv, NEW c, NEW o \in objects, UNCHANGED <<case, fresh>>,
           objects' = objects \ {o}, gone \subseteq gone', o.id \in gone'
    PROVE  Evolves(c)
<1>1. Back(c) /\ Forth
  BY DEF Back, Forth, SameObject
<1>2. fresh \in Nat /\ fresh <= fresh
  BY DEF IInv
<1>3. ObjectInv'
  <2>. SUFFICES ASSUME NEW p \in objects' PROVE ObjectOk(p, case, gone', fresh)
    BY DEF ObjectInv
  <2>1. ObjectOk(p, case, gone, fresh)
    BY DEF IInv, ObjectInv
  <2>. QED
    BY <1>2, <2>1, OkLater
<1>4. UniqueInv'
  BY DEF UniqueInv, IInv
<1>. QED
  BY <1>1, <1>2, <1>3, <1>4 DEF Evolves

\* A bucket comes or goes.
LEMMA Restated ==
    ASSUME IInv, NEW c, NEW o \in objects, NEW s \in {"active", "deleting"}, UNCHANGED <<case, fresh>>,
           objects' = (objects \ {o}) \cup {[o EXCEPT !.state = s]},
           gone \subseteq gone', s = "deleting" => o.id \in gone'
    PROVE  Evolves(c)
<1>1. ObjectOk(o, case, gone, fresh) /\ fresh \in Nat
  BY DEF IInv, ObjectInv
<1>. DEFINE w == [kind |-> o.kind, id |-> o.id, ext |-> o.ext, maker |-> o.maker, writers |-> o.writers,
                  state |-> s]
<1>2. [o EXCEPT !.state = s] = w
  <2>. DEFINE Object(k, i, e, m, v, t) ==
                [kind |-> k, id |-> i, ext |-> e, maker |-> m, writers |-> v, state |-> t]
  <2>1. PICK k, i, e, m, v, t : o = Object(k, i, e, m, v, t)
    BY <1>1 DEF ObjectOk, IsObject
  <2>. QED
    BY <2>1
<1>3. /\ IsObject(w) /\ w.kind = o.kind /\ w.id = o.id /\ w.ext = o.ext /\ w.maker = o.maker
      /\ w.writers = o.writers /\ w.state = s
  BY DEF IsObject
<1>4. objects' = (objects \ {o}) \cup {w}
  BY <1>2
<1>. HIDE DEF w
<1>5. ObjectOk(w, case, gone', fresh)
  <2>1. \A d \in case.configs : MeantBy(w, d)
    BY <1>1, <1>3 DEF ObjectOk, MeantBy
  <2>2. w.maker \in case.configs => MadeBy(w, w.maker, fresh)
    BY <1>1, <1>3 DEF ObjectOk, MadeBy
  <2>. QED
    BY <1>1, <1>3, <2>1, <2>2 DEF ObjectOk
<1>. QED
  BY <1>3, <1>4, <1>5, Exchanged DEF SameObject

-----------------------------------------------------------------------------
\* What the others know stays true while a configuration is at work.
LEMMA OthersKnow ==
    ASSUME IInv, Apart(case), NEW c, NEW d \in Configs, d # c, Evolves(c), dry' = dry, case' = case,
           step'[d] = step[d], ids'[d] = ids[d], resolved'[d] = resolved[d]
    PROVE  KnowsInv(d)'
<1>1. KnowsInv(d) /\ fresh \in Nat
  BY DEF IInv
<1>2. Trying(d) => Trying(d)'
  BY DEF Trying
<1>3. NoneMade(d) => NoneMade(d)'
  BY DEF NoneMade, Evolves, Back, SameObject
<1>4. FoundOwn(d) => FoundOwn(d)'
  <2>. SUFFICES ASSUME FoundOwn(d) PROVE FoundOwn(d)'
    OBVIOUS
  <2>1. \A n \in Nat : Head(ids[d]) = Chosen(n) => n < fresh'
    BY <1>1 DEF FoundOwn, Evolves
  <2>2. CASE Head(ids[d]) # d.origin
    <3>1. Head(ids[d]) # Chosen(fresh)
      BY <1>1 DEF FoundOwn
    <3>2. \A p \in objects' : p.kind = d.kind /\ p.id = Head(ids[d]) => p.maker = d
      BY <2>2, <3>1 DEF FoundOwn, Evolves, Back, SameObject, At
    <3>. QED
      BY <2>1, <3>2 DEF FoundOwn, At
  <2>3. CASE Head(ids[d]) = d.origin
    BY <2>1, <2>3 DEF FoundOwn
  <2>. QED
    BY <2>2, <2>3
<1>5. HandedOn(d) => HandedOn(d)'
  BY DEF HandedOn, At, Evolves, Forth, SameObject
<1>6. Unimplemented(d)' <=> Unimplemented(d)
  BY DEF Unimplemented
<1>. QED
  BY <1>1, <1>2, <1>3, <1>4, <1>5, <1>6 DEF KnowsInv

-----------------------------------------------------------------------------
\* A step of one configuration.
Alone(c) ==
    /\ DOMAIN step' = Configs /\ DOMAIN ids' = Configs /\ DOMAIN resolved' = Configs
    /\ \A d \in Configs \ {c} : step'[d] = step[d] /\ ids'[d] = ids[d] /\ resolved'[d] = resolved[d]
    /\ case' = case /\ dry' = dry

LEMMA StepsAlone ==
    ASSUME IInv, NEW c \in Configs, NEW s, case' = case, dry' = dry, Become(c, s),
           ids' = ids \/ (\E x : ids' = [ids EXCEPT ![c] = x]),
           resolved' = resolved \/ (\E x : resolved' = [resolved EXCEPT ![c] = x])
    PROVE  Alone(c) /\ step'[c] = s
  BY DEF IInv, Alone, Become

LEMMA Works ==
    ASSUME IInv, Apart(case), NEW c \in Configs, Alone(c), Evolves(c), dry => objects' = objects,
           EntryInv', KnowsInv(c)'
    PROVE  IInv'
<1>1. case' = case /\ dry' = dry /\ Configs' = Configs
  BY DEF Alone, Configs
<1>2. \A d \in Configs : KnowsInv(d)'
  <2>. SUFFICES ASSUME NEW d \in Configs, d # c PROVE KnowsInv(d)'
    OBVIOUS
  <2>. QED
    BY <1>1, OthersKnow DEF Alone
<1>3. DryInv'
  BY <1>1 DEF IInv, DryInv, Existing
<1>. QED
  BY <1>1, <1>2, <1>3 DEF IInv, Evolves, Alone

LEMMA Quietly ==
    ASSUME IInv, Apart(case), NEW c \in Configs, NEW s, Become(c, s), Local,
           ids' = ids \/ (\E x : ids' = [ids EXCEPT ![c] = x]),
           resolved' = resolved \/ (\E x : resolved' = [resolved EXCEPT ![c] = x]),
           KnowsInv(c)'
    PROVE  IInv'
<1>1. Alone(c) /\ Evolves(c)
  BY StepsAlone, NothingHappens DEF Local
<1>2. EntryInv'
  BY DEF Local, IInv, EntryInv
<1>. QED
  BY <1>1, <1>2, Works DEF Local

\* A deployer that has failed knows nothing.
LEMMA FailedKnows ==
    ASSUME NEW c, step'[c] = "failed"
    PROVE  KnowsInv(c)'
  BY DEF KnowsInv, Unimplemented

LEMMA BeginStep ==
    ASSUME IInv, Apart(case), NEW c \in Configs, Begin(c)
    PROVE  IInv'
<1>1. PICK s \in {"failed", First(c)} : Become(c, s)
  BY DEF Begin
<1>2. /\ Local /\ UNCHANGED resolved /\ ids' = [ids EXCEPT ![c] = IdsToTry(c)]
      /\ step'[c] = s /\ ids'[c] = IdsToTry(c)
  BY <1>1, StepsAlone DEF Begin, Local, IInv
<1>3. CASE s = "failed"
  BY <1>1, <1>2, <1>3, Quietly, FailedKnows
<1>4. CASE s = First(c)
  <2>1. c.kind \in Named \cup Listed /\ Own(c) # Nil
    BY DEF Apart, ConfigsApart, Configs
  <2>2. KnowsInv(c)'
    BY <1>2, <1>4, <2>1, TryIs DEF KnowsInv, Trying, Unimplemented
  <2>. QED
    BY <1>1, <1>2, <2>2, Quietly
<1>. QED
  BY <1>3, <1>4

LEMMA FailsStep ==
    ASSUME IInv, Apart(case), NEW c \in Configs, Fails(c)
    PROVE  IInv'
<1>1. Become(c, "failed") /\ Local /\ UNCHANGED <<ids, resolved>> /\ step'[c] = "failed"
  BY StepsAlone DEF Fails, Local
<1>. QED
  BY <1>1, Quietly, FailedKnows

\* An object is written or made, and its id handed on, unless the answer is lost.
LEMMA WritesStep ==
    ASSUME IInv, Apart(case), NEW c \in Configs, ~dry, NEW old, NEW new, NEW id,
           NEW next \in {"done", "await created"}, Writes(c, old, new, next, id),
           Evolves(c), \E p \in objects' : p.kind = c.kind /\ p.id = id /\ c \in p.writers
    PROVE  IInv'
<1>1. UNCHANGED <<case, dry, ids, entries, gone>>
  BY DEF Writes
<1>2. EntryInv'
  BY <1>1 DEF IInv, EntryInv
<1>3. CASE Become(c, next) /\ resolved' = [resolved EXCEPT ![c] = id]
  <2>1. Alone(c) /\ step'[c] = next /\ resolved'[c] = id
    BY <1>1, <1>3, StepsAlone DEF IInv
  <2>2. HandedOn(c)'
    BY <2>1 DEF HandedOn, At
  <2>3. KnowsInv(c)'
    BY <1>1, <2>1, <2>2 DEF KnowsInv
  <2>. QED
    BY <1>2, <2>1, <2>3, Works
<1>4. CASE Become(c, "failed") /\ UNCHANGED resolved
  <2>1. Alone(c) /\ step'[c] = "failed"
    BY <1>1, <1>4, StepsAlone
  <2>. QED
    BY <1>2, <2>1, FailedKnows, Works
<1>. QED
  BY <1>3, <1>4 DEF Writes

LEMMA OverwriteStep ==
    ASSUME IInv, Apart(case), NEW c \in Configs, ~dry, NEW o \in objects, o.kind = c.kind,
           c.kind \in Listed => o.maker = c \/ o.id = c.origin,
           o.maker = c \/ o.id \in {c.origin, c.custom},
           Writes(c, {o}, Write(o, c), "done", o.id), UNCHANGED fresh
    PROVE  IInv'
<1>1. objects' = (objects \ {o}) \cup {Write(o, c)} /\ UNCHANGED <<case, gone>>
  BY DEF Writes
<1>2. Evolves(c) /\ \E p \in objects' : p.kind = c.kind /\ p.id = o.id /\ c \in p.writers
  BY <1>1, Overwritten
<1>. QED
  BY <1>2, WritesStep

LEMMA CreationStep ==
    ASSUME IInv, Apart(case), NEW c \in Configs, ~dry, NEW next \in {"done", "await created"},
           c.kind \in Named => At(c, NameId(c)) = {}, NoneMade(c),
           Writes(c, {}, NewObject(c), next, CreateId(c)), fresh' = fresh + 1
    PROVE  IInv'
<1>1. objects' = objects \cup {NewObject(c)} /\ UNCHANGED <<case, gone>>
  BY DEF Writes
<1>2. Evolves(c) /\ \E p \in objects' : p.kind = c.kind /\ p.id = CreateId(c) /\ c \in p.writers
  BY <1>1, Added
<1>. QED
  BY <1>2, WritesStep

LEMMA UpdateStep ==
    ASSUME IInv, Apart(case), NEW c \in Configs, NEW notFound \in {"create", "failed", "list"},
           notFound = "create" => c.kind \in Named, UpdateOr(c, notFound)
    PROVE  IInv'
<1>1. /\ step[c] = "update" /\ ~dry /\ ids[c] \in Seq(Tried(c)) /\ ids[c] # <<>>
  BY DEF UpdateOr, IInv, KnowsInv, Trying
<1>2. Head(ids[c]) \in Tried(c) /\ Tail(ids[c]) \in Seq(Tried(c))
  BY <1>1
<1>3. CASE \E o \in Usable(c, Head(ids[c])) : Writes(c, {o}, Write(o, c), "done", Head(ids[c])) /\ UNCHANGED fresh
  <2>1. PICK o \in Usable(c, Head(ids[c])) : Writes(c, {o}, Write(o, c), "done", Head(ids[c])) /\ UNCHANGED fresh
    BY <1>3
  <2>2. o \in objects /\ o.kind = c.kind /\ o.id = Head(ids[c])
    BY <2>1 DEF Usable, At
  <2>3. c.kind \in Listed => o.id = c.origin
    BY <1>2, <2>2 DEF Tried, Named, Listed
  <2>4. o.maker = c \/ o.id \in {c.origin, c.custom}
    <3>1. o.id \in {c.origin, c.custom, Own(c)}
      BY <1>2, <2>2, NameIds DEF Tried
    <3>2. o.id = Own(c) => o.maker = c
      BY <2>2 DEF IInv, ObjectInv, ObjectOk, MeantBy, Configs
    <3>. QED
      BY <3>1, <3>2
  <2>5. Writes(c, {o}, Write(o, c), "done", o.id) /\ UNCHANGED fresh
    BY <2>1, <2>2
  <2>. QED
    BY <1>1, <2>2, <2>3, <2>4, <2>5, OverwriteStep
<1>4. CASE /\ ids' = [ids EXCEPT ![c] = Tail(@)]
           /\ Become(c, IF Len(ids[c]) > 1 THEN "update" ELSE notFound)
           /\ UNCHANGED resolved /\ Local
  <2>. DEFINE s == IF Len(ids[c]) > 1 THEN "update" ELSE notFound
  <2>1. step'[c] = s /\ ids'[c] = Tail(ids[c]) /\ dry' = dry
    BY <1>4, StepsAlone DEF Local, IInv
  <2>2. s = "update" => Trying(c)'
    <3>1. Len(ids[c]) > 1 => Tail(ids[c]) # <<>>
      BY <1>1, TailLeft
    <3>. QED
      BY <1>2, <2>1, <3>1 DEF Trying
  <2>3. s = "create" => c.kind \notin Listed
    BY DEF Named, Listed
  <2>4. KnowsInv(c)'
    BY <1>1, <2>1, <2>2, <2>3 DEF KnowsInv, NoneMade
  <2>. QED
    BY <1>4, <2>4, Quietly
<1>. QED
  BY <1>3, <1>4 DEF UpdateOr

\* What a configuration finds by its id from outside is meant for it.
LEMMA MatchingIsOwn ==
    ASSUME IInv, NEW c \in Configs, c.kind \in Listed, NEW o \in Matching(c)
    PROVE  o \in objects /\ o.kind = c.kind /\ (o.maker = c \/ o.id = c.origin)
  BY DEF Matching, IInv, ObjectInv, ObjectOk, MeantBy, Configs

LEMMA NoMatchNoneMade ==
    ASSUME IInv, NEW c \in Configs, Matching(c) = {}
    PROVE  NoneMade(c)
  BY DEF Matching, NoneMade, IInv, ObjectInv, ObjectOk, MadeBy, Configs

LEMMA ListStep ==
    ASSUME IInv, Apart(case), NEW c \in Configs, c.kind \in {"segment", "slo"}, ListAmong(c, Matching(c))
    PROVE  IInv'
<1>1. step[c] = "list" /\ ~dry /\ UNCHANGED resolved /\ Local /\ c.kind \in Listed
  BY DEF ListAmong, Listed
<1>2. CASE Matching(c) = {} /\ Become(c, "create") /\ UNCHANGED ids
  <2>1. step'[c] = "create" /\ dry' = dry
    BY <1>1, <1>2, StepsAlone DEF Local
  <2>2. NoneMade(c)'
    BY <1>1, <1>2, NoMatchNoneMade DEF NoneMade, Local
  <2>3. KnowsInv(c)'
    BY <1>1, <2>1, <2>2 DEF KnowsInv
  <2>. QED
    BY <1>1, <1>2, <2>3, Quietly
<1>3. CASE \E o \in Matching(c) : Become(c, "match") /\ ids' = [ids EXCEPT ![c] = <<o.id>>]
  <2>1. PICK o \in Matching(c) : Become(c, "match") /\ ids' = [ids EXCEPT ![c] = <<o.id>>]
    BY <1>3
  <2>2. step'[c] = "match" /\ ids'[c] = <<o.id>> /\ UNCHANGED <<dry, objects, fresh>>
    BY <1>1, <2>1, StepsAlone DEF Local, IInv
  <2>3. Head(ids'[c]) = o.id
    BY <2>2
  <2>4. o \in objects /\ o.kind = c.kind /\ (o.maker = c \/ o.id = c.origin)
    BY <1>1, MatchingIsOwn
  <2>5. \A n \in Nat : o.id = Chosen(n) => n < fresh
    BY <2>4 DEF IInv, ObjectInv, ObjectOk
  <2>6. \A p \in objects : p.kind = c.kind /\ p.id = o.id => p = o
    BY <2>4 DEF IInv, UniqueInv
  <2>7. FoundOwn(c)'
    BY <1>1, <2>2, <2>3, <2>4, <2>5, <2>6 DEF FoundOwn, At
  <2>8. KnowsInv(c)'
    BY <1>1, <2>2, <2>7 DEF KnowsInv, Unimplemented
  <2>. QED
    BY <1>1, <2>1, <2>8, Quietly
<1>. QED
  BY <1>2, <1>3 DEF ListAmong

LEMMA MatchStep ==
    ASSUME IInv, Apart(case), NEW c \in Configs, Match(c)
    PROVE  IInv'
<1>1. PICK o \in Usable(c, Head(ids[c])) : Writes(c, {o}, Write(o, c), "done", o.id)
  BY DEF Match
<1>2. ~dry /\ UNCHANGED fresh /\ o \in objects /\ o.kind = c.kind /\ o.id = Head(ids[c]) /\ FoundOwn(c)
  BY DEF Match, Usable, At, IInv, KnowsInv
<1>3. o.maker = c \/ o.id = c.origin
  BY <1>2 DEF FoundOwn, At
<1>. QED
  BY <1>1, <1>2, <1>3, OverwriteStep

LEMMA CreateStep ==
    ASSUME IInv, Apart(case), NEW c \in Configs, NEW next \in {"done", "await created"}, Create(c, next)
    PROVE  IInv'
<1>1. /\ ~dry /\ NoneMade(c) /\ Writes(c, {}, NewObject(c), next, CreateId(c)) /\ fresh' = fresh + 1
      /\ At(c, CreateId(c)) = {}
  BY DEF Create, IInv, KnowsInv
<1>2. c.kind \in Named => At(c, NameId(c)) = {}
  BY <1>1, CreateIds DEF Apart, ConfigsApart, Configs
<1>. QED
  BY <1>1, <1>2, CreationStep

LEMMA ClientStep ==
    ASSUME IInv, Apart(case), NEW c \in Configs, Client(c)
    PROVE  IInv'
<1>1. ~dry /\ c.kind \in Listed /\ c.kind \notin Named
  BY DEF Client, IInv, KnowsInv, Listed, Named
<1>2. CASE Matching(c) = {}
  BY <1>1, <1>2, NoMatchNoneMade, CreationStep DEF Client
<1>3. CASE Matching(c) # {}
  <2>1. PICK o \in Matching(c) : Writes(c, {o}, Write(o, c), "done", o.id) /\ UNCHANGED fresh
    BY <1>3 DEF Client
  <2>2. o \in objects /\ o.kind = c.kind /\ (o.maker = c \/ o.id = c.origin)
    BY <1>1, MatchingIsOwn
  <2>. QED
    BY <1>1, <2>1, <2>2, OverwriteStep
<1>. QED
  BY <1>2, <1>3

LEMMA AwaitStep ==
    ASSUME IInv, Apart(case), NEW c \in Configs, Await(c)
    PROVE  IInv'
<1>1. PICK s \in {"update", "create"} : Become(c, s)
  BY DEF Await
<1>2. /\ step[c] = "await" /\ c.kind = "bucket" /\ Trying(c) /\ ~dry
      /\ UNCHANGED <<ids, resolved>> /\ Local
  BY DEF Await, IInv, KnowsInv
<1>3. step'[c] = s /\ UNCHANGED <<dry, ids>>
  BY <1>1, <1>2, StepsAlone DEF Local
<1>4. KnowsInv(c)'
  BY <1>2, <1>3 DEF KnowsInv, Trying, NoneMade, Listed
<1>. QED
  BY <1>1, <1>2, <1>4, Quietly

LEMMA AwaitCreatedStep ==
    ASSUME IInv, Apart(case), NEW c \in Configs, AwaitCreated(c)
    PROVE  IInv'
<1>1. /\ Become(c, "done") /\ ~dry /\ UNCHANGED <<ids, resolved>> /\ Local /\ step[c] = "await created"
  BY DEF AwaitCreated
<1>2. step'[c] = "done" /\ UNCHANGED <<dry, objects, gone>>
  BY <1>1, StepsAlone DEF Local
<1>3. HandedOn(c)'
  BY <1>1, <1>2 DEF IInv, KnowsInv, HandedOn, At
<1>4. KnowsInv(c)'
  BY <1>1, <1>2, <1>3 DEF KnowsInv
<1>. QED
  BY <1>1, <1>4, Quietly

-----------------------------------------------------------------------------
\* A dry run changes no object, and what it creates was made by others or not
\* at all.
LEMMA DryNoneMade ==
    ASSUME IInv, Apart(case), dry, NEW c \in Configs
    PROVE  NoneMade(c)
  BY DEF IInv, DryInv, NoneMade, Existing, Apart, ConfigsApart, ObjectsApart, Configs

LEMMA DummyBecomes ==
    ASSUME IInv, Apart(case), NEW c \in Configs, dry, UNCHANGED ids, Local,
           NEW s \in {"create", "await created", "done"}, Become(c, s), s = "create" => c.kind # "automation",
           resolved' = resolved \/ \E x : resolved' = [resolved EXCEPT ![c] = x]
    PROVE  IInv'
<1>1. step'[c] = s /\ dry' = dry
  BY StepsAlone DEF Local
<1>2. NoneMade(c)'
  BY DryNoneMade DEF NoneMade, Local
<1>3. KnowsInv(c)'
  BY <1>1, <1>2 DEF KnowsInv, Unimplemented
<1>. QED
  BY <1>3, Quietly

LEMMA DummyStep ==
    ASSUME IInv, Apart(case), NEW c \in Configs, Dummy(c)
    PROVE  IInv'
<1>1. dry /\ UNCHANGED ids /\ Local
  BY DEF Dummy, Local
<1>2. (Become(c, "create") /\ c.kind # "automation") \/ Become(c, "await created") \/ Become(c, "done")
  BY DEF Dummy, DummyAutomation, DummyBucket, DummyDocument, DummyOpenPipeline, DummySegmentOrSlo, Resolve
<1>3. resolved' = resolved \/ \E x : resolved' = [resolved EXCEPT ![c] = x]
  BY DEF Dummy, DummyAutomation, DummyBucket, DummyDocument, DummyOpenPipeline, DummySegmentOrSlo, Resolve
<1>4. CASE Become(c, "create") /\ c.kind # "automation"
  BY <1>1, <1>3, <1>4, DummyBecomes
<1>5. CASE Become(c, "await created")
  BY <1>1, <1>3, <1>5, DummyBecomes
<1>6. CASE Become(c, "done")
  BY <1>1, <1>3, <1>6, DummyBecomes
<1>. QED
  BY <1>2, <1>4, <1>5, <1>6

LEMMA DummyUpsertStep ==
    ASSUME IInv, Apart(case), NEW c \in Configs, DummyUpsert(c)
    PROVE  IInv'
<1>1. dry /\ step[c] = "client" /\ c.kind \in {"classic", "settings"} /\ UNCHANGED ids /\ Local
  BY DEF DummyUpsert, IInv, KnowsInv
<1>2. PICK s : Become(c, s) /\ s \in {"done", "store"} /\ (s = "store" => c.kind = "classic")
  BY <1>1 DEF DummyUpsert, Resolve
<1>3. resolved' = resolved \/ \E x : resolved' = [resolved EXCEPT ![c] = x]
  BY DEF DummyUpsert, Resolve
<1>4. step'[c] = s /\ dry' = dry
  BY <1>1, <1>2, <1>3, StepsAlone DEF Local
<1>5. KnowsInv(c)'
  BY <1>1, <1>2, <1>4 DEF KnowsInv, Unimplemented
<1>. QED
  BY <1>1, <1>2, <1>3, <1>5, Quietly

LEMMA StoreStep ==
    ASSUME IInv, Apart(case), NEW c \in Configs, StoreEntry(c)
    PROVE  IInv'
<1>1. /\ step[c] = "store" /\ c.kind = "classic" /\ c \in case.configs
      /\ entries' = entries \cup {[key |-> c.custom, by |-> c]}
      /\ Become(c, "done") /\ resolved' = [resolved EXCEPT ![c] = c.custom]
      /\ UNCHANGED <<case, dry, ids, objects, gone, fresh, rounds, deletes>>
  BY DEF StoreEntry, Resolve, IInv, KnowsInv, Configs
<1>2. Alone(c) /\ Evolves(c) /\ step'[c] = "done"
  BY <1>1, StepsAlone, NothingHappens
<1>3. EntryInv'
  BY <1>1 DEF IInv, EntryInv
<1>4. KnowsInv(c)'
  <2>1. dry
    BY <1>1 DEF IInv, KnowsInv
  <2>. QED
    BY <1>1, <1>2, <2>1 DEF KnowsInv, Unimplemented
<1>. QED
  BY <1>1, <1>2, <1>3, <1>4, Works

-----------------------------------------------------------------------------
\* Others, and the next deployment.
LEMMA OthersStep ==
    ASSUME IInv, Apart(case), NEW o \in objects, Delete(o) \/ BucketChanges(o)
    PROVE  IInv'
<1>1. UNCHANGED <<case, dry, step, ids, resolved, entries, fresh>> /\ gone \subseteq gone' /\ ~dry
  <2>1. BucketChanges(o) => ~dry
    BY DEF BucketChanges, IInv, DryInv, Existing, Apart, ObjectsApart
  <2>. QED
    BY <2>1 DEF Delete, BucketChanges
<1>2. ObjectOk(o, case, gone, fresh)
  BY DEF IInv, ObjectInv
<1>3. \A c : Evolves(c)
  <2>. TAKE c
  <2>1. CASE objects' = objects \ {o} /\ o.id \in gone'
    BY <1>1, <2>1, Removed
  <2>2. CASE \E s \in {"active", "deleting"} : /\ objects' = (objects \ {o}) \cup {[o EXCEPT !.state = s]}
                                               /\ s = "deleting" => o.id \in gone'
    BY <1>1, <2>2, Restated
  <2>3. CASE Delete(o)
    BY <2>1, <2>2, <2>3 DEF Delete
  <2>4. CASE BucketChanges(o)
    <3>1. CASE o.state = "creating"
      BY <2>2, <2>4, <3>1 DEF BucketChanges
    <3>2. CASE o.state # "creating"
      BY <1>1, <1>2, <2>1, <2>4, <3>2 DEF BucketChanges, ObjectOk
    <3>. QED
      BY <3>1, <3>2
  <2>. QED
    BY <2>3, <2>4
<1>4. \A c \in Configs : KnowsInv(c)'
  <2>. TAKE c \in Configs
  <2>1. Evolves(Nil) /\ c # Nil
    BY <1>3 DEF Apart, ConfigsApart, Configs
  <2>. QED
    BY <1>1, <2>1, OthersKnow
<1>5. EntryInv' /\ DryInv' /\ Configs' = Configs
  BY <1>1 DEF IInv, EntryInv, DryInv, Configs
<1>. QED
  BY <1>1, <1>3, <1>4, <1>5 DEF IInv, Evolves

LEMMA AgainStep ==
    ASSUME IInv, Again
    PROVE  IInv'
<1>1. /\ UNCHANGED <<case, dry, ids, objects, entries, gone, fresh>>
      /\ step' = [c \in Configs |-> "start"] /\ resolved' = [c \in Configs |-> Nil]
  BY DEF Again
<1>2. \A c \in Configs : KnowsInv(c)'
  BY <1>1 DEF KnowsInv, Unimplemented
<1>3. /\ ObjectInv' /\ UniqueInv' /\ DryInv' /\ EntryInv' /\ Configs' = Configs
      /\ DOMAIN step' = Configs /\ DOMAIN ids' = Configs /\ DOMAIN resolved' = Configs
  BY <1>1 DEF IInv, ObjectInv, UniqueInv, DryInv, EntryInv, Existing, Configs
<1>. QED
  BY <1>1, <1>2, <1>3 DEF IInv

-----------------------------------------------------------------------------
LEMMA InitInv == (\A k \in Cases : Apart(k)) /\ Init => IInv
<1>. SUFFICES ASSUME Init, Apart(case) PROVE IInv
  BY DEF Init
<1>1. ObjectInv
  <2>. SUFFICES ASSUME NEW o \in case.existing PROVE ObjectOk(o, case, {}, 0)
    BY DEF Init, ObjectInv, Existing
  <2>1. /\ IsObject(o) /\ o.maker = Nil /\ Nil \notin case.configs /\ o.writers = {} /\ o.state = "active"
        /\ \A n \in Nat : o.id # Chosen(n)
    BY DEF Apart, ConfigsApart, ObjectsApart
  <2>2. \A c \in case.configs : MeantBy(o, c)
    BY DEF Apart, ObjectsApart, MeantBy
  <2>. QED
    BY <2>1, <2>2 DEF ObjectOk
<1>2. UniqueInv
  BY DEF Init, UniqueInv, Existing, Apart, ConfigsApart, ObjectsApart
<1>3. \A c \in Configs : KnowsInv(c)
  BY DEF Init, KnowsInv, Unimplemented
<1>4. DryInv /\ EntryInv
  BY DEF Init, DryInv, EntryInv
<1>. QED
  BY <1>1, <1>2, <1>3, <1>4 DEF Init, IInv

LEMMA Step == (\A k \in Cases : Apart(k)) /\ IInv /\ [Next]_vars => IInv'
<1>. SUFFICES ASSUME IInv, Apart(case), [Next]_vars PROVE IInv'
  BY DEF IInv
<1>1. CASE \E c \in Configs :
               \/ Begin(c) \/ Fails(c) \/ Match(c) \/ Await(c) \/ AwaitCreated(c)
               \/ Dummy(c) \/ DummyUpsert(c) \/ StoreEntry(c)
  BY <1>1, BeginStep, FailsStep, MatchStep, AwaitStep, AwaitCreatedStep, DummyStep, DummyUpsertStep, StoreStep
<1>2. CASE \E c \in Configs :
               \/ UpdateAutomation(c) \/ UpdateBucket(c) \/ UpdateDocument(c) \/ UpdateOpenPipeline(c)
               \/ UpdateSlo(c) \/ UpdateSegment(c)
  <2>1. PICK c \in Configs, notFound \in {"create", "failed", "list"} :
            UpdateOr(c, notFound) /\ (notFound = "create" => c.kind \in Named)
    BY <1>2 DEF UpdateAutomation, UpdateBucket, UpdateDocument, UpdateOpenPipeline, UpdateSlo, UpdateSegment, Named
  <2>. QED
    BY <2>1, UpdateStep
<1>3. CASE \E c \in Configs : ListSegments(c) \/ ListSlos(c)
  BY <1>3, ListStep DEF ListSegments, ListSlos
<1>4. CASE \E c \in Configs :
               CreateAutomation(c) \/ CreateBucket(c) \/ CreateDocument(c) \/ CreateSegment(c) \/ CreateSlo(c)
  <2>1. PICK c \in Configs, next \in {"done", "await created"} : Create(c, next)
    BY <1>4 DEF CreateAutomation, CreateBucket, CreateDocument, CreateSegment, CreateSlo
  <2>. QED
    BY <2>1, CreateStep
<1>5. CASE \E c \in Configs : UpsertClassic(c) \/ UpsertSettings(c)
  BY <1>5, ClientStep DEF UpsertClassic, UpsertSettings
<1>6. CASE \E o \in objects : Delete(o) \/ BucketChanges(o)
  BY <1>6, OthersStep
<1>7. CASE Again
  BY <1>7, AgainStep
<1>8. CASE UNCHANGED vars
  <2>1. \A c \in Configs : KnowsInv(c)'
    <3>. TAKE c \in Configs
    <3>1. (Trying(c)' <=> Trying(c)) /\ (NoneMade(c)' <=> NoneMade(c))
      BY <1>8 DEF vars, Trying, NoneMade
    <3>2. (FoundOwn(c)' <=> FoundOwn(c)) /\ (HandedOn(c)' <=> HandedOn(c))
      BY <1>8 DEF vars, FoundOwn, HandedOn, At
    <3>. QED
      BY <1>8, <3>1, <3>2 DEF vars, IInv, KnowsInv, Unimplemented
  <2>. QED
    BY <1>8, <2>1 DEF vars, IInv, ObjectInv, UniqueInv, DryInv, EntryInv, Configs, Existing
<1>. QED
  BY <1>1, <1>2, <1>3, <1>4, <1>5, <1>6, <1>7, <1>8 DEF Next, Done

\* The inductive invariant of the deployers.
THEOREM Invariance == (\A k \in Cases : Apart(k)) => (Spec => []IInv)
<1>. SUFFICES ASSUME \A k \in Cases : Apart(k) PROVE Spec => []IInv
  OBVIOUS
<1>1. Init => IInv
  BY InitInv
<1>2. IInv /\ [Next]_vars => IInv'
  BY Step
<1>. QED
  BY <1>1, <1>2, PTL DEF Spec

-----------------------------------------------------------------------------
\* However often the configurations are deployed, whichever answers are lost,
\* whatever others delete in between and in whatever order the goroutines run,
\* no configuration makes a second object while its first is there; and a dry
\* run stores no second entry under a name (Deploy of all kinds, storeEntry).
THEOREM CreatesOnce == (\A k \in Cases : Apart(k)) => (Spec => []NothingCreatedTwice)
<1>. SUFFICES ASSUME \A k \in Cases : Apart(k) PROVE Spec => []NothingCreatedTwice
  OBVIOUS
<1>1. IInv => NothingCreatedTwice
  <2>. SUFFICES ASSUME IInv, Apart(case) PROVE NothingCreatedTwice
    BY DEF IInv
  <2>1. ASSUME NEW c \in Configs PROVE Cardinality({o \in objects : o.maker = c}) <= 1
    <3>. DEFINE M == {o \in objects : o.maker = c}
    <3>1. \A o, p \in M : o = p
      BY DEF IInv, UniqueInv, Configs
    <3>2. M = {} \/ \E o : M = {o}
      BY <3>1
    <3>3. Cardinality(M) <= 1
      <4>1. CASE M = {}
        BY <4>1, FS_EmptySet
      <4>2. CASE \E o : M = {o}
        <5>1. PICK o : M = {o}
          BY <4>2
        <5>2. Cardinality({o}) = 1
          BY FS_Singleton
        <5>. QED
          BY <5>1, <5>2
      <4>. QED
        BY <3>2, <4>1, <4>2
    <3>. QED
      BY <3>3
  <2>2. \A e, f \in entries : e.key = f.key => e = f
    BY DEF IInv, EntryInv, Apart, ConfigsApart
  <2>. QED
    BY <2>1, <2>2 DEF NothingCreatedTwice
<1>. QED
  BY <1>1, Invariance, PTL

\* The id that other configurations are given is that of an object which this
\* configuration has written, unless others have deleted it since; an object is
\* written by a configuration that made it or names its id and by no other;
\* a dry run changes nothing and calls nothing its clients do not have.
THEOREM DoneIsWritten == (\A k \in Cases : Apart(k)) => (Spec => []DoneMeansWritten)
<1>. SUFFICES ASSUME \A k \in Cases : Apart(k) PROVE Spec => []DoneMeansWritten
  OBVIOUS
<1>1. IInv => DoneMeansWritten
  BY DEF IInv, DryInv, KnowsInv, HandedOn, ObjectInv, ObjectOk, DoneMeansWritten
<1>. QED
  BY <1>1, Invariance, PTL

-----------------------------------------------------------------------------
(* Deletion: module Deletion. *)

\* The environments and places a deletion speaks of are those of its command.
RangeInv ==
    /\ command \in Deletions
    /\ waiting \subseteq Environs
    /\ current \in Environs \cup {None}
    /\ DOMAIN remote = Environs
    /\ types \subseteq AllTypes
    /\ work \subseteq DOMAIN Entries
    /\ stage \in {"next", "look", "scoped", "delete"}
    /\ erred \in BOOLEAN
    /\ \A r \in removed : r.env \in Environs

\* Objects only go, and take those below them along.
ShrunkTo(all, objs) ==
    /\ objs \subseteq all
    /\ \A p \in all \ objs : \A x \in objs : ~Below(p, x)
ShrunkInv == \A env \in Environs : ShrunkTo(command.objects[env], remote[env])

\* There is an entry at work except between two, and none in a purge; neither
\* it nor those to come are of a type still to come.
StageInv ==
    /\ current = None => types = {} /\ work = {} /\ stage = "next"
    /\ stage # "next" \/ work # {} => answer = None
    /\ stage = "next" => place = 0 /\ target = {}
    /\ stage \in {"look", "scoped"} => ~command.purge /\ target = {}
    /\ command.purge => place = 0 /\ work = {}
    /\ ~command.purge /\ stage # "next" => place \in DOMAIN Entries
    /\ \A w \in work \cup ({place} \ {0}) : Entries[w].type \notin types

\* The parent of an entry's object has been found, and is that of all objects
\* the entry means.
MeantHere == {o \in Here : Means(Entry, o, command.objects[current])}
ScopedInv ==
    stage = "scoped" =>
        /\ KindOf(Entry.type) = "classic"
        /\ HasParent(Entry.type) =>
              /\ \E p \in command.objects[current] :
                    p.type = ParentType(Entry.type) /\ p.id = parent /\ Entry.scope \in {p.name, p.id}
              /\ \A o \in MeantHere : o.parent = parent

\* What is deleted for an entry is named by it and alone in that, and all that
\* it means are among it.
Rightly(o) ==
    /\ MayMean(Entry, o, command.objects[current])
    /\ KindOf(o.type) = "classic" /\ Entry.origin = None =>
          \A x \in Here : x # o /\ x.type = o.type /\ x.parent = o.parent => ~HasName(x, Entry.ident, Entry.action)
TargetInv ==
    /\ \A o \in target : MayGo(o) /\ IF command.purge THEN o.type \in AllTypes ELSE Rightly(o)
    /\ stage = "delete" /\ ~command.purge /\ ~erred =>
          \A o \in MeantHere : o.deletable => o \in target

\* While no error has been counted, nothing is left of the types and entries
\* that have been dealt with; in a purge what is left is about to be deleted.
Dealt == {w \in DOMAIN Entries \ (work \cup {place}) :
             Entries[w].type \notin types /\ ~NonDeletable(Entries[w].type)}
LeftInv ==
    current # None /\ ~erred =>
        \A o \in Here :
            o.deletable /\ KindOf(o.type) \in command.clients[current] =>
                IF command.purge THEN o.type \in AllTypes \ types => o \in target
                ELSE \A w \in Dealt : ~Means(Entries[w], o, command.objects[current])

DeletionInv == RangeInv /\ ShrunkInv /\ StageInv /\ ScopedInv /\ TargetInv /\ LeftInv /\ DeletesWhatIsNamed
-----------------------------------------------------------------------------
\* Among fewer objects a name still finds what it found and is left.
LEMMA FindUniqueShrinks ==
    ASSUME NEW V, NEW W \in SUBSET V, NEW name, NEW action, NEW o \in W, o \in FindUnique(V, name, action)
    PROVE  o \in FindUnique(W, name, action)
BY DEF FindUnique, ByName, ById

\* What a name finds has it as its name or id, and all that have it as their
\* name are found.
LEMMA FindUniqueNames ==
    ASSUME NEW V, NEW name, NEW action
    PROVE  /\ \A o \in FindUnique(V, name, action) :
                  o \in V /\ (HasName(o, name, action) \/ (name = o.id /\ ~HasCheckEqual(o.type)))
           /\ \A o \in V : HasName(o, name, action) => o \in FindUnique(V, name, action)
BY DEF FindUnique, ByName, ById

\* Without one object and those below it the rest is still a rest.
LEMMA WithoutShrinks ==
    ASSUME NEW all, NEW objs, ShrunkTo(all, objs), NEW o \in objs
    PROVE  ShrunkTo(all, Without(objs, o)) /\ Without(objs, o) \subseteq objs
<1> SUFFICES ASSUME NEW p \in all, p \notin Without(objs, o), NEW x \in Without(objs, o), Below(p, x)
             PROVE  FALSE
    BY DEF ShrunkTo, Without
<1>1. x \in objs /\ ~Below(o, x)
    BY DEF Without
<1>2. p \in objs /\ p # o
    BY <1>1 DEF ShrunkTo
<1>3. HasParent(p.type)
    BY <1>2 DEF Without, Below
<1>4. p.type \in {"key-user-action", "web-action"} /\ p.type = "application"
    BY <1>3 DEF Below, HasParent, ParentType
<1> QED BY <1>4

\* What a delete file is said to have done depends on these variables only.
LEMMA NamedFrame ==
    ASSUME DeletesWhatIsNamed,
           UNCHANGED <<command, waiting, current, remote, removed, failedEnvs, answer>>
    PROVE  DeletesWhatIsNamed'
BY DEF DeletesWhatIsNamed, OnlyNamed, Clean, AllTypes, PurgedTypes, NamedTypes, Entries, Environs

-----------------------------------------------------------------------------
\* What an entry has been resolved to: all that it means and nothing that it
\* does not name, or what shares its name.
FoundRight(found) ==
    /\ \A o \in found : Rightly(o)
    /\ \A o \in MeantHere : o \in found

\* An entry is dealt with or becomes a deletion.
Settles ==
    /\ stage \in {"look", "scoped"} /\ SameType
    /\ \/ Leave(TRUE)
       \/ Leave(FALSE) /\ \A o \in MeantHere : ~o.deletable
       \/ /\ stage' = "delete" /\ UNCHANGED <<place, parent, erred, remote, removed>>
          /\ \A o \in target' : MayGo(o) /\ Rightly(o)
          /\ \A o \in MeantHere : o.deletable => o \in target'

LEMMA FindSettles ==
    ASSUME NEW found, FoundRight(found), Find(found), stage \in {"look", "scoped"}, SameType
    PROVE  Settles
<1> DEFINE going == {o \in found : MayGo(o)}
<1>1. \A o \in MeantHere : o.deletable => o \in going
    BY DEF FoundRight, MayGo, IsDeletable, IsDefault
<1>2. CASE going = {}
    BY <1>1, <1>2 DEF Find, Settles
<1>3. CASE going # {}
    BY <1>1, <1>3 DEF Find, Settles, FoundRight
<1> QED BY <1>2, <1>3

LEMMA OnlyOneSettles ==
    ASSUME NEW found, \A o \in found : found = {o} => Rightly(o), \A o \in MeantHere : o \in found,
           OnlyOne(found), stage \in {"look", "scoped"}, SameType
    PROVE  Settles
<1>1. CASE found = {} /\ Leave(FALSE)
    BY <1>1 DEF Settles
<1>2. CASE Leave(TRUE)
    BY <1>2 DEF Settles
<1>3. CASE (\E o \in found : found = {o}) /\ Find(found)
    <2>1. FoundRight(found)
        BY <1>3 DEF FoundRight
    <2> QED BY <1>3, <2>1, FindSettles
<1> QED BY <1>1, <1>2, <1>3 DEF OnlyOne

\* A resolved entry keeps the invariant.
LEMMA SettlesKeeps ==
    ASSUME DeletionInv, Settles
    PROVE  DeletionInv'
<1> USE DEF Settles, SameType, Between
<1> USE DEF Entries, Environs
<1>0. UNCHANGED <<command, waiting, current, remote, removed, failedEnvs, answer, types, work>>
    BY DEF Leave
<1>1. UNCHANGED <<Here, AllTypes>>
    BY <1>0 DEF Here, AllTypes, PurgedTypes, NamedTypes
<1>2. ~command.purge /\ place \in DOMAIN Entries /\ current # None
    BY DEF DeletionInv, StageInv
<1>3. RangeInv'
    BY <1>0, <1>1 DEF DeletionInv, RangeInv, Leave
<1>4. ShrunkInv'
    BY <1>0 DEF DeletionInv, ShrunkInv
<1>5. StageInv'
    BY <1>0, <1>2 DEF DeletionInv, StageInv, Leave, RangeInv
<1>6. ScopedInv'
    BY DEF ScopedInv, Leave
<1>7. TargetInv'
    BY <1>0, <1>1, <1>2 DEF TargetInv, Leave, Rightly, MeantHere, Entry
<1>8. LeftInv'
    <2> SUFFICES ASSUME ~erred', NEW o \in Here, o.deletable, KindOf(o.type) \in command.clients[current],
                        NEW w \in Dealt', Means(Entries[w], o, command.objects[current])
                 PROVE  FALSE
        BY <1>0, <1>1, <1>2 DEF LeftInv
    <2>1. ~erred
        BY DEF Leave
    <2>2. w \in Dealt \/ (w = place /\ place' # place)
        BY <1>0, <1>2 DEF Dealt
    <2>3. CASE w \in Dealt
        BY <2>1, <2>3, <1>2 DEF DeletionInv, LeftInv
    <2>4. CASE w = place /\ place' # place
        BY <2>4, <2>1, <1>2 DEF MeantHere, Entry, Leave
    <2> QED BY <2>2, <2>3, <2>4
<1>9. DeletesWhatIsNamed'
    BY <1>0, NamedFrame DEF DeletionInv
<1> QED BY <1>3, <1>4, <1>5, <1>6, <1>7, <1>8, <1>9 DEF DeletionInv

-----------------------------------------------------------------------------
\* An entry is resolved rightly, whatever its type.
LEMMA ResolveKeeps ==
    ASSUME DeletionInv, ResolveEntry
    PROVE  DeletionInv'
<1> USE DEF DeletionInv
<1> DEFINE all == command.objects[current]
<1>0. Here \subseteq all /\ \A p \in all \ Here : \A x \in Here : ~Below(p, x)
    <2>1. current \in Environs
        BY DEF StageInv, RangeInv, ResolveEntry, ResolveParent, NoParent, ResolveClassic, ResolveSettings, ResolveSegment,
               ResolveSlo, ResolveAutomation, ResolveDocument, ResolveBucket, Working
    <2> QED BY <2>1 DEF ShrunkInv, ShrunkTo, Here
<1>1. ASSUME NEW kind \in {"settings", "segment", "slo", "automation", "document", "bucket"}, Working(kind, "look")
      PROVE  /\ FoundRight(ByCoordinate(Entry))
             /\ Entry.origin = None => \A o \in MeantHere : o \in ByExternal(Entry)
             /\ Entry.origin = None => \A o \in ByExternal(Entry) : Rightly(o)
             /\ Entry.origin # None => FoundRight(ByOrigin(Entry))
    <2>1. KindOf(Entry.type) # "classic"
        BY <1>1 DEF Working
    <2>2. ~HasParent(Entry.type)
        BY <2>1 DEF HasParent, ParentType, KindOf, Automations
    <2>3. \A o \in ByCoordinate(Entry) : Rightly(o)
        BY <2>1, <2>2 DEF ByCoordinate, ByOrigin, ByExternal, Rightly, MayMean
    <2>4. \A o \in MeantHere : o \in ByCoordinate(Entry)
        BY <2>1, <2>2 DEF ByCoordinate, ByOrigin, ByExternal, MeantHere, Means
    <2> QED BY <2>3, <2>4 DEF FoundRight, ByCoordinate
<1>2. CASE ResolveParent
    <2> DEFINE found == FindUnique(Values(Here, ParentType(Entry.type), None), Entry.scope, None)
    <2>1. \A o \in MeantHere : \E p \in found : p.id = o.parent
        <3> SUFFICES ASSUME NEW o \in MeantHere
                     PROVE  \E p \in found : p.id = o.parent
            OBVIOUS
        <3>1. PICK p \in FindUnique(Values(all, ParentType(Entry.type), None), Entry.scope, None) : p.id = o.parent
            BY <1>2 DEF MeantHere, Means, ResolveParent
        <3>2. p \in Values(all, ParentType(Entry.type), None)
            BY <3>1, FindUniqueNames
        <3>3. o \in Here /\ o.type = Entry.type
            BY DEF MeantHere, Means
        <3>4. Below(p, o)
            BY <1>2, <3>1, <3>2, <3>3 DEF ResolveParent, Below, Values
        <3>5. p \in Here
            BY <1>0, <3>2, <3>3, <3>4 DEF Values
        <3>6. p \in Values(Here, ParentType(Entry.type), None)
            BY <3>2, <3>5 DEF Values
        <3>7. Values(Here, ParentType(Entry.type), None) \subseteq Values(all, ParentType(Entry.type), None)
            BY <1>0 DEF Values
        <3> QED BY <3>1, <3>6, <3>7, FindUniqueShrinks
    <2>2. CASE found = {} /\ Leave(FALSE)
        <3>1. Settles
            BY <1>2, <2>1, <2>2 DEF Settles, ResolveParent, Working
        <3> QED BY <3>1, SettlesKeeps
    <2>3. CASE Leave(TRUE)
        <3>1. Settles
            BY <1>2, <2>3 DEF Settles, ResolveParent, Working
        <3> QED BY <3>1, SettlesKeeps
    <2>4. ASSUME NEW p \in found, found = {p}, parent' = p.id, stage' = "scoped",
                 UNCHANGED <<place, target, erred, remote, removed>>
          PROVE  DeletionInv'
        <3> USE <2>4
        <3>1. UNCHANGED <<command, waiting, current, failedEnvs, answer, types, work>>
            BY <1>2 DEF ResolveParent, Working, SameType, Between
        <3>2. stage = "look" /\ KindOf(Entry.type) = "classic" /\ HasParent(Entry.type)
            BY <1>2 DEF ResolveParent, Working
        <3>3. UNCHANGED <<Here, Entry, AllTypes, MeantHere, Dealt>>
            BY <3>1 DEF Here, Entry, Entries, AllTypes, PurgedTypes, NamedTypes, MeantHere, Dealt
        <3>4. p \in Here /\ p.type = ParentType(Entry.type) /\ Entry.scope \in {p.name, p.id}
            BY FindUniqueNames DEF Values, HasName
        <3>5. RangeInv' /\ ShrunkInv'
            BY <3>1, <3>3 DEF RangeInv, ShrunkInv, Environs, Entries
        <3>6. StageInv'
            BY <3>1, <3>2 DEF StageInv, Entries
        <3>7. ScopedInv'
            BY <1>0, <2>1, <3>1, <3>2, <3>3, <3>4 DEF ScopedInv
        <3>8. TargetInv'
            BY <3>1, <3>2, <3>3 DEF TargetInv, StageInv
        <3>9. LeftInv'
            BY <3>1, <3>3 DEF LeftInv, Entries
        <3>10. DeletesWhatIsNamed'
            BY <3>1, NamedFrame
        <3> QED BY <3>5, <3>6, <3>7, <3>8, <3>9, <3>10
    <2> QED BY <1>2, <2>2, <2>3, <2>4 DEF ResolveParent
<1>3. CASE NoParent
    <2>1. UNCHANGED <<command, waiting, current, failedEnvs, answer, types, work, place, parent, target, erred, remote, removed>>
        BY <1>3 DEF NoParent, Working, SameType, Between
    <2>2. stage = "look" /\ stage' = "scoped" /\ KindOf(Entry.type) = "classic" /\ ~HasParent(Entry.type)
        BY <1>3 DEF NoParent, Working
    <2>3. UNCHANGED <<Here, Entry, AllTypes, MeantHere, Dealt>>
        BY <2>1 DEF Here, Entry, Entries, AllTypes, PurgedTypes, NamedTypes, MeantHere, Dealt
    <2>4. RangeInv' /\ ShrunkInv' /\ StageInv'
        BY <2>1, <2>2, <2>3 DEF RangeInv, ShrunkInv, StageInv, Environs, Entries
    <2>5. ScopedInv' /\ TargetInv' /\ LeftInv'
        BY <2>1, <2>2, <2>3 DEF ScopedInv, TargetInv, LeftInv, Entries, StageInv
    <2>6. DeletesWhatIsNamed'
        BY <2>1, NamedFrame
    <2> QED BY <2>4, <2>5, <2>6
<1>4. CASE ResolveClassic
    <2> DEFINE values == Values(Here, Entry.type, parent)
               found  == FindUnique(values, Entry.ident, Entry.action)
               byId   == {o \in values : o.id = Entry.origin}
    <2>1. stage = "scoped" /\ KindOf(Entry.type) = "classic" /\ SameType
        BY <1>4 DEF ResolveClassic, Working
    <2>2. ASSUME NEW o \in values
          PROVE  /\ o \in Here /\ o.type = Entry.type
                 /\ HasParent(Entry.type) =>
                       \E p \in all : p.type = ParentType(Entry.type) /\ p.id = o.parent /\ Entry.scope \in {p.name, p.id}
        BY <2>1 DEF Values, ScopedInv
    <2>3. ASSUME NEW o \in MeantHere
          PROVE  o \in values /\ Values(all, Entry.type, o.parent) \subseteq Values(all, Entry.type, parent)
        BY <2>1 DEF MeantHere, Means, Values, ScopedInv
    <2>4. CASE Entry.origin # None
        <3>1. \A o \in byId : Rightly(o)
            BY <2>2, <2>4 DEF Rightly, MayMean
        <3>2. \A o \in MeantHere : o \in byId
            BY <2>3, <2>4 DEF MeantHere, Means
        <3>3. FoundRight(byId) /\ Find(byId)
            BY <1>4, <2>4, <3>1, <3>2 DEF FoundRight, ResolveClassic
        <3> QED BY <2>1, <3>3, FindSettles, SettlesKeeps
    <2>5. CASE Entry.origin = None
        <3>1. \A o \in MeantHere : o \in found
            <4> SUFFICES ASSUME NEW o \in MeantHere
                         PROVE  o \in found
                OBVIOUS
            <4>1. o \in FindUnique(Values(all, Entry.type, o.parent), Entry.ident, Entry.action)
                BY <2>1, <2>5 DEF MeantHere, Means
            <4>2. values \subseteq Values(all, Entry.type, o.parent)
                BY <1>0, <2>1 DEF Values, ScopedInv
            <4> QED BY <2>3, <4>1, <4>2, FindUniqueShrinks
        <3>2. ASSUME NEW o \in found, found = {o}
              PROVE  Rightly(o)
            <4>1. /\ o \in values
                  /\ HasName(o, Entry.ident, Entry.action) \/ (Entry.ident = o.id /\ ~HasCheckEqual(o.type))
                BY FindUniqueNames
            <4>2. MayMean(Entry, o, all)
                BY <2>1, <2>2, <2>5, <4>1 DEF MayMean
            <4>3. ASSUME NEW x \in Here, x # o, x.type = o.type, x.parent = o.parent, HasName(x, Entry.ident, Entry.action)
                  PROVE  FALSE
                <5>1. x \in values
                    BY <4>1, <4>3 DEF Values
                <5>2. x \in found
                    BY <4>3, <5>1, FindUniqueNames
                <5> QED BY <3>2, <4>3, <5>2
            <4> QED BY <4>2, <4>3 DEF Rightly
        <3>3. CASE found = {} /\ Leave(FALSE)
            <4>1. Settles
                BY <2>1, <3>1, <3>3 DEF Settles
            <4> QED BY <4>1, SettlesKeeps
        <3>4. CASE OnlyOne(found)
            <4>1. Settles
                BY <2>1, <3>1, <3>2, <3>4, OnlyOneSettles
            <4> QED BY <4>1, SettlesKeeps
        <3> QED BY <1>4, <2>5, <3>3, <3>4 DEF ResolveClassic, MatchesOf
    <2> QED BY <2>4, <2>5
<1>5. CASE ResolveSettings \/ ResolveAutomation \/ ResolveDocument \/ ResolveBucket
    <2>1. FoundRight(ByCoordinate(Entry)) /\ Find(ByCoordinate(Entry)) /\ stage = "look" /\ SameType
        BY <1>1, <1>5 DEF ResolveSettings, ResolveAutomation, ResolveDocument, ResolveBucket, Working
    <2> QED BY <2>1, FindSettles, SettlesKeeps
<1>6. CASE ResolveSegment \/ ResolveSlo
    <2>1. ByIdOrOnly(Entry) /\ stage = "look" /\ SameType
        BY <1>6 DEF ResolveSegment, ResolveSlo, Working
    <2>2. CASE Entry.origin # None
        <3>1. FoundRight(ByOrigin(Entry)) /\ Find(ByOrigin(Entry))
            BY <1>1, <1>6, <2>1, <2>2 DEF ResolveSegment, ResolveSlo, ByIdOrOnly
        <3> QED BY <2>1, <3>1, FindSettles, SettlesKeeps
    <2>3. CASE Entry.origin = None
        <3>1. /\ \A o \in MeantHere : o \in ByExternal(Entry)
              /\ \A o \in ByExternal(Entry) : Rightly(o)
              /\ OnlyOne(ByExternal(Entry))
            BY <1>1, <1>6, <2>1, <2>3 DEF ResolveSegment, ResolveSlo, ByIdOrOnly
        <3> QED BY <2>1, <3>1, OnlyOneSettles, SettlesKeeps
    <2> QED BY <2>2, <2>3
<1> QED BY <1>2, <1>3, <1>4, <1>5, <1>6 DEF ResolveEntry

-----------------------------------------------------------------------------
\* The next environment has everything still to come.
LEMMA BeginKeeps ==
    ASSUME DeletionInv, NEW env \in waiting, BeginEnvironment(env)
    PROVE  DeletionInv'
<1> USE DEF DeletionInv, BeginEnvironment
<1>0. command \in Deletions /\ env \in Environs /\ None \notin Environs /\ remote' = remote /\ removed' = removed /\ command' = command
    BY DeletionsAssumption DEF RangeInv, Environs
<1>1. UNCHANGED <<Environs, Entries, AllTypes>>
    BY <1>0 DEF Environs, Entries, AllTypes, PurgedTypes, NamedTypes
<1>2. stage = "next" /\ stage' = "next" /\ work = {} /\ place = 0 /\ target = {} /\ types = {}
    BY DEF StageInv
<1>3. RangeInv' /\ ShrunkInv'
    BY <1>0, <1>1, <1>2 DEF RangeInv, ShrunkInv
<1>4. StageInv'
    BY <1>0, <1>1, <1>2 DEF StageInv
<1>5. ScopedInv' /\ TargetInv'
    BY <1>2 DEF ScopedInv, TargetInv
<1>6. LeftInv'
    <2> SUFFICES ASSUME current' # None, NEW o \in Here', o.deletable
                 PROVE  IF command.purge THEN o.type \notin AllTypes \ types'
                        ELSE Dealt' = {}
        BY <1>0, <1>1 DEF LeftInv
    <2>1. types' = AllTypes
        OBVIOUS
    <2>2. CASE command.purge
        BY <2>1, <2>2
    <2>3. CASE ~command.purge
        <3>1. \A w \in DOMAIN Entries : ~NonDeletable(Entries[w].type) => Entries[w].type \in AllTypes
            BY <2>3 DEF AllTypes, NamedTypes
        <3> QED BY <1>1, <2>1, <2>3, <3>1 DEF Dealt
    <2> QED BY <2>2, <2>3
<1>7. DeletesWhatIsNamed'
    <2>1. OnlyNamed'
        BY <1>0, <1>1 DEF DeletesWhatIsNamed, OnlyNamed
    <2>2. Environs' \ (waiting' \cup failedEnvs' \cup {current'}) \subseteq Environs \ (waiting \cup failedEnvs \cup {current})
        BY <1>0, <1>1 DEF RangeInv
    <2>3. \A e \in Environs : Clean(e) => Clean(e)'
        BY <1>0, <1>1 DEF Clean
    <2> QED BY <2>1, <2>2, <2>3 DEF DeletesWhatIsNamed
<1> QED BY <1>3, <1>4, <1>5, <1>6, <1>7

\* The entries of a type are still to come when its turn is; those of a type
\* without a client are as good as dealt with.
LEMMA NextTypeKeeps ==
    ASSUME DeletionInv, NEW t \in types, NextType(t)
    PROVE  DeletionInv'
<1> USE DEF DeletionInv, NextType, Turned, Between
<1>1. UNCHANGED <<Environs, Entries, AllTypes, Here, Entry>>
    BY DEF Environs, Entries, AllTypes, PurgedTypes, NamedTypes, Here, Entry
<1>2. stage = "next" /\ stage' = "next" /\ work = {} /\ place = 0 /\ target = {} /\ ~command.purge
    BY DEF StageInv
<1>3. RangeInv' /\ ShrunkInv'
    BY <1>1 DEF RangeInv, ShrunkInv
<1>4. StageInv'
    BY <1>1, <1>2 DEF StageInv
<1>5. ScopedInv' /\ TargetInv'
    BY <1>2 DEF ScopedInv, TargetInv
<1>6. LeftInv'
    <2> SUFFICES ASSUME ~erred, NEW o \in Here, o.deletable, KindOf(o.type) \in command.clients[current],
                        NEW w \in Dealt', Means(Entries[w], o, command.objects[current])
                 PROVE  FALSE
        BY <1>1, <1>2 DEF LeftInv
    <2>1. w \in Dealt \/ (Entries[w].type = t /\ ~HasDeleter(t))
        BY <1>1, <1>2 DEF Dealt
    <2>2. CASE w \in Dealt
        BY <1>2, <2>2 DEF LeftInv
    <2>3. CASE Entries[w].type = t /\ ~HasDeleter(t)
        BY <2>3 DEF Means, HasDeleter
    <2> QED BY <2>1, <2>2, <2>3
<1>7. DeletesWhatIsNamed'
    BY NamedFrame
<1> QED BY <1>3, <1>4, <1>5, <1>6, <1>7

\* An entry at work is not dealt with yet.
LEMMA NextEntryKeeps ==
    ASSUME DeletionInv, NEW w \in work, NextEntry(w)
    PROVE  DeletionInv'
<1> USE DEF DeletionInv, NextEntry, Between
<1>1. UNCHANGED <<Environs, Entries, AllTypes, Here>>
    BY DEF Environs, Entries, AllTypes, PurgedTypes, NamedTypes, Here
<1>2. place = 0 /\ target = {} /\ ~command.purge /\ current # None /\ w \in DOMAIN Entries
    BY DEF StageInv, RangeInv
<1>3. RangeInv' /\ ShrunkInv'
    BY <1>1 DEF RangeInv, ShrunkInv
<1>4. StageInv'
    BY <1>1, <1>2 DEF StageInv
<1>5. ScopedInv' /\ TargetInv'
    BY <1>2 DEF ScopedInv, TargetInv
<1>6. Dealt' \subseteq Dealt
    BY <1>1, <1>2, DeletionsAssumption DEF Dealt, RangeInv, Entries
<1>7. LeftInv'
    BY <1>1, <1>2, <1>6 DEF LeftInv
<1>8. DeletesWhatIsNamed'
    BY NamedFrame
<1> QED BY <1>3, <1>4, <1>5, <1>7, <1>8

\* What is left of a purged type is about to be deleted, or an error has been
\* counted, or there is no client for it.
LEMMA PurgeKeeps ==
    ASSUME DeletionInv, NEW t \in types, PurgeType(t)
    PROVE  DeletionInv'
<1> DEFINE found == {o \in Here : o.type = t}
           going == {o \in found : MayGo(o)}
<1>1. Purging(t) /\ (Leave(TRUE) \/ (~HasDeleter(t) /\ Leave(FALSE)) \/ Find(found))
    BY DEF PurgeType, SkipPurger, Purges, OfType, PurgeClassic, PurgeSettings, PurgeAutomation, PurgeBuckets,
           PurgeDocuments, PurgeSegments, PurgeSlos
<1> HIDE DEF found
<1> USE DEF DeletionInv
<1>2. /\ UNCHANGED <<command, waiting, current, failedEnvs, answer, work, remote, removed, Environs, Entries, AllTypes, Here>>
      /\ types' = types \ {t} /\ command.purge /\ current # None /\ answer = None /\ stage = "next" /\ work = {} /\ target = {}
      /\ place = 0 /\ place' = 0
    BY <1>1 DEF Purging, Turned, Between, Leave, Find, StageInv, Environs, Entries, AllTypes, PurgedTypes, NamedTypes, Here
<1>3. /\ (stage' = "next" /\ target' = {}) \/ (stage' = "delete" /\ target' = going)
      /\ erred' \in BOOLEAN
      /\ ~erred' => ~erred /\ (~HasDeleter(t) \/ target' = going)
    <2>1. CASE Leave(TRUE)
        BY <2>1, <1>2 DEF Leave
    <2>2. CASE ~HasDeleter(t) /\ Leave(FALSE)
        BY <2>2, <1>2 DEF Leave, RangeInv
    <2>3. CASE Find(found) /\ going = {}
        BY <2>3, <1>2 DEF Find, Leave, RangeInv
    <2>4. CASE Find(found) /\ going # {}
        BY <2>4, <1>2 DEF Find, RangeInv
    <2> QED BY <1>1, <2>1, <2>2, <2>3, <2>4
<1>4. RangeInv' /\ ShrunkInv'
    BY <1>2, <1>3 DEF RangeInv, ShrunkInv
<1>5. StageInv'
    BY <1>2, <1>3 DEF StageInv
<1>6. ScopedInv' /\ TargetInv'
    BY <1>2, <1>3 DEF ScopedInv, TargetInv, RangeInv, found
<1>7. LeftInv'
    <2> SUFFICES ASSUME ~erred', NEW o \in Here, o.deletable, KindOf(o.type) \in command.clients[current],
                        o.type \in AllTypes \ types'
                 PROVE  o \in target'
        BY <1>2 DEF LeftInv
    <2>1. CASE o.type = t
        BY <1>2, <1>3, <2>1 DEF HasDeleter, found, MayGo, IsDeletable, IsDefault
    <2>2. CASE o.type # t
        BY <1>2, <1>3, <2>2 DEF LeftInv
    <2> QED BY <2>1, <2>2
<1>8. DeletesWhatIsNamed'
    BY <1>2, NamedFrame
<1> QED BY <1>4, <1>5, <1>6, <1>7, <1>8

-----------------------------------------------------------------------------
\* A failed request leaves an error, and the entry is done with.
LEMMA FailsKeeps ==
    ASSUME DeletionInv, EntryFails
    PROVE  DeletionInv'
BY SettlesKeeps DEF EntryFails, Settles

\* What goes was named, and what is left was not meant or is still a target.
LEMMA DeleteKeeps ==
    ASSUME DeletionInv, NEW o \in target, DeleteObject(o)
    PROVE  DeletionInv'
<1> USE DEF DeletionInv, SameType, Between
<1>0. /\ UNCHANGED <<command, waiting, current, failedEnvs, answer, types, work, Environs, Entries, AllTypes>>
      /\ stage = "delete" /\ NextTarget(o) /\ target' = target \ {o}
    BY DEF DeleteObject, NextTarget, Environs, Entries, AllTypes, PurgedTypes, NamedTypes
<1>1. current \in Environs /\ current # None /\ answer = None
    BY <1>0 DEF StageInv, RangeInv
<1>2. /\ \/ stage' = "next" /\ place' = 0 /\ target' = {}
         \/ stage' = "delete" /\ UNCHANGED <<place, Entry>>
    BY <1>0 DEF NextTarget, Entry
<1>3. \/ /\ remote' = [remote EXCEPT ![current] = Without(Here, o)] /\ o \in Here
         /\ removed' = removed \cup {[env |-> current, object |-> o, place |-> place]}
         /\ ~erred' => ~erred
      \/ /\ UNCHANGED <<remote, removed>> /\ (~erred' => o \notin Here /\ ~erred)
    BY DEF DeleteObject, RangeInv
<1>4. erred' \in BOOLEAN /\ (~erred' => ~erred)
    <2>1. erred \in BOOLEAN
        BY DEF RangeInv
    <2>2. CASE erred' \in {erred, TRUE}
        BY <2>1, <2>2
    <2>3. CASE erred' = erred \/ erred' = TRUE
        BY <2>1, <2>3
    <2> QED BY <2>2, <2>3 DEF DeleteObject
<1>5. /\ DOMAIN remote' = Environs /\ \A env \in Environs : remote'[env] \subseteq remote[env]
      /\ Here' \subseteq Here /\ (~erred' => o \notin Here')
      /\ ShrunkInv'
    <2>1. CASE UNCHANGED <<remote, removed>> /\ (~erred' => o \notin Here)
        BY <1>0, <2>1 DEF ShrunkInv, RangeInv, Here
    <2>2. CASE remote' = [remote EXCEPT ![current] = Without(Here, o)] /\ o \in Here
        <3>1. ShrunkTo(command.objects[current], Without(Here, o)) /\ Without(Here, o) \subseteq Here
            BY <1>1, <2>2, WithoutShrinks DEF ShrunkInv, Here
        <3>2. Here' = Without(Here, o) /\ o \notin Here'
            BY <1>0, <1>1, <2>2 DEF Here, RangeInv, Without
        <3> QED BY <1>0, <1>1, <2>2, <3>1, <3>2 DEF ShrunkInv, RangeInv, Here
    <2> QED BY <1>3, <2>1, <2>2
<1>6. RangeInv'
    BY <1>0, <1>1, <1>2, <1>3, <1>4, <1>5 DEF RangeInv
<1>7. StageInv'
    BY <1>0, <1>1, <1>2 DEF StageInv
<1>8. ScopedInv'
    BY <1>2 DEF ScopedInv
<1>9. TargetInv'
    <2>1. CASE target' = {} /\ stage' = "next"
        BY <2>1 DEF TargetInv
    <2>2. CASE UNCHANGED <<place, Entry>>
        <3>1. \A x \in target' : MayGo(x) /\ IF command.purge THEN x.type \in AllTypes ELSE Rightly(x)'
            BY <1>0, <1>5, <2>2 DEF TargetInv, Rightly
        <3>2. ~erred' => \A x \in MeantHere' : x \in MeantHere /\ x # o
            BY <1>0, <1>5, <2>2 DEF MeantHere
        <3> QED BY <1>0, <1>4, <3>1, <3>2 DEF TargetInv
    <2> QED BY <1>2, <2>1, <2>2
<1>10. LeftInv'
    <2> SUFFICES ASSUME ~erred', NEW x \in Here', x.deletable, KindOf(x.type) \in command.clients[current]
                 PROVE  IF command.purge THEN x.type \in AllTypes \ types => x \in target'
                        ELSE \A w \in Dealt' : ~Means(Entries[w], x, command.objects[current])
        BY <1>0, <1>1 DEF LeftInv
    <2>1. x \in Here /\ x # o /\ ~erred
        BY <1>4, <1>5
    <2>2. CASE command.purge
        BY <1>0, <1>1, <2>1, <2>2 DEF LeftInv
    <2>3. CASE ~command.purge
        <3> SUFFICES ASSUME NEW w \in Dealt', Means(Entries[w], x, command.objects[current])
                     PROVE  FALSE
            BY <2>3
        <3>1. w \in Dealt \/ (w = place /\ target' = {})
            BY <1>0, <1>2 DEF Dealt
        <3>2. CASE w \in Dealt
            BY <1>1, <2>1, <2>3, <3>2 DEF LeftInv
        <3>3. CASE w = place /\ target' = {}
            BY <1>0, <2>1, <2>3, <3>3 DEF TargetInv, MeantHere, Entry
        <3> QED BY <3>1, <3>2, <3>3
    <2> QED BY <2>2, <2>3
<1>11. DeletesWhatIsNamed'
    <2>1. OnlyNamed'
        <3> SUFFICES ASSUME NEW r \in removed'
                     PROVE  /\ MayGo(r.object)
                            /\ ~command.purge =>
                                  /\ r.place \in DOMAIN Entries
                                  /\ MayMean(Entries[r.place], r.object, command.objects[r.env])
                                  /\ KindOf(r.object.type) = "classic" /\ Entries[r.place].origin = None =>
                                        \A x \in remote'[r.env] :
                                            x.type = r.object.type /\ x.parent = r.object.parent =>
                                                ~HasName(x, Entries[r.place].ident, Entries[r.place].action)
                            /\ command.purge => r.object.type \in AllTypes
            BY <1>0 DEF OnlyNamed
        <3>1. CASE r \in removed
            <4>1. /\ MayGo(r.object)
                  /\ ~command.purge =>
                        /\ r.place \in DOMAIN Entries
                        /\ MayMean(Entries[r.place], r.object, command.objects[r.env])
                        /\ KindOf(r.object.type) = "classic" /\ Entries[r.place].origin = None =>
                              \A x \in remote[r.env] :
                                  x.type = r.object.type /\ x.parent = r.object.parent =>
                                                ~HasName(x, Entries[r.place].ident, Entries[r.place].action)
                  /\ command.purge => r.object.type \in AllTypes
                BY <3>1 DEF DeletesWhatIsNamed, OnlyNamed
            <4>2. remote'[r.env] \subseteq remote[r.env]
                BY <1>5, <3>1 DEF RangeInv
            <4> QED BY <4>1, <4>2
        <3>2. CASE r \notin removed
            <4>1. r = [env |-> current, object |-> o, place |-> place] /\ remote' = [remote EXCEPT ![current] = Without(Here, o)]
                BY <1>3, <3>2
            <4>2. \A x \in remote'[current] : x \in Here /\ x # o
                BY <1>1, <4>1 DEF Without, Here, RangeInv
            <4>3. MayGo(o) /\ IF command.purge THEN o.type \in AllTypes ELSE Rightly(o)
                BY DEF TargetInv
            <4>4. CASE command.purge
                BY <4>1, <4>3, <4>4
            <4>5. CASE ~command.purge
                <5>1. place \in DOMAIN Entries
                    BY <1>0, <4>5 DEF StageInv
                <5> QED BY <4>1, <4>2, <4>3, <4>5, <5>1 DEF Rightly, Entry
            <4> QED BY <4>4, <4>5
        <3> QED BY <3>1, <3>2
    <2>2. \A e \in Environs : Clean(e) => Clean(e)'
        BY <1>0, <1>5 DEF Clean
    <2> QED BY <1>0, <2>1, <2>2 DEF DeletesWhatIsNamed
<1> QED BY <1>5, <1>6, <1>7, <1>8, <1>9, <1>10, <1>11

\* What others delete is not left either.
LEMMA VanishesKeeps ==
    ASSUME DeletionInv, NEW env \in Environs, NEW o \in remote[env], Vanishes(env, o)
    PROVE  DeletionInv'
<1> USE DEF DeletionInv, Vanishes, SameType, Between
<1>0. UNCHANGED <<Environs, Entries, AllTypes, Entry>>
    BY DEF Environs, Entries, AllTypes, PurgedTypes, NamedTypes, Entry
<1>1. ShrunkTo(command.objects[env], Without(remote[env], o)) /\ Without(remote[env], o) \subseteq remote[env]
    BY WithoutShrinks DEF ShrunkInv
<1>2. DOMAIN remote' = Environs /\ \A e \in Environs : remote'[e] \subseteq remote[e]
    BY <1>1 DEF RangeInv
<1>3. ShrunkInv'
    BY <1>0, <1>1 DEF ShrunkInv, RangeInv
<1>4. RangeInv' /\ StageInv'
    BY <1>0, <1>2 DEF RangeInv, StageInv
<1>5. current # None => Here' \subseteq Here /\ MeantHere' \subseteq MeantHere
    BY <1>0, <1>2 DEF RangeInv, Here, MeantHere
<1>6. ScopedInv' /\ TargetInv'
    <2>1. CASE current = None
        BY <2>1 DEF StageInv, ScopedInv, TargetInv
    <2>2. CASE current # None
        BY <1>0, <1>5, <2>2 DEF ScopedInv, TargetInv, Rightly
    <2> QED BY <2>1, <2>2
<1>7. LeftInv'
    BY <1>0, <1>5 DEF LeftInv, Dealt
<1>8. DeletesWhatIsNamed'
    <2>1. \A r \in removed : remote'[r.env] \subseteq remote[r.env]
        BY <1>2 DEF RangeInv
    <2>2. OnlyNamed'
        BY <1>0, <2>1 DEF DeletesWhatIsNamed, OnlyNamed
    <2>3. \A e \in Environs : Clean(e) => Clean(e)'
        BY <1>0, <1>2 DEF Clean
    <2> QED BY <1>0, <2>2, <2>3 DEF DeletesWhatIsNamed
<1> QED BY <1>3, <1>4, <1>6, <1>7, <1>8

\* With no type, no entry and no object still to come, nothing is left.
LEMMA EndKeeps ==
    ASSUME DeletionInv, EndEnvironment
    PROVE  DeletionInv'
<1> USE DEF DeletionInv, EndEnvironment
<1>0. UNCHANGED <<Environs, Entries, AllTypes>>
    BY DEF Environs, Entries, AllTypes, PurgedTypes, NamedTypes
<1>1. place = 0 /\ target = {} /\ 0 \notin DOMAIN Entries
    BY DeletionsAssumption DEF StageInv, RangeInv, Entries
<1>2. RangeInv' /\ ShrunkInv' /\ StageInv'
    BY <1>0, <1>1 DEF RangeInv, ShrunkInv, StageInv
<1>3. ScopedInv' /\ TargetInv' /\ LeftInv'
    BY <1>1 DEF ScopedInv, TargetInv, LeftInv
<1>4. ~erred => Clean(current)
    BY <1>1 DEF LeftInv, Dealt, Clean, Here
<1>5. DeletesWhatIsNamed'
    <2>1. OnlyNamed'
        BY <1>0 DEF DeletesWhatIsNamed, OnlyNamed
    <2>2. \A e \in Environs : Clean(e) => Clean(e)'
        BY <1>0 DEF Clean
    <2> QED BY <1>0, <1>4, <2>1, <2>2 DEF DeletesWhatIsNamed
<1> QED BY <1>2, <1>3, <1>5

\* The answer says no more than what is so.
LEMMA ReportKeeps ==
    ASSUME DeletionInv, Report
    PROVE  DeletionInv'
<1> USE DEF DeletionInv, Report
<1>0. UNCHANGED <<Environs, Entries, AllTypes>>
    BY DEF Environs, Entries, AllTypes, PurgedTypes, NamedTypes
<1>1. RangeInv' /\ ShrunkInv' /\ StageInv'
    BY <1>0 DEF RangeInv, ShrunkInv, StageInv
<1>2. ScopedInv' /\ TargetInv' /\ LeftInv'
    BY DEF ScopedInv, TargetInv, LeftInv, StageInv
<1>3. DeletesWhatIsNamed'
    <2>1. OnlyNamed'
        BY <1>0 DEF DeletesWhatIsNamed, OnlyNamed
    <2>2. \A e \in Environs : Clean(e) => Clean(e)'
        BY <1>0 DEF Clean
    <2> QED BY <1>0, <2>1, <2>2 DEF DeletesWhatIsNamed
<1> QED BY <1>1, <1>2, <1>3

\* Nothing changes.
LEMMA DeletionFrame ==
    ASSUME DeletionInv, UNCHANGED deletionVars
    PROVE  DeletionInv'
<1> USE DEF DeletionInv, deletionVars
<1>0. UNCHANGED <<Environs, Entries, AllTypes, Entry, Here, MeantHere, Dealt>>
    BY DEF Environs, Entries, AllTypes, PurgedTypes, NamedTypes, Entry, Here, MeantHere, Dealt
<1>1. RangeInv' /\ ShrunkInv' /\ StageInv'
    BY <1>0 DEF RangeInv, ShrunkInv, StageInv
<1>2. ScopedInv' /\ TargetInv' /\ LeftInv'
    BY <1>0 DEF ScopedInv, TargetInv, LeftInv, Rightly
<1>3. DeletesWhatIsNamed'
    BY NamedFrame
<1> QED BY <1>1, <1>2, <1>3

-----------------------------------------------------------------------------
\* The invariant of a deletion holds whatever is named, whichever requests
\* fail and whatever others delete meanwhile.
THEOREM DeletionInvariance == DeletionSpec => []DeletionInv
<1>1. DeletionInit => DeletionInv
    <2> SUFFICES ASSUME DeletionInit
                 PROVE  DeletionInv
        OBVIOUS
    <2> USE DEF DeletionInit
    <2>1. RangeInv /\ StageInv
        BY DeletionsAssumption DEF RangeInv, StageInv, Environs, Entries
    <2>2. ShrunkInv
        BY DEF ShrunkInv, ShrunkTo
    <2>3. ScopedInv /\ TargetInv /\ LeftInv
        BY DEF ScopedInv, TargetInv, LeftInv
    <2>4. DeletesWhatIsNamed
        BY DEF DeletesWhatIsNamed, OnlyNamed
    <2> QED BY <2>1, <2>2, <2>3, <2>4 DEF DeletionInv
<1>2. DeletionInv /\ [DeletionNext]_deletionVars => DeletionInv'
    <2> SUFFICES ASSUME DeletionInv, [DeletionNext]_deletionVars
                 PROVE  DeletionInv'
        OBVIOUS
    <2>1. ASSUME NEW env \in waiting, BeginEnvironment(env)
          PROVE  DeletionInv'
        BY <2>1, BeginKeeps
    <2>2. ASSUME NEW t \in types, NextType(t)
          PROVE  DeletionInv'
        BY <2>2, NextTypeKeeps
    <2>3. ASSUME NEW t \in types, PurgeType(t)
          PROVE  DeletionInv'
        BY <2>3, PurgeKeeps
    <2>4. ASSUME NEW w \in work, NextEntry(w)
          PROVE  DeletionInv'
        BY <2>4, NextEntryKeeps
    <2>5. CASE EntryFails
        BY <2>5, FailsKeeps
    <2>6. CASE ResolveEntry
        BY <2>6, ResolveKeeps
    <2>7. ASSUME NEW o \in target, DeleteObject(o)
          PROVE  DeletionInv'
        BY <2>7, DeleteKeeps
    <2>8. ASSUME NEW env \in Environs, NEW o \in remote[env], Vanishes(env, o)
          PROVE  DeletionInv'
        BY <2>8, VanishesKeeps
    <2>9. CASE EndEnvironment
        BY <2>9, EndKeeps
    <2>10. CASE Report
        BY <2>10, ReportKeeps
    <2>11. CASE Reported \/ UNCHANGED deletionVars
        BY <2>11, DeletionFrame DEF Reported
    <2> QED BY <2>1, <2>2, <2>3, <2>4, <2>5, <2>6, <2>7, <2>8, <2>9, <2>10, <2>11 DEF DeletionNext
<1> QED BY <1>1, <1>2, PTL DEF DeletionSpec

\* Deletion removes only what an entry names, and an environment that is done
\* without an error keeps nothing an entry means and that could be deleted.
THEOREM AlwaysDeletesWhatIsNamed == DeletionSpec => []DeletesWhatIsNamed
<1>1. DeletionInv => DeletesWhatIsNamed
    BY DEF DeletionInv
<1> QED BY <1>1, DeletionInvariance, PTL

-----------------------------------------------------------------------------
\* References between downloaded configurations.

\* Passes are for keys that occur, and what is known is of what was downloaded.
PlaceInv ==
    /\ download \in Downloads
    /\ configsById \in CollectConfigsById
    /\ DOMAIN passes = Downloaded /\ DOMAIN templates = Downloaded
    /\ DOMAIN references = Downloaded /\ DOMAIN scopes = Downloaded
    /\ \A c \in Downloaded : passes[c] \in SUBSET Occurrences(c) /\ DOMAIN scopes[c] = {"key", "by"} /\ scopes[c].key = c.scope

\* All of a word but what stands for it is as it was downloaded.
WordInv ==
    \A c \in Downloaded :
        /\ DOMAIN templates[c] = DOMAIN c.words
        /\ \A i \in DOMAIN c.words :
              /\ DOMAIN templates[c][i] = WordFields
              /\ \A x \in WordFields \ {"as", "name"} : templates[c][i][x] = c.words[i][x]
              /\ templates[c][i].as \in {"itself", "reference", "extracted"}
              /\ resolution = "resolve" => templates[c][i].as # "extracted"

\* What is meant by a word of c that is referred to as n.
IsMention(c, word, n) ==
    /\ word.before # "letter"
    /\ \E from \in Downloaded :
          /\ n = CreateParameterName(from) /\ CanReference(c, from)
          /\ \E key \in Keys(from) : Equals(word.text, key)

MentionInv ==
    \A c \in Downloaded : \A i \in DOMAIN c.words :
        LET w == templates[c][i]
        IN  /\ w.as = "reference" => w.name \in DOMAIN references[c] /\ IsMention(c, w, w.name)
            /\ w.as = "extracted" => w.name = w.text

\* A parameter has the name of the one it refers to, and is used.
ReferenceInv ==
    \A c \in Downloaded : \A n \in DOMAIN references[c] :
        /\ references[c][n] \in Downloaded /\ n = CreateParameterName(references[c][n])
        /\ \E i \in DOMAIN c.words : templates[c][i].as = "reference" /\ templates[c][i].name = n

\* A scope that is replaced says what it said.
ScopeInv == \A c \in Downloaded : \A d \in scopes[c].by : d = c \/ scopes[c].key \in Keys(d)

\* Two places of one text, and a place of which nothing is replaced.
Same(c, i, j) == c.words[i].text = c.words[j].text
Itself(c, i)  == templates[c][i].as = "itself"

\* A word that has to become a reference and is none awaits a pass for its
\* text, and a second one if the first can be used up by the word before it.
Awaited(c, i) ==
    \E p \in passes[c] :
        /\ Same(c, p, i)
        /\ i > 1 /\ c.words[i - 1].joined /\ Same(c, i - 1, i) /\ Itself(c, i - 1) =>
              \E q \in passes[c] : q # p /\ Same(c, q, i)

PassInv ==
    \A c \in Downloaded : \A i \in DOMAIN c.words :
        /\ Referable(c, i) /\ ~Hidden(c, i) /\ templates[c][i].as # "reference"
        /\ c \in running \/ resolution # "resolve"
        => resolution = "resolve" /\ Awaited(c, i)

LinkInv == PlaceInv /\ WordInv /\ MentionInv /\ ReferenceInv /\ ScopeInv /\ PassInv

-----------------------------------------------------------------------------
\* Places have a first.
LEMMA FirstOf ==
    ASSUME NEW S \in SUBSET Nat, S # {}
    PROVE  \E i \in S : \A j \in S : i <= j
<1> DEFINE Less == {ss \in Nat \X Nat : ss[1] < ss[2]}
<1>1. PICK i \in S : \A j \in S : ~(<<j, i>> \in Less)
    <2>1. IsWellFoundedOn(Less, Nat)
        BY NatLessThanWellFounded DEF OpToRel
    <2> HIDE DEF Less
    <2> QED BY <2>1, WFMin
<1>2. \A j \in S : ~(j < i)
    BY <1>1
<1> QED BY <1>2

\* What is known of the download does not change.
LEMMA DownloadFrame ==
    ASSUME UNCHANGED <<download, configsById>>
    PROVE  /\ Downloaded' = Downloaded /\ AllKeys' = AllKeys /\ CollectConfigsById' = CollectConfigsById
           /\ \A c, i : Referable(c, i)' = Referable(c, i) /\ Hidden(c, i)' = Hidden(c, i)
           /\ \A c, w, n : IsMention(c, w, n)' = IsMention(c, w, n)
<1>1. Downloaded' = Downloaded
    BY DEF Downloaded
<1>2. AllKeys' = AllKeys
    BY <1>1 DEF AllKeys
<1>3. CollectConfigsById' = CollectConfigsById
    BY <1>1, <1>2 DEF CollectConfigsById
<1>4. ASSUME NEW c, NEW i
      PROVE  Referable(c, i)' = Referable(c, i) /\ Hidden(c, i)' = Hidden(c, i)
    BY <1>2 DEF Referable, Hidden, StandsAlone
<1>5. ASSUME NEW c, NEW w, NEW n
      PROVE  IsMention(c, w, n)' = IsMention(c, w, n)
    BY <1>1 DEF IsMention, Equals
<1> QED BY <1>1, <1>2, <1>3, <1>4, <1>5

-----------------------------------------------------------------------------
\* A goroutine starts, with a pass for each key that occurs.
LEMMA StartKeeps ==
    ASSUME LinkInv, NEW c \in Downloaded, ResolveDependencyReferences(c)
    PROVE  LinkInv'
<1> USE DEF LinkInv, ResolveDependencyReferences
<1>0. /\ Downloaded' = Downloaded /\ AllKeys' = AllKeys /\ CollectConfigsById' = CollectConfigsById
      /\ \A d, i : Referable(d, i)' = Referable(d, i) /\ Hidden(d, i)' = Hidden(d, i)
      /\ \A d, w, n : IsMention(d, w, n)' = IsMention(d, w, n)
    BY DownloadFrame
<1>1. PlaceInv'
    <2>1. PassesOf(c) \in SUBSET Occurrences(c)
        BY DEF PassesOf
    <2>2. \A d \in Downloaded : DOMAIN scopes'[d] = {"key", "by"} /\ scopes'[d].key = d.scope
        BY DEF ResolveScope, PlaceInv
    <2>3. \A d : Occurrences(d)' = Occurrences(d)
        BY <1>0 DEF Occurrences
    <2> QED BY <1>0, <2>1, <2>2, <2>3 DEF PlaceInv, ResolveScope
<1>2. WordInv' /\ MentionInv' /\ ReferenceInv'
    BY <1>0 DEF WordInv, MentionInv, ReferenceInv
<1>3. ScopeInv'
    <2>1. ASSUME NEW d \in Downloaded, NEW e \in scopes'[d].by
          PROVE  e = d \/ scopes'[d].key \in Keys(e)
        <3>1. CASE scopes'[d] = scopes[d]
            BY <2>1, <3>1 DEF ScopeInv
        <3>2. CASE scopes'[d] # scopes[d]
            <4>1. d = c /\ c.scope \in AllKeys /\ scopes'[c].by = {configsById[c.scope]} /\ scopes'[c].key = c.scope
                BY <3>2 DEF ResolveScope, PlaceInv
            <4> QED BY <2>1, <4>1 DEF PlaceInv, CollectConfigsById
        <3> QED BY <3>1, <3>2
    <2> QED BY <1>0, <2>1 DEF ScopeInv
<1>4. ASSUME NEW d \in Downloaded, NEW i \in DOMAIN d.words,
             Referable(d, i), ~Hidden(d, i), templates[d][i].as # "reference", d \in running'
      PROVE  Awaited(d, i)'
    <2>1. CASE d # c
        <3>1. d \in running /\ passes'[d] = passes[d]
            BY <1>4, <2>1 DEF PlaceInv
        <3> QED BY <1>4, <3>1 DEF PassInv, Awaited, Itself
    <2>2. CASE d = c
        <3>1. passes'[c] = PassesOf(c) /\ DOMAIN c.words = 1..Len(c.words) /\ Len(c.words) \in Nat
            BY DownloadsAssumption DEF PlaceInv, Downloaded
        <3>2. i \in Occurrences(c)
            BY <1>4, <2>2 DEF Referable, Occurrences
        <3>3. CASE download.fast
            <4>1. passes'[c] = Occurrences(c)
                BY <3>1, <3>3 DEF PassesOf
            <4>2. i > 1 /\ Same(c, i - 1, i) => i - 1 \in Occurrences(c) /\ i - 1 # i
                BY <2>2, <3>1, <3>2 DEF Same, Occurrences
            <4> QED BY <2>2, <3>2, <4>1, <4>2 DEF Awaited, Same
        <3>4. CASE ~download.fast
            <4> DEFINE Places == {j \in Occurrences(c) : Same(c, j, i)}
            <4>1. Places \in SUBSET Nat /\ i \in Places
                BY <3>1, <3>2 DEF Occurrences, Same
            <4>2. PICK p \in Places : \A j \in Places : p <= j
                BY <4>1, FirstOf
            <4>3. p \in PassesOf(c)
                BY <3>4, <4>2 DEF PassesOf, Same
            <4>4. ~(i > 1 /\ c.words[i - 1].joined /\ Same(c, i - 1, i))
                BY <1>4, <2>2, <3>4 DEF Hidden, Same
            <4> QED BY <2>2, <3>1, <4>2, <4>3, <4>4 DEF Awaited
        <3> QED BY <3>3, <3>4
    <2> QED BY <2>1, <2>2
<1>5. PassInv'
    BY <1>0, <1>4 DEF PassInv
<1> QED BY <1>1, <1>2, <1>3, <1>5

\* What one pass for a key replaces.
LEMMA HitsFit ==
    ASSUME LinkInv, NEW c \in Downloaded, NEW key, NEW hits \in ReplaceAll(templates[c], key)
    PROVE  /\ hits \subseteq DOMAIN c.words
           /\ \A j \in hits : Fits(templates[c][j], key)
           /\ \A j \in DOMAIN c.words :
                 Fits(templates[c][j], key) /\ j \notin hits =>
                     j > 1 /\ c.words[j - 1].joined /\ j - 1 \in hits
<1>1. DOMAIN templates[c] = DOMAIN c.words
    BY DEF LinkInv, WordInv
<1>2. ASSUME NEW j \in DOMAIN c.words, Fits(templates[c][j], key), j \notin hits
      PROVE  j > 1 /\ templates[c][j - 1].joined /\ j - 1 \in hits
    BY <1>1, <1>2 DEF ReplaceAll
<1>3. \A j \in DOMAIN c.words : templates[c][j].joined = c.words[j].joined
    BY DEF LinkInv, WordInv, WordFields
<1> QED BY <1>1, <1>2, <1>3 DEF ReplaceAll

-----------------------------------------------------------------------------
\* One pass of one configuration.
LEMMA PassKeeps ==
    ASSUME LinkInv, NEW c \in Downloaded, NEW i \in passes[c], FindAndReplaceIDs(c, i)
    PROVE  LinkInv'
<1> DEFINE key  == c.words[i].text
           from == configsById[key]
           name == CreateParameterName(from)
<1>0. /\ Downloaded' = Downloaded /\ AllKeys' = AllKeys /\ CollectConfigsById' = CollectConfigsById
      /\ \A d, j : Referable(d, j)' = Referable(d, j) /\ Hidden(d, j)' = Hidden(d, j)
      /\ \A d, w, n : IsMention(d, w, n)' = IsMention(d, w, n)
    BY DownloadFrame DEF FindAndReplaceIDs
<1>1. PICK hits \in IF CanReference(c, from) THEN ReplaceAll(templates[c], key) ELSE {{}} :
          /\ templates' = [templates EXCEPT ![c] = Replaced(@, hits, name)]
          /\ references' = IF hits = {} THEN references
                           ELSE [references EXCEPT ![c] = [n \in DOMAIN @ \cup {name} |-> IF n = name THEN from ELSE @[n]]]
    BY DEF FindAndReplaceIDs
<1> HIDE DEF key, from, name
<1>2. /\ resolution = "resolve" /\ resolution' = resolution /\ scopes' = scopes /\ running' = running
      /\ passes' = [passes EXCEPT ![c] = @ \ {i}] /\ download' = download /\ configsById' = configsById
    BY DEF FindAndReplaceIDs
<1>3. /\ hits \subseteq DOMAIN c.words
      /\ \A j \in hits : CanReference(c, from) /\ Fits(templates[c][j], key)
      /\ \A j \in DOMAIN c.words :
            CanReference(c, from) /\ Fits(templates[c][j], key) /\ j \notin hits =>
                j > 1 /\ c.words[j - 1].joined /\ j - 1 \in hits
    <2>1. CASE CanReference(c, from)
        BY <1>1, <2>1, HitsFit
    <2>2. CASE ~CanReference(c, from)
        BY <1>1, <2>2
    <2> QED BY <2>1, <2>2
<1>4. i \in Occurrences(c) /\ i \in DOMAIN c.words /\ DOMAIN templates = Downloaded /\ DOMAIN references = Downloaded /\ DOMAIN passes = Downloaded
    BY DEF LinkInv, PlaceInv, Occurrences
<1>5. \A d \in Downloaded \ {c} : templates'[d] = templates[d] /\ references'[d] = references[d] /\ passes'[d] = passes[d]
    BY <1>1, <1>2, <1>4
<1>6. /\ DOMAIN templates[c] = DOMAIN c.words /\ DOMAIN templates'[c] = DOMAIN c.words
      /\ \A j \in DOMAIN c.words :
            templates'[c][j] = IF j \in hits THEN [templates[c][j] EXCEPT !.as = "reference", !.name = name] ELSE templates[c][j]
    <2>1. DOMAIN templates[c] = DOMAIN c.words
        BY DEF LinkInv, WordInv
    <2>2. templates'[c] = Replaced(templates[c], hits, name)
        BY <1>1, <1>4
    <2> QED BY <2>1, <2>2 DEF Replaced
<1>7. \A j \in DOMAIN c.words : DOMAIN templates[c][j] = WordFields
    BY DEF LinkInv, WordInv
<1>8. \A j \in hits : /\ templates'[c][j].as = "reference" /\ templates'[c][j].name = name
                      /\ DOMAIN templates'[c][j] = WordFields
                      /\ \A x \in WordFields \ {"as", "name"} : templates'[c][j][x] = templates[c][j][x]
                      /\ templates[c][j].as = "itself"
    BY <1>3, <1>6, <1>7 DEF WordFields, Fits
<1>9. \A j \in DOMAIN c.words \ hits : templates'[c][j] = templates[c][j]
    BY <1>6
<1>10. PlaceInv'
    <2>1. \A d : Occurrences(d)' = Occurrences(d)
        BY <1>0 DEF Occurrences
    <2>2. DOMAIN templates' = Downloaded /\ DOMAIN references' = Downloaded
        BY <1>1, <1>4
    <2> QED BY <1>0, <1>2, <2>1, <2>2 DEF LinkInv, PlaceInv
<1>11. WordInv'
    <2>1. ASSUME NEW d \in Downloaded, NEW j \in DOMAIN d.words
          PROVE  /\ DOMAIN templates'[d] = DOMAIN d.words
                 /\ DOMAIN templates'[d][j] = WordFields
                 /\ \A x \in WordFields \ {"as", "name"} : templates'[d][j][x] = d.words[j][x]
                 /\ templates'[d][j].as \in {"itself", "reference", "extracted"}
                 /\ templates'[d][j].as # "extracted"
        <3>1. CASE d # c
            BY <1>2, <1>5, <3>1 DEF LinkInv, WordInv
        <3>2. CASE d = c
            <4>1. /\ \A x \in WordFields \ {"as", "name"} : templates[c][j][x] = c.words[j][x]
                  /\ templates[c][j].as \in {"itself", "reference", "extracted"} /\ templates[c][j].as # "extracted"
                BY <1>2, <3>2 DEF LinkInv, WordInv
            <4>2. CASE j \in hits
                BY <1>6, <1>8, <3>2, <4>1, <4>2
            <4>3. CASE j \notin hits
                BY <1>6, <1>7, <1>9, <3>2, <4>1, <4>3
            <4> QED BY <4>2, <4>3
        <3> QED BY <3>1, <3>2
    <2>2. \A d \in Downloaded : DOMAIN templates'[d] = DOMAIN d.words
        BY <1>5, <1>6 DEF LinkInv, WordInv
    <2> QED BY <1>0, <2>1, <2>2 DEF WordInv
<1>12. key \in AllKeys /\ from \in Downloaded /\ key \in Keys(from)
    BY <1>4 DEF key, from, Occurrences, LinkInv, PlaceInv, CollectConfigsById
<1>13. /\ \A n \in DOMAIN references[c] \ {name} : n \in DOMAIN references'[c] /\ references'[c][n] = references[c][n]
       /\ DOMAIN references'[c] \subseteq DOMAIN references[c] \cup {name}
       /\ hits = {} => references'[c] = references[c]
       /\ hits # {} => name \in DOMAIN references'[c] /\ references'[c][name] = from
    <2>1. CASE hits = {}
        BY <1>1, <2>1
    <2>2. CASE hits # {}
        <3>1. references'[c] = [n \in DOMAIN references[c] \cup {name} |-> IF n = name THEN from ELSE references[c][n]]
            BY <1>1, <1>4, <2>2
        <3> QED BY <2>2, <3>1
    <2> QED BY <2>1, <2>2
<1>14. MentionInv'
    <2>1. ASSUME NEW d \in Downloaded, NEW j \in DOMAIN d.words
          PROVE  LET w == templates'[d][j]
                 IN  /\ w.as = "reference" => w.name \in DOMAIN references'[d] /\ IsMention(d, w, w.name)
                     /\ w.as = "extracted" => w.name = w.text
        <3>1. CASE d # c
            BY <1>5, <3>1 DEF LinkInv, MentionInv
        <3>2. CASE d = c /\ j \in hits
            <4>1. templates'[c][j].name \in DOMAIN references'[c]
                BY <1>8, <1>13, <3>2
            <4>2. CanReference(c, from) /\ Equals(templates[c][j].text, key) /\ templates[c][j].before # "letter"
                BY <1>3, <3>2 DEF Fits, GetMatchingRegEx
            <4>3. templates'[c][j].text = templates[c][j].text /\ templates'[c][j].before = templates[c][j].before
                BY <1>8, <3>2 DEF WordFields
            <4>4. IsMention(c, templates'[c][j], name)
                BY <1>12, <4>2, <4>3 DEF IsMention, name
            <4> QED BY <1>8, <3>2, <4>1, <4>4
        <3>3. CASE d = c /\ j \notin hits
            <4>1. templates'[c][j] = templates[c][j]
                BY <1>9, <3>3
            <4>2. DOMAIN references[c] \subseteq DOMAIN references'[c]
                BY <1>13
            <4> QED BY <3>3, <4>1, <4>2 DEF LinkInv, MentionInv
        <3> QED BY <3>1, <3>2, <3>3
    <2> QED BY <1>0, <2>1 DEF MentionInv
<1>15. ReferenceInv'
    <2>1. ASSUME NEW d \in Downloaded, NEW n \in DOMAIN references'[d]
          PROVE  /\ references'[d][n] \in Downloaded /\ n = CreateParameterName(references'[d][n])
                 /\ \E j \in DOMAIN d.words : templates'[d][j].as = "reference" /\ templates'[d][j].name = n
        <3>1. CASE d # c
            BY <1>5, <2>1, <3>1 DEF LinkInv, ReferenceInv
        <3>2. CASE d = c /\ n = name /\ hits # {}
            BY <1>3, <1>8, <1>12, <1>13, <3>2 DEF name
        <3>3. CASE d = c /\ ~(n = name /\ hits # {})
            <4>1. n \in DOMAIN references[c] /\ references'[c][n] = references[c][n]
                BY <1>13, <2>1, <3>3
            <4>2. PICK j \in DOMAIN c.words : templates[c][j].as = "reference" /\ templates[c][j].name = n
                BY <4>1 DEF LinkInv, ReferenceInv
            <4>3. templates'[c][j] = templates[c][j]
                BY <1>8, <1>9, <4>2
            <4> QED BY <3>3, <4>1, <4>2, <4>3 DEF LinkInv, ReferenceInv
        <3> QED BY <3>1, <3>2, <3>3
    <2> QED BY <1>0, <2>1 DEF ReferenceInv
<1>16. ScopeInv'
    BY <1>0, <1>2 DEF LinkInv, ScopeInv
<1>17. ASSUME NEW d \in Downloaded, NEW j \in DOMAIN d.words,
              Referable(d, j), ~Hidden(d, j), templates'[d][j].as # "reference", d \in running
       PROVE  Awaited(d, j)'
    <2>1. CASE d # c
        BY <1>2, <1>5, <1>17, <2>1 DEF LinkInv, PassInv, Awaited, Itself
    <2>2. CASE d = c
        <3>1. j \notin hits /\ templates'[c][j] = templates[c][j] /\ templates[c][j].as # "reference"
            BY <1>8, <1>9, <1>17, <2>2
        <3>2. PICK p \in passes[c] :
                  /\ Same(c, p, j)
                  /\ j > 1 /\ c.words[j - 1].joined /\ Same(c, j - 1, j) /\ Itself(c, j - 1) =>
                        \E q \in passes[c] : q # p /\ Same(c, q, j)
            BY <1>17, <2>2, <3>1 DEF LinkInv, PassInv, Awaited
        <3>3. Itself(c, j - 1)' => j - 1 \notin hits
            BY <1>8 DEF Itself
        <3>4. j > 1 => j - 1 \in DOMAIN c.words
            BY <2>2, DownloadsAssumption DEF LinkInv, PlaceInv, Downloaded
        <3>5. j > 1 /\ Itself(c, j - 1)' => Itself(c, j - 1)
            BY <1>9, <3>3, <3>4 DEF Itself
        <3>6. passes'[c] = passes[c] \ {i}
            BY <1>2, <1>4
        <3>7. CASE ~Same(c, i, j)
            <4>1. \A q \in passes[c] : Same(c, q, j) => q \in passes'[c]
                BY <3>6, <3>7
            <4> QED BY <2>2, <3>2, <3>5, <4>1 DEF Awaited, Itself, Same
        <3>8. CASE Same(c, i, j)
            <4>1. c.words[j].text = key
                BY <3>8 DEF Same, key
            <4>2. /\ templates[c][j].as = "itself" /\ templates[c][j].text = key
                  /\ templates[c][j].before = c.words[j].before /\ templates[c][j].place = c.words[j].place
                BY <1>2, <2>2, <3>1, <4>1 DEF LinkInv, WordInv, WordFields
            <4>3. CanReference(c, from) /\ from.kind # "document" /\ StandsAlone(c, j)
                BY <1>17, <2>2, <4>1 DEF Referable, from
            <4>4. Fits(templates[c][j], key)
                BY <4>2, <4>3 DEF Fits, GetMatchingRegEx, Equals, StandsAlone, from
            <4>5. j > 1 /\ c.words[j - 1].joined /\ j - 1 \in hits
                BY <1>3, <2>2, <3>1, <4>3, <4>4
            <4>6. templates[c][j - 1].text = c.words[j - 1].text
                BY <3>4, <4>5 DEF LinkInv, WordInv, WordFields
            <4>7. Same(c, j - 1, j)
                BY <1>3, <1>17, <2>2, <4>1, <4>5, <4>6 DEF Hidden, Fits, GetMatchingRegEx, Equals, Same
            <4>8. Itself(c, j - 1) /\ ~Itself(c, j - 1)'
                BY <1>8, <3>3, <4>5 DEF Itself
            <4>9. PICK q \in passes[c] : q # p /\ Same(c, q, j)
                BY <3>2, <4>5, <4>7, <4>8
            <4>10. \E r \in passes'[c] : Same(c, r, j)
                BY <3>2, <3>6, <4>9
            <4> QED BY <2>2, <4>8, <4>10 DEF Awaited, Same, Itself
        <3> QED BY <3>7, <3>8
    <2> QED BY <2>1, <2>2
<1>18. PassInv'
    BY <1>0, <1>2, <1>17 DEF PassInv
<1> QED BY <1>10, <1>11, <1>14, <1>15, <1>16, <1>18 DEF LinkInv

-----------------------------------------------------------------------------
\* The ids of one configuration are extracted.
LEMMA ExtractKeeps ==
    ASSUME LinkInv, NEW c \in Downloaded, ExtractIDsIntoYAML(c)
    PROVE  LinkInv'
<1>0. /\ Downloaded' = Downloaded /\ AllKeys' = AllKeys /\ CollectConfigsById' = CollectConfigsById
      /\ \A d, j : Referable(d, j)' = Referable(d, j) /\ Hidden(d, j)' = Hidden(d, j)
      /\ \A d, w, n : IsMention(d, w, n)' = IsMention(d, w, n)
    BY DownloadFrame DEF ExtractIDsIntoYAML
<1>1. /\ resolution = "extract" /\ resolution' = resolution /\ references' = references /\ running' = running
      /\ passes' = passes /\ download' = download /\ configsById' = configsById
      /\ templates' = [templates EXCEPT ![c] = ExtractIds(@)] /\ scopes' = ExtractScope(c)
    BY DEF ExtractIDsIntoYAML
<1>2. /\ DOMAIN templates = Downloaded /\ DOMAIN scopes = Downloaded
      /\ DOMAIN templates[c] = DOMAIN c.words
      /\ \A j \in DOMAIN c.words : DOMAIN templates[c][j] = WordFields
    BY DEF LinkInv, PlaceInv, WordInv
<1>3. \A d \in Downloaded \ {c} : templates'[d] = templates[d]
    BY <1>1, <1>2
<1>4. DOMAIN templates'[c] = DOMAIN c.words
    BY <1>1, <1>2 DEF ExtractIds
<1>5. ASSUME NEW j \in DOMAIN c.words
      PROVE  \/ templates'[c][j] = templates[c][j]
             \/ /\ templates[c][j].as = "itself" /\ templates'[c][j].as = "extracted"
                /\ templates'[c][j].name = templates[c][j].text
                /\ DOMAIN templates'[c][j] = WordFields
                /\ \A x \in WordFields \ {"as", "name"} : templates'[c][j][x] = templates[c][j][x]
    <2>1. CASE j \in FindAllIds(templates[c])
        <3>1. templates'[c][j] = [templates[c][j] EXCEPT !.as = "extracted", !.name = templates[c][j].text]
            BY <1>1, <1>2, <2>1 DEF ExtractIds
        <3> QED BY <1>2, <2>1, <3>1 DEF FindAllIds, WordFields
    <2>2. CASE j \notin FindAllIds(templates[c])
        BY <1>1, <1>2, <2>2 DEF ExtractIds
    <2> QED BY <2>1, <2>2
<1>6. PlaceInv'
    <2>1. \A d : Occurrences(d)' = Occurrences(d)
        BY <1>0 DEF Occurrences
    <2>2. \A d \in Downloaded : DOMAIN scopes'[d] = {"key", "by"} /\ scopes'[d].key = d.scope
        BY <1>1 DEF ExtractScope, LinkInv, PlaceInv
    <2>3. DOMAIN templates' = Downloaded /\ DOMAIN scopes' = Downloaded
        BY <1>1, <1>2 DEF ExtractScope
    <2> QED BY <1>0, <1>1, <2>1, <2>2, <2>3 DEF LinkInv, PlaceInv
<1>7. WordInv'
    <2>1. ASSUME NEW d \in Downloaded, NEW j \in DOMAIN d.words
          PROVE  /\ DOMAIN templates'[d] = DOMAIN d.words
                 /\ DOMAIN templates'[d][j] = WordFields
                 /\ \A x \in WordFields \ {"as", "name"} : templates'[d][j][x] = d.words[j][x]
                 /\ templates'[d][j].as \in {"itself", "reference", "extracted"}
        <3>1. CASE d # c
            BY <1>3, <3>1 DEF LinkInv, WordInv
        <3>2. CASE d = c
            BY <1>4, <1>5, <3>2 DEF LinkInv, WordInv
        <3> QED BY <3>1, <3>2
    <2>2. \A d \in Downloaded : DOMAIN templates'[d] = DOMAIN d.words
        BY <1>3, <1>4 DEF LinkInv, WordInv
    <2> QED BY <1>0, <1>1, <2>1, <2>2 DEF WordInv
<1>8. MentionInv'
    <2>1. ASSUME NEW d \in Downloaded, NEW j \in DOMAIN d.words
          PROVE  LET w == templates'[d][j]
                 IN  /\ w.as = "reference" => w.name \in DOMAIN references[d] /\ IsMention(d, w, w.name)
                     /\ w.as = "extracted" => w.name = w.text
        <3>1. CASE templates'[d][j] = templates[d][j]
            BY <3>1 DEF LinkInv, MentionInv
        <3>2. CASE d = c /\ templates'[d][j] # templates[d][j]
            BY <1>5, <3>2 DEF WordFields
        <3> QED BY <1>3, <3>1, <3>2
    <2> QED BY <1>0, <1>1, <2>1 DEF MentionInv
<1>9. \A d \in Downloaded : \A j \in DOMAIN d.words :
          templates[d][j].as = "reference" => templates'[d][j] = templates[d][j]
    BY <1>3, <1>5
<1>10. ReferenceInv'
    <2>1. ASSUME NEW d \in Downloaded, NEW n \in DOMAIN references[d]
          PROVE  \E j \in DOMAIN d.words : templates'[d][j].as = "reference" /\ templates'[d][j].name = n
        BY <1>9, <2>1 DEF LinkInv, ReferenceInv
    <2> QED BY <1>0, <1>1, <2>1 DEF LinkInv, ReferenceInv
<1>11. ScopeInv'
    <2>1. ASSUME NEW d \in Downloaded
          PROVE  scopes'[d].key = scopes[d].key /\ (scopes'[d].by = scopes[d].by \/ scopes'[d].by = {d})
        BY <1>1, <1>2 DEF ExtractScope, LinkInv, PlaceInv
    <2> QED BY <1>0, <2>1 DEF LinkInv, ScopeInv
<1>12. PassInv'
    <2>1. ASSUME NEW d \in Downloaded, NEW j \in DOMAIN d.words, Referable(d, j), ~Hidden(d, j)
          PROVE  templates'[d][j].as = "reference"
        BY <1>1, <1>9, <2>1 DEF LinkInv, PassInv
    <2> QED BY <1>0, <2>1 DEF PassInv
<1> QED BY <1>6, <1>7, <1>8, <1>10, <1>11, <1>12 DEF LinkInv

\* All configurations are done with.
LEMMA ResolvedKeeps ==
    ASSUME LinkInv, ResolveDependencies \/ Extracted \/ UNCHANGED resolverVars
    PROVE  LinkInv'
<1>0. /\ Downloaded' = Downloaded /\ AllKeys' = AllKeys /\ CollectConfigsById' = CollectConfigsById
      /\ \A d, j : Referable(d, j)' = Referable(d, j) /\ Hidden(d, j)' = Hidden(d, j)
      /\ \A d, w, n : IsMention(d, w, n)' = IsMention(d, w, n)
    BY DownloadFrame DEF ResolveDependencies, Extracted, resolverVars
<1>1. UNCHANGED <<download, configsById, running, passes, templates, references, scopes>>
    BY DEF ResolveDependencies, Extracted, resolverVars
<1>2. resolution' = "resolve" => resolution = "resolve" /\ resolution' = resolution
    BY DEF ResolveDependencies, Extracted, resolverVars
<1>3. PlaceInv'
    <2>1. \A d : Occurrences(d)' = Occurrences(d)
        BY <1>0 DEF Occurrences
    <2> QED BY <1>0, <1>1, <2>1 DEF LinkInv, PlaceInv
<1>4. WordInv' /\ MentionInv' /\ ReferenceInv' /\ ScopeInv'
    BY <1>0, <1>1, <1>2 DEF LinkInv, WordInv, MentionInv, ReferenceInv, ScopeInv
<1>5. ASSUME NEW d \in Downloaded, NEW j \in DOMAIN d.words,
             Referable(d, j), ~Hidden(d, j), templates[d][j].as # "reference", d \in running \/ resolution' # "resolve"
      PROVE  resolution' = "resolve" /\ Awaited(d, j)'
    <2>1. CASE ResolveDependencies
        BY <1>5, <2>1 DEF ResolveDependencies, LinkInv, PassInv, Awaited
    <2>2. CASE Extracted
        BY <1>5, <2>2 DEF Extracted, LinkInv, PassInv
    <2>3. CASE UNCHANGED resolverVars
        BY <1>5, <2>3 DEF resolverVars, LinkInv, PassInv, Awaited, Itself
    <2> QED BY <2>1, <2>2, <2>3
<1>6. PassInv'
    BY <1>0, <1>1, <1>5 DEF PassInv
<1> QED BY <1>3, <1>4, <1>6 DEF LinkInv

-----------------------------------------------------------------------------
\* The invariant of the replacement of ids holds whichever configurations are
\* downloaded together, in whichever order their goroutines replace them.
THEOREM LinkInvariance == ResolverSpec => []LinkInv
<1>1. ResolverInit => LinkInv
    <2> SUFFICES ASSUME ResolverInit
                 PROVE  LinkInv
        OBVIOUS
    <2> USE DEF ResolverInit
    <2>1. \A c \in Downloaded : \A i \in DOMAIN c.words : DOMAIN c.words[i] = WordFields /\ c.words[i].as = "itself"
        BY DownloadsAssumption DEF Downloaded
    <2>2. PlaceInv
        BY DEF PlaceInv
    <2>3. WordInv /\ MentionInv /\ ReferenceInv
        BY <2>1 DEF WordInv, MentionInv, ReferenceInv
    <2>4. ScopeInv /\ PassInv
        BY DEF ScopeInv, PassInv
    <2> QED BY <2>2, <2>3, <2>4 DEF LinkInv
<1>2. LinkInv /\ [ResolverNext]_resolverVars => LinkInv'
    <2> SUFFICES ASSUME LinkInv, [ResolverNext]_resolverVars
                 PROVE  LinkInv'
        OBVIOUS
    <2>1. ASSUME NEW c \in Downloaded, ResolveDependencyReferences(c)
          PROVE  LinkInv'
        BY <2>1, StartKeeps
    <2>2. ASSUME NEW c \in Downloaded, NEW i \in passes[c], FindAndReplaceIDs(c, i)
          PROVE  LinkInv'
        BY <2>2, PassKeeps
    <2>3. ASSUME NEW c \in Downloaded, ExtractIDsIntoYAML(c)
          PROVE  LinkInv'
        BY <2>3, ExtractKeeps
    <2>4. CASE ResolveDependencies \/ Extracted \/ Resolved \/ UNCHANGED resolverVars
        BY <2>4, ResolvedKeeps DEF Resolved
    <2> QED BY <2>1, <2>2, <2>3, <2>4 DEF ResolverNext
<1> QED BY <1>1, <1>2, PTL DEF ResolverSpec

\* What was downloaded says what it said: references mean the configurations
\* whose ids they replace, and no id that can be referenced is kept.
THEOREM AlwaysSaysTheSame == ResolverSpec => []SaysTheSame
<1>1. LinkInv => SaysTheSame
    <2> SUFFICES ASSUME LinkInv, resolution = "done", NamesAreDistinct, NEW c \in Downloaded
                 PROVE  /\ \A i \in DOMAIN c.words :
                              LET w == templates[c][i]
                              IN  /\ w.text = c.words[i].text
                                  /\ w.as = "reference" =>
                                        /\ w.name \in DOMAIN references[c] /\ w.before # "letter"
                                        /\ Meant(c, i) # c
                                        /\ \E key \in Keys(Meant(c, i)) : Equals(w.text, key)
                                  /\ w.as = "extracted" => w.name = w.text
                                  /\ Referable(c, i) /\ ~Hidden(c, i) => w.as = "reference"
                        /\ scopes[c].by # {} => \E d \in scopes[c].by : d = c \/ scopes[c].key \in Keys(d)
                        /\ \A n \in DOMAIN references[c] : \E i \in DOMAIN c.words : templates[c][i].as = "reference" /\ templates[c][i].name = n
        BY DEF SaysTheSame
    <2>1. ASSUME NEW i \in DOMAIN c.words
          PROVE  /\ templates[c][i].text = c.words[i].text
                 /\ templates[c][i].as = "extracted" => templates[c][i].name = templates[c][i].text
                 /\ Referable(c, i) /\ ~Hidden(c, i) => templates[c][i].as = "reference"
        BY <2>1 DEF LinkInv, WordInv, WordFields, MentionInv, PassInv
    <2>2. ASSUME NEW i \in DOMAIN c.words, templates[c][i].as = "reference"
          PROVE  /\ templates[c][i].name \in DOMAIN references[c] /\ templates[c][i].before # "letter"
                 /\ Meant(c, i) # c
                 /\ \E key \in Keys(Meant(c, i)) : Equals(templates[c][i].text, key)
        <3>1. templates[c][i].name \in DOMAIN references[c] /\ IsMention(c, templates[c][i], templates[c][i].name)
            BY <2>2 DEF LinkInv, MentionInv
        <3>2. PICK from \in Downloaded :
                  /\ templates[c][i].name = CreateParameterName(from) /\ CanReference(c, from)
                  /\ \E key \in Keys(from) : Equals(templates[c][i].text, key)
            BY <3>1 DEF IsMention
        <3>3. Meant(c, i) \in Downloaded /\ templates[c][i].name = CreateParameterName(Meant(c, i))
            BY <3>1 DEF LinkInv, ReferenceInv, Meant
        <3>4. Meant(c, i) = from
            BY <3>2, <3>3 DEF NamesAreDistinct
        <3> QED BY <3>1, <3>2, <3>4 DEF IsMention, CanReference
    <2>3. scopes[c].by # {} => \E d \in scopes[c].by : d = c \/ scopes[c].key \in Keys(d)
        BY DEF LinkInv, ScopeInv
    <2>4. \A n \in DOMAIN references[c] : \E i \in DOMAIN c.words : templates[c][i].as = "reference" /\ templates[c][i].name = n
        BY DEF LinkInv, ReferenceInv
    <2> QED BY <2>1, <2>2, <2>3, <2>4
<1> QED BY <1>1, LinkInvariance, PTL

-----------------------------------------------------------------------------
\* Delete files: of the configurations seen, all whose name and scope are
\* known have an entry, and no other has one.
AllNamed == {c \in AskedFor : Nameable(c)}

CollectInv ==
    /\ toName \subseteq AskedFor
    /\ \A c \in toName : c.scope # Blank => c \in scoped
    /\ scoped \subseteq {c \in naming.configs : c.scope # Blank}
    /\ \A k \in DOMAIN entriesByKey : \E c \in AllNamed : entriesByKey[k] = CreateDeleteEntry(c) /\ k = ToMapKey(CreateDeleteEntry(c))
    /\ \A c \in AllNamed \ toName : ToMapKey(CreateDeleteEntry(c)) \in DOMAIN entriesByKey

\* The file has them all, and what was parsed of it gave pointers or is bad.
WrittenInv ==
    fileStage \in {"read", "loaded", "refused"} =>
        /\ toName = {}
        /\ file \in Seq(Collected)
        /\ {file[i] : i \in DOMAIN file} = Collected

ParseInv ==
    /\ fileStage = "collect" => parsed = 0 /\ pointers = {} /\ badEntry = FALSE
    /\ fileStage \in {"read", "loaded", "refused"} => parsed \in 0..Len(file)
    /\ fileStage \in {"read", "loaded"} =>
          /\ \A i \in 1..parsed : Convertible(file[i]) => ConvertToDeletePointer(file[i]) \in pointers
          /\ \A p \in pointers : \E i \in 1..parsed : Convertible(file[i]) /\ p = ConvertToDeletePointer(file[i])
    /\ fileStage \in {"read", "loaded", "refused"} => (badEntry <=> \E i \in 1..parsed : ~Convertible(file[i]))
    /\ fileStage = "loaded" => parsed = Len(file) /\ ~badEntry
    /\ fileStage = "refused" => badEntry

DeleteFileInv ==
    /\ naming \in FileRequests
    /\ fileStage \in {"collect", "read", "loaded", "refused", "error"}
    /\ badEntry \in BOOLEAN
    /\ naming.generate => CollectInv /\ WrittenInv /\ ParseInv

LEMMA NamingAre ==
    ASSUME naming \in FileRequests, naming.generate
    PROVE  /\ IsFiniteSet(AskedFor)
           /\ \A c \in naming.configs : c.project # Blank /\ c.type # Blank /\ c.id # Blank
           /\ \A c, d \in naming.configs :
                 c.project = d.project /\ c.type = d.type /\ c.id = d.id /\ c.env = d.env => c = d
<1>1. IsFiniteSet(naming.configs)
  BY DeleteFileAssumption
<1>2. AskedFor \in SUBSET naming.configs
  BY DEF AskedFor
<1>3. QED
  BY <1>1, <1>2, FS_Subset, DeleteFileAssumption

\* There is one configuration a scope refers to.
LEMMA OneParent ==
    ASSUME naming \in FileRequests, naming.generate, NEW c, NEW d \in GetConfigFor(c)
    PROVE  ParentsName(c) = d.name
<1>1. \A e \in GetConfigFor(c) : e = d
  BY NamingAre DEF GetConfigFor
<1>2. (CHOOSE e \in GetConfigFor(c) : TRUE) = d
  BY <1>1
<1>3. QED
  BY <1>2 DEF ParentsName

\* Until its turn a configuration has an entry if it can be named.
LEMMA NameableHasEntry ==
    ASSUME naming \in FileRequests, naming.generate, CollectInv, NEW c \in toName
    PROVE  (~Skipping(c.type) /\ (OfApi(c.type) => HasAPIEntry(c))) <=> Nameable(c)
<1>1. c.scope # Blank <=> c \in scoped
  BY DEF CollectInv
<1>2. (c \in scoped /\ GetConfigFor(c) # {} /\ ParentsName(c).kind = "value")
         <=> (c.scope # Blank /\ \E d \in GetConfigFor(c) : d.name.kind = "value")
  BY <1>1, OneParent
<1>3. BelowAnother(c.type) => OfApi(c.type)
  BY DEF BelowAnother, OfApi
<1>4. NeedsCustom(c.type) => OfApi(c.type)
  BY DEF NeedsCustom, OfApi
<1>5. ScopeIsUsable(c) <=> (c.scope # Blank /\ \E d \in GetConfigFor(c) : d.name.kind = "value")
  BY <1>2 DEF ScopeIsUsable
<1>6. QED
  BY <1>3, <1>4, <1>5 DEF HasAPIEntry, Nameable

LEMMA EntryIs ==
    ASSUME NEW c
    PROVE  LET e == CreateDeleteEntry(c)
           IN  /\ e.type = c.type /\ e.legacy = FALSE
               /\ OfApi(c.type) =>
                     /\ e.project = Blank /\ e.id = Blank /\ e.object = Blank /\ e.name = c.name.value
                     /\ e.scope = IF BelowAnother(c.type) THEN ParentsName(c).value ELSE Blank
                     /\ e.action = IF NeedsCustom(c.type) THEN c.action ELSE Blank
                     /\ e.domain = IF NeedsCustom(c.type) THEN c.domain ELSE Blank
               /\ ~OfApi(c.type) => e.name = Blank /\ e.scope = Blank /\ e.action = Blank /\ e.domain = Blank
               /\ HasOwnId(c) => e.project = Blank /\ e.id = Blank /\ e.object = c.custom
               /\ ~OfApi(c.type) /\ ~HasOwnId(c) => e.project = c.project /\ e.id = c.id /\ e.object = Blank
               /\ e = [legacy |-> e.legacy, project |-> e.project, type |-> e.type, id |-> e.id, name |-> e.name,
                       object |-> e.object, scope |-> e.scope, action |-> e.action, domain |-> e.domain]
<1>1. CASE OfApi(c.type)
  <2>1. CreateDeleteEntry(c) = CreateConfigAPIEntry(c)
    BY <1>1 DEF CreateDeleteEntry
  <2>2. QED
    BY <1>1, <2>1 DEF CreateConfigAPIEntry, FileEntry, HasOwnId
<1>2. CASE HasOwnId(c)
  <2>1. CreateDeleteEntry(c) = [FileEntry EXCEPT !.type = c.type, !.object = c.custom]
    BY <1>2 DEF CreateDeleteEntry, HasOwnId
  <2>2. QED
    BY <1>2, <2>1 DEF FileEntry, HasOwnId
<1>3. CASE ~OfApi(c.type) /\ ~HasOwnId(c)
  <2>1. CreateDeleteEntry(c) = [FileEntry EXCEPT !.project = c.project, !.type = c.type, !.id = c.id]
    BY <1>3 DEF CreateDeleteEntry, HasOwnId
  <2>2. QED
    BY <1>3, <2>1 DEF FileEntry
<1>4. QED
  BY <1>1, <1>2, <1>3

\* Configurations with one key have one entry, but for ids of their own.
LEMMA SameKeySameEntry ==
    ASSUME naming \in FileRequests, naming.generate, NEW c \in AllNamed, NEW d \in AllNamed,
           ToMapKey(CreateDeleteEntry(c)) = ToMapKey(CreateDeleteEntry(d))
    PROVE  CreateDeleteEntry(c) = CreateDeleteEntry(d) \/ ShareKey(c, d)
<1>. DEFINE e == CreateDeleteEntry(c)
            f == CreateDeleteEntry(d)
<1>1. /\ e.project = f.project /\ e.type = f.type /\ e.id = f.id /\ e.name = f.name
      /\ e.scope = f.scope /\ e.domain = f.domain /\ e.action = f.action
  BY DEF ToMapKey
<1>2. c.type = d.type /\ e.legacy = f.legacy
  BY <1>1, EntryIs
<1>3. c.project # Blank /\ d.project # Blank
  BY NamingAre DEF AllNamed, AskedFor
<1>4. CASE e.object = f.object
  <2>1. /\ e = [legacy |-> e.legacy, project |-> e.project, type |-> e.type, id |-> e.id, name |-> e.name,
                object |-> e.object, scope |-> e.scope, action |-> e.action, domain |-> e.domain]
        /\ f = [legacy |-> f.legacy, project |-> f.project, type |-> f.type, id |-> f.id, name |-> f.name,
                object |-> f.object, scope |-> f.scope, action |-> f.action, domain |-> f.domain]
    BY EntryIs
  <2>. HIDE DEF e, f
  <2>2. e = f
    BY <1>1, <1>2, <1>4, <2>1
  <2>3. QED
    BY <2>2 DEF e, f
<1>5. CASE e.object # f.object
  <2>1. ~OfApi(c.type) /\ ~OfApi(d.type)
    BY <1>2, <1>5, EntryIs
  <2>2. HasOwnId(c) /\ HasOwnId(d)
    <3>1. /\ HasOwnId(c) => e.project = Blank
          /\ HasOwnId(d) => f.project = Blank
          /\ ~HasOwnId(c) => e.project = c.project /\ e.object = Blank
          /\ ~HasOwnId(d) => f.project = d.project /\ f.object = Blank
      BY <2>1, EntryIs
    <3>. HIDE DEF e, f
    <3>2. QED
      BY <1>1, <1>3, <1>5, <3>1
  <2>3. QED
    BY <1>2, <2>2 DEF ShareKey
<1>6. QED
  BY <1>4, <1>5

\* The entry of a configuration loads exactly if the configuration is sound.
LEMMA SoundLoads ==
    ASSUME naming \in FileRequests, naming.generate, NEW c \in AllNamed
    PROVE  Convertible(CreateDeleteEntry(c)) <=> Sound(c)
<1>. DEFINE e == CreateDeleteEntry(c)
<1>1. /\ c.project # Blank /\ c.type # Blank /\ c.id # Blank /\ Nameable(c)
  BY NamingAre DEF AllNamed, AskedFor
<1>2. BelowAnother(c.type) => OfApi(c.type)
  BY DEF BelowAnother, OfApi
<1>3. NeedsCustom(c.type) => OfApi(c.type)
  BY DEF NeedsCustom, OfApi
<1>4. e.type = c.type /\ e.legacy = FALSE
  BY EntryIs
<1>5. CASE OfApi(c.type)
  <2>1. /\ e.id = Blank /\ e.project = Blank /\ e.object = Blank /\ e.name # Blank
        /\ e.scope = IF BelowAnother(c.type) THEN ParentsName(c).value ELSE Blank
        /\ NeedsCustom(c.type) => e.action = c.action /\ e.domain = c.domain
    BY <1>1, <1>5, EntryIs DEF Nameable, NameIsUsable
  <2>2. VerifyAPIEntry(e) <=> Sound(c)
    <3>1. BelowAnother(c.type) => (e.scope # Blank <=> \A d \in GetConfigFor(c) : d.name.value # Blank)
      BY <1>1, <2>1, OneParent DEF Nameable
    <3>2. (e.name = Blank) # (e.object = Blank)
      BY <2>1
    <3>. HIDE DEF e
    <3>3. QED
      BY <1>4, <2>1, <3>1, <3>2 DEF VerifyAPIEntry, Sound
  <2>. HIDE DEF e
  <2>3. Convertible(e) <=> VerifyAPIEntry(e)
    BY <1>1, <1>4, <1>5 DEF Convertible
  <2>4. QED
    BY <2>2, <2>3 DEF e
<1>6. CASE ~OfApi(c.type)
  <2>1. Sound(c)
    BY <1>2, <1>3, <1>6 DEF Sound
  <2>2. VerifyCoordinateEntry(e)
    BY <1>1, <1>6, EntryIs DEF VerifyCoordinateEntry, HasOwnId
  <2>. HIDE DEF e
  <2>3. Convertible(e)
    BY <1>1, <1>4, <1>6, <2>2 DEF Convertible
  <2>4. QED
    BY <2>1, <2>3 DEF e
<1>7. QED
  BY <1>5, <1>6

\* The pointer of the entry of a configuration names it.
LEMMA EntryNamesIt ==
    ASSUME naming \in FileRequests, naming.generate, NEW c \in AllNamed
    PROVE  LET p == ConvertToDeletePointer(CreateDeleteEntry(c))
           IN  /\ ~Astray(c) => NamedBy(c, p)
               /\ Astray(c) => p.type = c.type /\ p.ident = c.name.value
<1>. DEFINE e == CreateDeleteEntry(c)
            p == ConvertToDeletePointer(e)
<1>1. e.type = c.type /\ e.legacy = FALSE
  BY EntryIs
<1>2. /\ p.project = e.project /\ p.type = c.type /\ p.ident = (IF OfApi(c.type) THEN e.name ELSE e.id)
      /\ p.scope = e.scope /\ p.action = e.action /\ p.domain = e.domain /\ p.origin = e.object
  BY <1>1 DEF ConvertToDeletePointer, Convert
<1>3. Astray(c) => OfApi(c.type)
  BY DEF Astray, BelowAnother, OfApi
<1>4. CASE OfApi(c.type)
  <2>1. /\ p.ident = c.name.value /\ p.origin = Blank
        /\ NeedsCustom(c.type) => p.domain = c.domain /\ p.action = c.action
        /\ BelowAnother(c.type) => p.scope = ParentsName(c).value
    BY <1>2, <1>4, EntryIs
  <2>2. ASSUME BelowAnother(c.type), ~Astray(c)
        PROVE  \E d \in naming.configs : IsTheScopeOf(d, c) /\ p.scope = d.name.value
    <3>1. PICK d \in GetConfigFor(c) : TRUE
      BY <2>2 DEF AllNamed, Nameable
    <3>2. d \in naming.configs /\ IsTheScopeOf(d, c)
      BY <2>2, <3>1 DEF GetConfigFor, IsTheScopeOf, Astray
    <3>3. QED
      BY <2>1, <2>2, <3>1, <3>2, OneParent
  <2>. HIDE DEF p
  <2>3. ~Astray(c) => NamedBy(c, p)
    BY <1>2, <1>4, <2>1, <2>2 DEF NamedBy
  <2>4. QED
    BY <1>2, <2>1, <2>3 DEF p
<1>5. CASE ~OfApi(c.type)
  <2>1. /\ HasOwnId(c) => p.origin = c.custom
        /\ ~HasOwnId(c) => p.origin = Blank /\ p.project = c.project /\ p.ident = c.id
    BY <1>2, <1>5, EntryIs
  <2>. HIDE DEF p
  <2>2. NamedBy(c, p)
    BY <1>2, <1>5, <2>1 DEF NamedBy, HasOwnId
  <2>3. QED
    BY <1>3, <1>5, <2>2 DEF p
<1>6. QED
  BY <1>4, <1>5

LEMMA DeleteFileFrame ==
    ASSUME UNCHANGED naming
    PROVE  /\ AllNamed' = AllNamed /\ AskedFor' = AskedFor
           /\ \A c : CreateDeleteEntry(c)' = CreateDeleteEntry(c)
<1>1. AskedFor' = AskedFor
  BY DEF AskedFor
<1>2. \A c : GetConfigFor(c)' = GetConfigFor(c)
  BY DEF GetConfigFor
<1>3. \A c : ParentsName(c)' = ParentsName(c)
  BY <1>2 DEF ParentsName
<1>4. \A c : Nameable(c)' = Nameable(c)
  BY <1>2 DEF Nameable, Skipping, NameIsUsable
<1>5. \A c : CreateDeleteEntry(c)' = CreateDeleteEntry(c)
  BY <1>3 DEF CreateDeleteEntry, CreateConfigAPIEntry
<1>6. QED
  BY <1>1, <1>4, <1>5 DEF AllNamed

LEMMA StartsFile == DeleteFileInit => DeleteFileInv
<1>. SUFFICES ASSUME DeleteFileInit PROVE DeleteFileInv
  OBVIOUS
<1>1. naming.generate => CollectInv
  BY DEF DeleteFileInit, CollectInv, AskedFor, AllNamed
<1>2. naming.generate => WrittenInv /\ ParseInv
  BY DEF DeleteFileInit, WrittenInv, ParseInv
<1>3. QED
  BY <1>1, <1>2 DEF DeleteFileInit, DeleteFileInv

LEMMA PutKeeps == ASSUME DeleteFileInv, NEW c \in toName, Put(c) PROVE DeleteFileInv'
<1>1. /\ naming' = naming /\ fileStage = "collect" /\ fileStage' = "collect" /\ badEntry' = badEntry
      /\ parsed' = parsed /\ pointers' = pointers /\ toName' = toName \ {c} /\ naming \in FileRequests
      /\ scoped' \in {scoped, scoped \ {c}} /\ badEntry \in BOOLEAN
  BY DEF Put, DeleteFileInv
<1>2. ASSUME naming.generate PROVE CollectInv'
  <2>. DEFINE e == CreateDeleteEntry(c)
  <2>1. CollectInv /\ c \in AskedFor
    BY <1>2 DEF DeleteFileInv, CollectInv
  <2>2. toName' \subseteq AskedFor /\ scoped' \subseteq {d \in naming.configs : d.scope # Blank}
        /\ \A d \in toName' : d.scope # Blank => d \in scoped'
    BY <1>1, <2>1 DEF CollectInv
  <2>3. CASE Nameable(c)
    <3>1. entriesByKey' = [k \in DOMAIN entriesByKey \cup {ToMapKey(e)} |-> IF k = ToMapKey(e) THEN e ELSE entriesByKey[k]]
      BY <1>1, <1>2, <2>1, <2>3, NameableHasEntry DEF Put, Store
    <3>2. c \in AllNamed
      BY <2>1, <2>3 DEF AllNamed
    <3>. HIDE DEF e
    <3>3. ASSUME NEW k \in DOMAIN entriesByKey'
          PROVE  \E d \in AllNamed : entriesByKey'[k] = CreateDeleteEntry(d) /\ k = ToMapKey(CreateDeleteEntry(d))
      <4>1. CASE k = ToMapKey(e)
        <5>1. entriesByKey'[k] = e
          BY <3>1, <4>1
        <5>2. QED
          BY <3>2, <4>1, <5>1 DEF e
      <4>2. CASE k # ToMapKey(e)
        <5>1. k \in DOMAIN entriesByKey /\ entriesByKey'[k] = entriesByKey[k]
          BY <3>1, <3>3, <4>2
        <5>2. QED
          BY <2>1, <5>1 DEF CollectInv
      <4>3. QED
        BY <4>1, <4>2
    <3>4. ASSUME NEW d \in AllNamed \ toName' PROVE ToMapKey(CreateDeleteEntry(d)) \in DOMAIN entriesByKey'
      <4>1. CASE d = c
        BY <3>1, <4>1 DEF e
      <4>2. CASE d # c
        <5>1. ToMapKey(CreateDeleteEntry(d)) \in DOMAIN entriesByKey
          BY <1>1, <2>1, <3>4, <4>2 DEF CollectInv
        <5>2. QED
          BY <3>1, <5>1
      <4>3. QED
        BY <4>1, <4>2
    <3>5. QED
      BY <1>1, <2>2, <3>3, <3>4, DeleteFileFrame DEF CollectInv, ToMapKey
  <2>4. CASE ~Nameable(c)
    <3>1. entriesByKey' = entriesByKey
      BY <1>1, <1>2, <2>1, <2>4, NameableHasEntry DEF Put
    <3>2. AllNamed \ toName' = AllNamed \ toName
      BY <1>1, <2>4 DEF AllNamed
    <3>3. QED
      BY <1>1, <2>1, <2>2, <3>1, <3>2, DeleteFileFrame DEF CollectInv, ToMapKey
  <2>5. QED
    BY <2>3, <2>4
<1>3. naming.generate => WrittenInv' /\ ParseInv'
  BY <1>1 DEF DeleteFileInv, WrittenInv, ParseInv
<1>4. QED
  BY <1>1, <1>2, <1>3 DEF DeleteFileInv

LEMMA WriteKeeps == DeleteFileInv /\ CreateDeleteFile => DeleteFileInv'
<1>. SUFFICES ASSUME DeleteFileInv, CreateDeleteFile PROVE DeleteFileInv'
  OBVIOUS
<1>1. /\ naming' = naming /\ fileStage = "collect" /\ fileStage' \in {"read", "error"} /\ badEntry' = badEntry
      /\ parsed' = parsed /\ pointers' = pointers /\ toName' = toName /\ scoped' = scoped
      /\ entriesByKey' = entriesByKey /\ toName = {} /\ naming \in FileRequests /\ badEntry \in BOOLEAN
  BY DEF CreateDeleteFile, DeleteFileInv
<1>2. naming.generate => CollectInv'
  BY <1>1, DeleteFileFrame DEF DeleteFileInv, CollectInv, ToMapKey
<1>3. CASE fileStage' = "error"
  <2>1. WrittenInv' /\ ParseInv'
    BY <1>3 DEF WrittenInv, ParseInv
  <2>2. QED
    BY <1>1, <1>2, <1>3, <2>1 DEF DeleteFileInv
<1>4. CASE fileStage' = "read"
  <2>1. file' \in [1..Cardinality(Collected) -> Collected] /\ {file'[i] : i \in DOMAIN file'} = Collected
    BY <1>4 DEF CreateDeleteFile
  <2>2. ASSUME naming.generate PROVE Cardinality(Collected) \in Nat
    <3>. DEFINE entryOf == [c \in AskedFor |-> CreateDeleteEntry(c)]
                all == {entryOf[c] : c \in AskedFor}
    <3>1. entryOf \in Surjection(AskedFor, all)
      BY DEF Surjection
    <3>2. IsFiniteSet(all)
      BY <1>1, <2>2, <3>1, NamingAre, FS_Surjection
    <3>3. Collected \in SUBSET all
      <4>1. ASSUME NEW k \in DOMAIN entriesByKey PROVE entriesByKey[k] \in all
        <5>1. PICK c \in AllNamed : entriesByKey[k] = CreateDeleteEntry(c)
          BY <2>2, <4>1 DEF DeleteFileInv, CollectInv
        <5>2. c \in AskedFor /\ entryOf[c] = CreateDeleteEntry(c)
          BY DEF AllNamed
        <5>3. QED
          BY <5>1, <5>2
      <4>2. QED
        BY <4>1 DEF Collected
    <3>. HIDE DEF all
    <3>4. QED
      BY <3>2, <3>3, FS_Subset, FS_CardinalityType
  <2>3. naming.generate => file' \in Seq(Collected) /\ Len(file') \in Nat
    BY <2>1, <2>2
  <2>4. Collected' = Collected
    BY <1>1 DEF Collected
  <2>5. naming.generate => WrittenInv'
    BY <1>1, <2>1, <2>3, <2>4 DEF WrittenInv
  <2>6. naming.generate => ParseInv'
    BY <1>1, <1>4, <2>3 DEF DeleteFileInv, ParseInv
  <2>7. QED
    BY <1>1, <1>2, <2>5, <2>6 DEF DeleteFileInv
<1>5. QED
  BY <1>1, <1>3, <1>4

LEMMA ReadKeeps == DeleteFileInv /\ (ReadFails \/ Parse \/ LoadEntries) => DeleteFileInv'
<1>. SUFFICES ASSUME DeleteFileInv, ReadFails \/ Parse \/ LoadEntries PROVE DeleteFileInv'
  OBVIOUS
<1>1. /\ naming' = naming /\ fileStage = "read" /\ toName' = toName /\ scoped' = scoped /\ file' = file
      /\ entriesByKey' = entriesByKey /\ naming \in FileRequests
      /\ fileStage' \in {"read", "loaded", "refused", "error"} /\ badEntry' \in BOOLEAN
  BY DEF ReadFails, Parse, LoadEntries, DeleteFileInv
<1>2. naming.generate => CollectInv'
  BY <1>1, DeleteFileFrame DEF DeleteFileInv, CollectInv, ToMapKey
<1>3. naming.generate => WrittenInv'
  BY <1>1 DEF DeleteFileInv, WrittenInv, Collected
<1>4. ASSUME naming.generate PROVE ParseInv'
  <2>1. /\ parsed \in 0..Len(file) /\ file \in Seq(Collected) /\ badEntry \in BOOLEAN
        /\ \A i \in 1..parsed : Convertible(file[i]) => ConvertToDeletePointer(file[i]) \in pointers
        /\ \A p \in pointers : \E i \in 1..parsed : Convertible(file[i]) /\ p = ConvertToDeletePointer(file[i])
        /\ badEntry <=> \E i \in 1..parsed : ~Convertible(file[i])
    BY <1>1, <1>4 DEF DeleteFileInv, WrittenInv, ParseInv
  <2>2. CASE ReadFails
    BY <2>2 DEF ReadFails, ParseInv
  <2>3. CASE Parse
    <3>. DEFINE e == file[parsed + 1]
    <3>1. /\ parsed' = parsed + 1 /\ parsed < Len(file) /\ fileStage' = "read"
          /\ Convertible(e) => pointers' = pointers \cup {ConvertToDeletePointer(e)} /\ badEntry' = badEntry
          /\ ~Convertible(e) => badEntry' = TRUE /\ pointers' = pointers
      BY <1>1, <2>3 DEF Parse
    <3>2. /\ parsed' \in 0..Len(file) /\ parsed' \in 1..parsed' /\ \A i \in 1..parsed : i \in 1..parsed'
          /\ \A i \in 1..parsed' : i = parsed' \/ i \in 1..parsed
      BY <2>1, <3>1
    <3>3. /\ \A i \in 1..parsed' : Convertible(file[i]) => ConvertToDeletePointer(file[i]) \in pointers'
          /\ \A p \in pointers' : \E i \in 1..parsed' : Convertible(file[i]) /\ p = ConvertToDeletePointer(file[i])
          /\ badEntry' <=> \E i \in 1..parsed' : ~Convertible(file[i])
      <4>1. CASE Convertible(e)
        BY <2>1, <3>1, <3>2, <4>1
      <4>2. CASE ~Convertible(e)
        BY <2>1, <3>1, <3>2, <4>2
      <4>3. QED
        BY <4>1, <4>2
    <3>4. QED
      BY <1>1, <3>1, <3>2, <3>3 DEF ParseInv, Convertible, ConvertToDeletePointer, Convert, ConvertLegacy,
             VerifyAPIEntry, VerifyCoordinateEntry
  <2>4. CASE LoadEntries
    <3>1. /\ parsed' = parsed /\ parsed = Len(file) /\ badEntry' = badEntry
          /\ ~badEntry => fileStage' = "loaded" /\ pointers' = pointers
          /\ badEntry => fileStage' = "refused"
      BY <2>4 DEF LoadEntries
    <3>2. QED
      BY <1>1, <2>1, <3>1 DEF ParseInv, Convertible, ConvertToDeletePointer, Convert, ConvertLegacy,
             VerifyAPIEntry, VerifyCoordinateEntry
  <2>5. QED
    BY <2>2, <2>3, <2>4
<1>5. QED
  BY <1>1, <1>2, <1>3, <1>4 DEF DeleteFileInv

\* The inductive invariant of a delete file, generated and loaded again: each
\* configuration that can be named has an entry of its key, and the file is
\* bad exactly if one of them is (generateDeleteEntries, LoadEntriesFromFile).
THEOREM DeleteFileInvariance == DeleteFileSpec => []DeleteFileInv
<1>1. DeleteFileInv /\ [DeleteFileNext]_deleteFileVars => DeleteFileInv'
  <2>. SUFFICES ASSUME DeleteFileInv, [DeleteFileNext]_deleteFileVars PROVE DeleteFileInv'
    OBVIOUS
  <2>1. CASE Visit \/ VisitIn
    BY <2>1, PutKeeps DEF Visit, VisitIn
  <2>2. CASE CreateDeleteFile
    BY <2>2, WriteKeeps
  <2>3. CASE ReadFails \/ Parse \/ LoadEntries
    BY <2>3, ReadKeeps
  <2>4. CASE UNCHANGED deleteFileVars
    <3>1. /\ naming' = naming /\ toName' = toName /\ scoped' = scoped /\ entriesByKey' = entriesByKey /\ file' = file
          /\ parsed' = parsed /\ pointers' = pointers /\ badEntry' = badEntry /\ fileStage' = fileStage
      BY <2>4 DEF deleteFileVars
    <3>2. CollectInv => CollectInv'
      BY <3>1, DeleteFileFrame DEF CollectInv, ToMapKey
    <3>3. WrittenInv => WrittenInv'
      BY <3>1 DEF WrittenInv, Collected
    <3>4. ParseInv => ParseInv'
      BY <3>1 DEF ParseInv, Convertible, ConvertToDeletePointer, Convert, ConvertLegacy, VerifyAPIEntry, VerifyCoordinateEntry
    <3>5. QED
      BY <3>1, <3>2, <3>3, <3>4 DEF DeleteFileInv
  <2>5. QED
    BY <2>1, <2>2, <2>3, <2>4 DEF DeleteFileNext, FileDone
<1>2. QED
  BY StartsFile, <1>1, PTL DEF DeleteFileSpec

\* A generated file names all it can, and only what was asked for, whatever
\* the projects and options are; it is refused only for names and templates
\* that lack something (generateDeleteEntries, LoadEntriesFromFile).
THEOREM AlwaysNamesAll == DeleteFileSpec => []GeneratedNamesAll
<1>1. DeleteFileInv => GeneratedNamesAll
  <2>. SUFFICES ASSUME DeleteFileInv, naming.generate, fileStage \in {"loaded", "refused"}
                PROVE  IF \E c \in AllNamed : ~Sound(c) THEN fileStage = "refused"
                       ELSE /\ fileStage = "loaded"
                            /\ \A c \in AllNamed : ~Astray(c) =>
                                  \E p \in pointers : \E d \in AllNamed : NamedBy(d, p) /\ (d = c \/ ShareKey(c, d))
                            /\ \A p \in pointers : \E c \in AllNamed :
                                  \/ NamedBy(c, p)
                                  \/ Astray(c) /\ p.type = c.type /\ p.ident = c.name.value
    BY DEF GeneratedNamesAll, AllNamed
  <2>1. /\ naming \in FileRequests /\ toName = {} /\ file \in Seq(Collected) /\ {file[i] : i \in DOMAIN file} = Collected
        /\ Len(file) \in Nat /\ DOMAIN file = 1..Len(file) /\ parsed \in 0..Len(file)
    BY DEF DeleteFileInv, WrittenInv, ParseInv
  <2>2. \A k \in DOMAIN entriesByKey : \E c \in AllNamed : entriesByKey[k] = CreateDeleteEntry(c) /\ k = ToMapKey(CreateDeleteEntry(c))
    BY DEF DeleteFileInv, CollectInv
  <2>3. ASSUME NEW i \in DOMAIN file PROVE \E c \in AllNamed : file[i] = CreateDeleteEntry(c)
    <3>1. file[i] \in Collected
      BY <2>1
    <3>2. QED
      BY <2>2, <3>1 DEF Collected
  <2>4. ASSUME NEW c \in AllNamed
        PROVE  \E i \in DOMAIN file : \E d \in AllNamed :
                  file[i] = CreateDeleteEntry(d) /\ (CreateDeleteEntry(d) = CreateDeleteEntry(c) \/ ShareKey(c, d))
    <3>. DEFINE k == ToMapKey(CreateDeleteEntry(c))
    <3>1. k \in DOMAIN entriesByKey
      BY <2>1, <2>4 DEF DeleteFileInv, CollectInv
    <3>2. PICK d \in AllNamed : entriesByKey[k] = CreateDeleteEntry(d) /\ k = ToMapKey(CreateDeleteEntry(d))
      BY <2>2, <3>1
    <3>3. CreateDeleteEntry(d) = CreateDeleteEntry(c) \/ ShareKey(c, d)
      BY <2>1, <3>2, SameKeySameEntry
    <3>4. CreateDeleteEntry(d) \in Collected
      BY <3>1, <3>2 DEF Collected
    <3>5. PICK i \in DOMAIN file : file[i] = CreateDeleteEntry(d)
      BY <2>1, <3>4
    <3>6. QED
      BY <3>3, <3>5
  <2>5. ASSUME NEW c \in AllNamed, ~Sound(c) PROVE fileStage = "refused"
    <3>1. PICK i \in DOMAIN file : \E d \in AllNamed :
             file[i] = CreateDeleteEntry(d) /\ (CreateDeleteEntry(d) = CreateDeleteEntry(c) \/ ShareKey(c, d))
      BY <2>4
    <3>2. ~OfApi(c.type) => Sound(c)
      BY DEF Sound, OfApi, BelowAnother, NeedsCustom
    <3>3. file[i] = CreateDeleteEntry(c)
      BY <2>5, <3>1, <3>2 DEF ShareKey, HasOwnId
    <3>4. ~Convertible(file[i])
      BY <2>1, <2>5, <3>3, SoundLoads
    <3>5. fileStage = "loaded" => i \in 1..parsed
      BY <2>1 DEF DeleteFileInv, ParseInv
    <3>6. QED
      BY <3>4, <3>5 DEF DeleteFileInv, ParseInv
  <2>6. ASSUME \A c \in AllNamed : Sound(c)
        PROVE  /\ fileStage = "loaded"
               /\ \A c \in AllNamed : ~Astray(c) =>
                     \E p \in pointers : \E d \in AllNamed : NamedBy(d, p) /\ (d = c \/ ShareKey(c, d))
               /\ \A p \in pointers : \E c \in AllNamed :
                     \/ NamedBy(c, p)
                     \/ Astray(c) /\ p.type = c.type /\ p.ident = c.name.value
    <3>1. ASSUME NEW i \in DOMAIN file PROVE Convertible(file[i])
      BY <2>1, <2>3, <2>6, SoundLoads
    <3>2. fileStage = "loaded"
      <4>1. \A i \in 1..parsed : i \in DOMAIN file
        BY <2>1
      <4>2. QED
        BY <3>1, <4>1 DEF DeleteFileInv, ParseInv
    <3>3. /\ \A i \in 1..parsed : Convertible(file[i]) => ConvertToDeletePointer(file[i]) \in pointers
          /\ \A p \in pointers : \E i \in 1..parsed : Convertible(file[i]) /\ p = ConvertToDeletePointer(file[i])
          /\ 1..parsed = DOMAIN file
      BY <2>1, <3>2 DEF DeleteFileInv, ParseInv
    <3>4. ASSUME NEW c \in AllNamed, ~Astray(c)
          PROVE  \E p \in pointers : \E d \in AllNamed : NamedBy(d, p) /\ (d = c \/ ShareKey(c, d))
      <4>1. PICK i \in DOMAIN file : \E d \in AllNamed :
               file[i] = CreateDeleteEntry(d) /\ (CreateDeleteEntry(d) = CreateDeleteEntry(c) \/ ShareKey(c, d))
        BY <2>4
      <4>2. PICK d \in AllNamed :
               file[i] = CreateDeleteEntry(d) /\ (CreateDeleteEntry(d) = CreateDeleteEntry(c) \/ ShareKey(c, d))
        BY <4>1
      <4>3. ConvertToDeletePointer(file[i]) \in pointers
        BY <3>1, <3>3
      <4>4. CASE CreateDeleteEntry(d) = CreateDeleteEntry(c)
        BY <2>1, <3>4, <4>2, <4>3, <4>4, EntryNamesIt
      <4>5. CASE ShareKey(c, d)
        <5>1. ~Astray(d)
          BY <4>5 DEF ShareKey, HasOwnId, Astray, BelowAnother, OfApi
        <5>2. NamedBy(d, ConvertToDeletePointer(file[i]))
          BY <2>1, <4>2, <5>1, EntryNamesIt
        <5>3. QED
          BY <4>3, <4>5, <5>2
      <4>6. QED
        BY <4>2, <4>4, <4>5
    <3>5. ASSUME NEW p \in pointers
          PROVE  \E c \in AllNamed : NamedBy(c, p) \/ (Astray(c) /\ p.type = c.type /\ p.ident = c.name.value)
      <4>1. PICK i \in DOMAIN file : p = ConvertToDeletePointer(file[i])
        BY <3>3
      <4>2. PICK c \in AllNamed : file[i] = CreateDeleteEntry(c)
        BY <2>3
      <4>3. QED
        BY <2>1, <4>1, <4>2, EntryNamesIt
    <3>6. QED
      BY <3>2, <3>4, <3>5
  <2>7. QED
    BY <2>5, <2>6
<1>2. QED
  BY <1>1, DeleteFileInvariance, PTL

-----------------------------------------------------------------------------
\* Downloads.  Every object that is taken is, once its list is read, still to
\* be fetched, one that could not be read, or among the configurations.

AllKinds == {"classic", "settings", "automation", "bucket", "document", "openpipeline", "segment", "slo-v2"}

\* What a complete download has an object for.
FirstValues(a) == FilterConfigsToSkip(CheckAndRemoveValuesWithDuplicateIDs(FindConfigsToDownload(a)))

Taken(o) ==
    /\ ShouldDownload(o.kind) /\ HasCredentials(o.kind)
    /\ o.type \in Lists(o.kind)
    /\ o.kind = "classic"  => o \in FirstValues(o.type)
    /\ o.kind = "settings" => o \in Kept(o.type)
    /\ o.kind = "document" => ~IsReadyMade(o)

\* The configurations an object becomes.
Made(o) ==
    IF o.kind = "classic"       THEN CreateConfigObjects(o)
    ELSE IF o.kind = "settings" THEN {Config(o, o.content, Absent, InsertAfter(o))}
    ELSE ConvertAll({o})

IsRead(kind, list) == kind \notin remaining \/ (AtWork(kind) /\ begun /\ list \notin listing)

Finished(o) ==
    /\ Taken(o) /\ IsRead(o.kind, o.type)
    /\ <<o.kind, o.type>> \notin unlisted /\ o \notin unread /\ o \notin fetching

FetchedOneByOne == {"classic", "automation", "document"}

TurnInv ==
    /\ remaining \subseteq AllKinds
    /\ begun \in BOOLEAN
    /\ ~begun => listing = {} /\ fetching = {}
    /\ progress = "start" => remaining = AllKinds /\ ~begun
    /\ progress = "download" => \A k \in remaining : ShouldDownload(k) /\ HasCredentials(k)
    /\ begun => \A k : AtWork(k) => listing \subseteq Lists(k)
    /\ ended = "ok" => progress = "done" /\ remaining = {}
    /\ Absent = ended \/ progress = "done"

FetchInv ==
    \A o \in fetching :
        /\ o \in Objects /\ o.kind \in FetchedOneByOne
        /\ Taken(o) /\ AtWork(o.kind) /\ begun /\ o.type \notin listing
        /\ <<o.kind, o.type>> \notin unlisted /\ o \notin unread

FailInv ==
    /\ \A kind, list : <<kind, list>> \in unlisted => IsRead(kind, list)
    /\ \A o \in unread : o \in Objects /\ o.kind \in FetchedOneByOne /\ IsRead(o.kind, o.type)

FoundInv ==
    /\ \A o \in Objects : Result(o) = IF Finished(o) THEN Made(o) ELSE {}
    /\ \A c \in foundConfigs : \E o \in Objects : c \in Result(o)

DownloadInv == request \in DownloadRequests /\ TurnInv /\ FetchInv /\ FailInv /\ FoundInv

-----------------------------------------------------------------------------
\* An object is one by kind, type, id and parent.
LEMMA ObjectsAre ==
    ASSUME request \in DownloadRequests
    PROVE  /\ \A o, p \in Objects : o.kind = p.kind /\ o.type = p.type /\ Key(o) = Key(p) => o = p
           /\ \A o \in Objects : o.kind \in AllKinds /\ Position(o) \in Nat /\ Position(o) \in DOMAIN request.objects
                                 /\ o = request.objects[Position(o)]
           /\ \A o \in Objects : o.kind # "classic" => o.parent = Absent
           /\ \A o \in Objects : o.kind = "classic" =>
                 /\ o.type \in APIs /\ o.state \in {"ok", "skipped", "dropped"}
                 /\ o.parent # Absent <=> HasParentAPI(o.type)
           /\ \A o \in Objects : o.kind = "settings" =>
                 o.type \in request.known /\ o.state \in {"ok", "broken", "unmodifiable", "discarded"}
           /\ \A o \in Objects : o.kind \notin {"classic", "settings"} =>
                 o.type \in Lists(o.kind) /\ o.state \in {"ok", "broken", "immutable", "deleting", "ready made"}
           /\ \A o \in Objects : o.kind = "automation" => o.state = "ok"
<1>0. \A S : \A s \in Seq(S) : DOMAIN s \subseteq Nat
    OBVIOUS
<1> USE DownloadRequestsAssumption DEF Objects
<1>1. ASSUME NEW o \in Objects, NEW p \in Objects, o.kind = p.kind, o.type = p.type, Key(o) = Key(p)
      PROVE  o = p
    <2>1. o.id = p.id /\ o.parent = p.parent
        BY <1>1 DEF Key
    <2>2. PICK i \in DOMAIN request.objects : o = request.objects[i]
        BY <1>1
    <2>3. PICK j \in DOMAIN request.objects : p = request.objects[j]
        BY <1>1
    <2>4. i = j
        BY <1>1, <2>1, <2>2, <2>3
    <2> QED BY <2>2, <2>3, <2>4
<1>2. DOMAIN request.objects \subseteq Nat
    <2>1. request.objects \in Seq(Objects)
        OBVIOUS
    <2> QED BY <2>1, <1>0
<1>3. ASSUME NEW o \in Objects
      PROVE  Position(o) \in Nat /\ Position(o) \in DOMAIN request.objects /\ o = request.objects[Position(o)]
    <2>1. \E i \in DOMAIN request.objects : request.objects[i] = o
        BY <1>3
    <2> QED BY <2>1, <1>2 DEF Position
<1>4. ASSUME NEW o \in Objects
      PROVE  \/ /\ o.kind = "classic" /\ o.type \in APIs /\ o.state \in {"ok", "skipped", "dropped"}
                /\ o.parent # Absent <=> HasParentAPI(o.type)
             \/ /\ o.parent = Absent
                /\ \/ /\ o.kind = "settings" /\ o.type \in request.known
                      /\ o.state \in {"ok", "broken", "unmodifiable", "discarded"}
                   \/ o.kind = "automation" /\ o.type \in {"workflow", "calendar"} /\ o.state = "ok"
                   \/ o.kind = "document" /\ o.type = "notebook" /\ o.state \in {"ok", "broken", "ready made"}
                   \/ o.kind = "bucket" /\ o.type = o.kind /\ o.state \in {"ok", "broken", "immutable", "deleting"}
                   \/ o.kind = "segment" /\ o.type = o.kind /\ o.state \in {"ok", "broken", "ready made"}
                   \/ o.kind \in {"openpipeline", "slo-v2"} /\ o.type = o.kind /\ o.state \in {"ok", "broken"}
    <2>1. PICK i \in DOMAIN request.objects : o = request.objects[i]
        BY <1>4
    <2> QED BY <2>1
<1>5. \A o \in Objects : o.kind \in AllKinds
    BY <1>4 DEF AllKinds
<1>6. \A o \in Objects : o.kind # "classic" => o.parent = Absent
    BY <1>4
<1>7. \A o \in Objects : o.kind = "classic" =>
          /\ o.type \in APIs /\ o.state \in {"ok", "skipped", "dropped"}
          /\ o.parent # Absent <=> HasParentAPI(o.type)
    BY <1>4
<1>8. \A o \in Objects : o.kind = "settings" =>
          o.type \in request.known /\ o.state \in {"ok", "broken", "unmodifiable", "discarded"}
    BY <1>4
<1>9. \A o \in Objects : o.kind \notin {"classic", "settings"} =>
          o.type \in Lists(o.kind) /\ o.state \in {"ok", "broken", "immutable", "deleting", "ready made"}
    BY <1>4 DEF Lists
<1>10. \A o \in Objects : o.kind = "automation" => o.state = "ok"
    BY <1>4
<1> HIDE DEF Objects
<1> QED BY <1>1, <1>3, <1>5, <1>6, <1>7, <1>8, <1>9, <1>10

\* One kind is at work at a time.
LEMMA OneAtWork ==
    ASSUME NEW k, NEW l, AtWork(k), AtWork(l), remaining \subseteq AllKinds
    PROVE  k = l
<1>1. ASSUME NEW m \in AllKinds
      PROVE  Rank(m) \in DOMAIN Kinds /\ Kinds[Rank(m)] = m
    <2>1. \E i \in 1..8 : Kinds[i] = m
        BY DEF AllKinds, Kinds
    <2>2. DOMAIN Kinds = 1..8
        BY DEF Kinds
    <2> QED BY <2>1, <2>2 DEF Rank
<1>2. k \in AllKinds /\ l \in AllKinds /\ Rank(k) <= Rank(l) /\ Rank(l) <= Rank(k)
    BY DEF AtWork
<1>3. DOMAIN Kinds \subseteq Nat
    BY DEF Kinds
<1>4. Rank(k) = Rank(l)
    BY <1>1, <1>2, <1>3
<1> QED BY <1>1, <1>2, <1>4

LEMMA DownloadFixed ==
    ASSUME UNCHANGED request
    PROVE  /\ Objects' = Objects
           /\ \A k : /\ Lists(k)' = Lists(k) /\ ShouldDownload(k)' = ShouldDownload(k)
                    /\ HasCredentials(k)' = HasCredentials(k)
           /\ \A o : Taken(o)' = Taken(o) /\ Made(o)' = Made(o)
<1>1. Objects' = Objects
    BY DEF Objects
<1>2. \A k, t : Offered(k, t)' = Offered(k, t)
    BY <1>1 DEF Offered
<1>3. \A o : Position(o)' = Position(o)
    BY DEF Position
<1>4. \A k : Lists(k)' = Lists(k) /\ ShouldDownload(k)' = ShouldDownload(k) /\ HasCredentials(k)' = HasCredentials(k)
    BY DEF Lists, PrepareAPIs, ShouldDownload, HasCredentials
<1>5. \A a : FirstValues(a)' = FirstValues(a)
    BY <1>2, <1>3 DEF FirstValues, FilterConfigsToSkip, CheckAndRemoveValuesWithDuplicateIDs, FindConfigsToDownload
<1>6. \A s : Kept(s)' = Kept(s)
    BY <1>2, <1>3 DEF Kept, Readable
<1>7. \A o : Taken(o)' = Taken(o)
    BY <1>4, <1>5, <1>6 DEF Taken
<1>8. \A o : InsertAfter(o)' = InsertAfter(o)
    BY DEF InsertAfter, Before, Kept, Readable, Offered, Objects, Position
<1>9. \A o : CreateConfigObjects(o)' = CreateConfigObjects(o)
    <2>1. \A o : Siblings(o)' = Siblings(o)
        BY <1>2 DEF Siblings
    <2>2. \A o : Answer(o)' = Answer(o)
        BY <1>3, <2>1 DEF Answer
    <2> QED BY <2>2 DEF CreateConfigObjects
<1>10. \A o : ConvertAll({o})' = ConvertAll({o})
    BY DEF ConvertAll
<1>11. \A o : Made(o)' = Made(o)
    BY <1>8, <1>9, <1>10 DEF Made
<1> QED BY <1>1, <1>4, <1>7, <1>11

\* A configuration says which object it is of.
LEMMA MadeIs ==
    ASSUME NEW o, NEW c \in Made(o)
    PROVE  c.kind = o.kind /\ c.type = o.type /\ c.id = Key(o)
<1>1. \A v, s, a : LET d == Config(o, v, s, a) IN d.kind = o.kind /\ d.type = o.type /\ d.id = Key(o)
    BY DEF Config
<1>2. CASE o.kind = "classic"
    BY <1>1, <1>2 DEF Made, CreateConfigObjects
<1>3. CASE o.kind = "settings"
    BY <1>1, <1>3 DEF Made
<1>4. CASE o.kind \notin {"classic", "settings"}
    BY <1>1, <1>4 DEF Made, ConvertAll, Converted
<1> QED BY <1>2, <1>3, <1>4

\* Objects finish together with what is made of them.
LEMMA Grows ==
    ASSUME DownloadInv, UNCHANGED request,
           NEW S \in SUBSET Objects,
           foundConfigs' = foundConfigs \cup UNION {Made(o) : o \in S},
           \A o \in Objects : Finished(o)' <=> (Finished(o) \/ o \in S)
    PROVE  FoundInv'
<1> USE DownloadFixed
<1>1. ASSUME NEW o \in Objects
      PROVE  Result(o)' = IF Finished(o)' THEN Made(o) ELSE {}
    <2>1. Result(o)' = Result(o) \cup {c \in UNION {Made(p) : p \in S} : c.kind = o.kind /\ c.type = o.type /\ c.id = Key(o)}
        BY DEF Result, Key
    <2>2. ASSUME NEW p \in S, NEW c \in Made(p), c.kind = o.kind, c.type = o.type, c.id = Key(o)
          PROVE  p = o
        <3>1. Key(p) = Key(o) /\ p.kind = o.kind /\ p.type = o.type /\ p \in Objects
            BY <2>2, MadeIs
        <3> QED BY <3>1, ObjectsAre DEF DownloadInv
    <2>3. \A c \in Made(o) : c.kind = o.kind /\ c.type = o.type /\ c.id = Key(o)
        BY MadeIs
    <2>4. {c \in UNION {Made(p) : p \in S} : c.kind = o.kind /\ c.type = o.type /\ c.id = Key(o)}
              = IF o \in S THEN Made(o) ELSE {}
        BY <2>2, <2>3
    <2>5. Result(o) = IF Finished(o) THEN Made(o) ELSE {}
        BY DEF DownloadInv, FoundInv
    <2> QED BY <2>1, <2>4, <2>5
<1>2. ASSUME NEW c \in foundConfigs'
      PROVE  \E o \in Objects : c \in Result(o)'
    <2>1. CASE c \in foundConfigs
        <3>1. PICK o \in Objects : c \in Result(o)
            BY <2>1 DEF DownloadInv, FoundInv
        <3> QED BY <3>1 DEF Result, Key
    <2>2. CASE c \notin foundConfigs
        <3>1. PICK o \in S : c \in Made(o)
            BY <2>2
        <3> QED BY <3>1, MadeIs DEF Result, Key
    <2> QED BY <2>1, <2>2
<1> QED BY <1>1, <1>2 DEF FoundInv

\* A kind begins: none of its lists has been read.
LEMMA BeginKindKeeps ==
    ASSUME DownloadInv, NEW k, BeginKind(k),
           UNCHANGED <<request, progress, remaining, fetching, foundConfigs, unlisted, unread, ended>>
    PROVE  DownloadInv'
<1> USE DEF DownloadInv
<1>1. \A m : AtWork(m)' <=> AtWork(m)
    BY DEF AtWork
<1>2. fetching = {} /\ fetching' = {}
    BY DEF BeginKind, TurnInv
<1>3. TurnInv'
    <2>1. \A m : AtWork(m) => m = k
        BY OneAtWork DEF BeginKind, TurnInv
    <2>2. (\A m : AtWork(m) => listing \subseteq Lists(m))'
        BY <1>1, <2>1, DownloadFixed DEF BeginKind
    <2>3. AtWork(k) /\ progress = "download" /\ begun' = TRUE
        BY DEF BeginKind, AtWork
    <2> QED BY <1>2, <2>2, <2>3, DownloadFixed DEF TurnInv
<1>4. \A m, l : IsRead(m, l) => IsRead(m, l)'
    BY DEF IsRead, BeginKind
<1>5. FailInv'
    BY <1>4, DownloadFixed DEF FailInv
<1>6. ASSUME NEW o \in Objects
      PROVE  Finished(o)' <=> Finished(o)
    <2>1. Taken(o)' = Taken(o)
        BY DownloadFixed
    <2>2. ASSUME Taken(o), IsRead(o.kind, o.type)', o.kind \in remaining
          PROVE  FALSE
        <3>1. o.kind = k
            BY <2>2, <1>1, OneAtWork DEF IsRead, BeginKind, TurnInv
        <3> QED BY <3>1, <2>2 DEF IsRead, BeginKind, Taken
    <2>3. Taken(o) => (IsRead(o.kind, o.type)' <=> IsRead(o.kind, o.type))
        BY <2>2, <1>4 DEF IsRead
    <2> QED BY <2>1, <2>3 DEF Finished
<1>7. FoundInv'
    BY <1>6, Grows, UNION {Made(o) : o \in {}} = {}
<1>8. FetchInv'
    BY <1>2 DEF FetchInv
<1>9. request' \in DownloadRequests
    OBVIOUS
<1> QED BY <1>3, <1>5, <1>7, <1>8, <1>9

\* A list is read: its objects are there, or are to be fetched, or it failed.
LEMMA ListKeeps ==
    ASSUME DownloadInv, NEW k, NEW l, Listing(k, l),
           UNCHANGED <<request, progress, remaining, begun, unread, ended>>,
           LET L == {o \in Offered(k, l) : Taken(o)}
           IN  \/ /\ UNCHANGED <<fetching, unlisted>>
                  /\ foundConfigs' = foundConfigs \cup UNION {Made(o) : o \in L}
               \/ /\ k \in FetchedOneByOne
                  /\ fetching' = fetching \cup L
                  /\ UNCHANGED <<foundConfigs, unlisted>>
               \/ /\ unlisted' = unlisted \cup {<<k, l>>}
                  /\ UNCHANGED <<foundConfigs, fetching>>
    PROVE  DownloadInv'
<1> DEFINE L == {o \in Offered(k, l) : Taken(o)}
<1> USE DEF DownloadInv
<1>1. \A m : AtWork(m)' <=> AtWork(m)
    BY DEF AtWork
<1>2. AtWork(k) /\ k \in remaining /\ begun /\ l \in listing /\ listing' = listing \ {l}
    BY DEF Listing, AtWork
<1>3. TurnInv'
    <2>1. (\A m : AtWork(m) => listing \subseteq Lists(m))'
        BY <1>1, <1>2, DownloadFixed DEF TurnInv
    <2> QED BY <1>2, <2>1, DownloadFixed DEF TurnInv, AtWork
<1>4. \A m, n : IsRead(m, n)' <=> (IsRead(m, n) \/ (m = k /\ n = l))
    BY <1>1, <1>2, OneAtWork DEF IsRead, TurnInv
<1>5. ~IsRead(k, l)
    BY <1>2 DEF IsRead
<1>6. FailInv'
    BY <1>4, DownloadFixed DEF FailInv
<1>7. \A o \in L : /\ o \in Objects /\ o.kind = k /\ o.type = l /\ Taken(o)
                   /\ <<k, l>> \notin unlisted /\ o \notin unread /\ o \notin fetching
    <2>1. \A o \in L : o \in Objects /\ o.kind = k /\ o.type = l /\ Taken(o)
        BY DEF Offered
    <2>2. <<k, l>> \notin unlisted
        BY <1>5 DEF FailInv
    <2>3. \A o \in L : o \notin unread
        BY <2>1, <1>5 DEF FailInv
    <2>4. \A o \in L : o \notin fetching
        BY <2>1, <1>2 DEF FetchInv
    <2> QED BY <2>1, <2>2, <2>3, <2>4
<1>8. \A o \in Objects : o.kind = k /\ o.type = l /\ Taken(o) => o \in L
    BY DEF Offered
<1>9. \A o \in Objects : ~Finished(o) \/ o.kind # k \/ o.type # l
    BY <1>5 DEF Finished
<1> HIDE DEF L
<1>10. FetchInv'
    <2>1. ASSUME NEW o \in fetching
          PROVE  /\ o \in Objects' /\ o.kind \in FetchedOneByOne
                 /\ Taken(o)' /\ AtWork(o.kind)' /\ begun' /\ o.type \notin listing'
                 /\ <<o.kind, o.type>> \notin unlisted' /\ o \notin unread'
        <3>1. /\ o \in Objects /\ o.kind \in FetchedOneByOne
              /\ Taken(o) /\ AtWork(o.kind) /\ begun /\ o.type \notin listing
              /\ <<o.kind, o.type>> \notin unlisted /\ o \notin unread
            BY DEF FetchInv
        <3>2. <<o.kind, o.type>> # <<k, l>>
            BY <3>1, <1>2
        <3>3. <<o.kind, o.type>> \notin unlisted'
            BY <3>1, <3>2
        <3> QED BY <3>1, <3>3, <1>1, <1>2, DownloadFixed
    <2>2. ASSUME k \in FetchedOneByOne, NEW o \in L, UNCHANGED unlisted
          PROVE  /\ o \in Objects' /\ o.kind \in FetchedOneByOne
                 /\ Taken(o)' /\ AtWork(o.kind)' /\ begun' /\ o.type \notin listing'
                 /\ <<o.kind, o.type>> \notin unlisted' /\ o \notin unread'
        BY <2>2, <1>1, <1>2, <1>7, DownloadFixed
    <2>3. CASE fetching' = fetching
        BY <2>1, <2>3 DEF FetchInv
    <2>4. CASE k \in FetchedOneByOne /\ fetching' = fetching \cup L /\ UNCHANGED unlisted
        BY <2>1, <2>2, <2>4 DEF FetchInv
    <2> QED BY <2>3, <2>4 DEF L
<1>11. \A o \in Objects : Taken(o)' = Taken(o)
    BY DownloadFixed
<1>12. CASE UNCHANGED <<fetching, unlisted>> /\ foundConfigs' = foundConfigs \cup UNION {Made(o) : o \in L}
    <2>1. \A o \in Objects : Finished(o)' <=> (Finished(o) \/ o \in L)
        BY <1>12, <1>4, <1>7, <1>8, <1>11 DEF Finished
    <2>2. L \in SUBSET Objects
        BY <1>7
    <2>3. FoundInv'
        BY <1>12, <2>1, <2>2, Grows
    <2> QED BY <1>3, <1>6, <1>10, <2>3
<1>13. CASE foundConfigs' = foundConfigs /\ ((fetching' = fetching \cup L /\ UNCHANGED unlisted)
                                            \/ (unlisted' = unlisted \cup {<<k, l>>} /\ UNCHANGED fetching))
    <2>1. \A o \in Objects : Finished(o)' <=> Finished(o)
        <3>1. CASE fetching' = fetching \cup L /\ UNCHANGED unlisted
            BY <3>1, <1>4, <1>7, <1>8, <1>9, <1>11 DEF Finished
        <3>2. CASE unlisted' = unlisted \cup {<<k, l>>} /\ UNCHANGED fetching
            BY <3>2, <1>4, <1>9, <1>11 DEF Finished
        <3> QED BY <1>13, <3>1, <3>2
    <2>2. FoundInv'
        BY <1>13, <2>1, Grows, UNION {Made(o) : o \in {}} = {}
    <2> QED BY <1>3, <1>6, <1>10, <2>2
<1> QED BY <1>12, <1>13 DEF L

\* An object is fetched, or cannot be.
LEMMA FetchKeeps ==
    ASSUME DownloadInv, NEW o \in fetching, fetching' = fetching \ {o},
           UNCHANGED <<request, progress, remaining, begun, listing, unlisted, ended>>,
           \/ foundConfigs' = foundConfigs \cup Made(o) /\ UNCHANGED unread
           \/ unread' = unread \cup {o} /\ UNCHANGED foundConfigs
    PROVE  DownloadInv'
<1> USE DEF DownloadInv
<1>1. \A m : AtWork(m)' <=> AtWork(m)
    BY DEF AtWork
<1>2. TurnInv'
    <2>1. AtWork(o.kind) /\ begun
        BY DEF FetchInv
    <2>2. (\A m : AtWork(m) => listing \subseteq Lists(m))'
        BY <1>1, <2>1, DownloadFixed DEF TurnInv
    <2> QED BY <2>1, <2>2, DownloadFixed DEF TurnInv, AtWork
<1>3. \A m, n : IsRead(m, n)' <=> IsRead(m, n)
    BY <1>1 DEF IsRead
<1>4. /\ o \in Objects /\ o.kind \in FetchedOneByOne /\ Taken(o) /\ IsRead(o.kind, o.type)
      /\ <<o.kind, o.type>> \notin unlisted /\ o \notin unread
    BY DEF FetchInv, IsRead
<1>5. FailInv'
    BY <1>3, <1>4, DownloadFixed DEF FailInv
<1>6. FetchInv'
    BY <1>1, DownloadFixed DEF FetchInv
<1>7. \A p \in Objects : Taken(p)' = Taken(p)
    BY DownloadFixed
<1>8. CASE foundConfigs' = foundConfigs \cup Made(o) /\ UNCHANGED unread
    <2>1. \A p \in Objects : Finished(p)' <=> (Finished(p) \/ p \in {o})
        BY <1>8, <1>3, <1>4, <1>7 DEF Finished
    <2>2. UNION {Made(p) : p \in {o}} = Made(o)
        OBVIOUS
    <2>3. FoundInv'
        BY <1>4, <1>8, <2>1, <2>2, Grows
    <2> QED BY <1>2, <1>5, <1>6, <2>3
<1>9. CASE unread' = unread \cup {o} /\ UNCHANGED foundConfigs
    <2>1. \A p \in Objects : Finished(p)' <=> Finished(p)
        BY <1>9, <1>3, <1>7 DEF Finished
    <2>2. FoundInv'
        BY <1>9, <2>1, Grows, UNION {Made(p) : p \in {}} = {}
    <2> QED BY <1>2, <1>5, <1>6, <2>2
<1> QED BY <1>8, <1>9

\* Kinds that are not asked for, or lack credentials, were not to be taken.
LEMMA PrepareKeeps ==
    ASSUME DownloadInv, PrepareDownloadables
    PROVE  DownloadInv'
<1> USE DEF DownloadInv
<1>1. /\ progress = "start" /\ remaining = AllKinds /\ ~begun /\ fetching = {} /\ listing = {}
      /\ UNCHANGED <<request, begun, listing, fetching, foundConfigs, unlisted, unread>>
    BY DEF PrepareDownloadables, TurnInv
<1>2. \/ progress' = "done" /\ ended' = "error" /\ remaining' = remaining
      \/ /\ progress' = "download" /\ ended' = ended
         /\ remaining' = {k \in remaining : ShouldDownload(k) /\ HasCredentials(k)}
    BY DEF PrepareDownloadables, Fail
<1>3. TurnInv'
    <2>1. \A k \in {m \in remaining : ShouldDownload(m) /\ HasCredentials(m)} : ShouldDownload(k)' /\ HasCredentials(k)'
        BY <1>1, DownloadFixed
    <2> QED BY <1>1, <1>2, <2>1 DEF TurnInv
<1>4. \A k, l : IsRead(k, l) => IsRead(k, l)'
    BY <1>1, <1>2 DEF IsRead
<1>5. FailInv'
    BY <1>1, <1>4, DownloadFixed DEF FailInv
<1>6. FetchInv'
    BY <1>1 DEF FetchInv
<1>7. \A o \in Objects : Finished(o)' <=> Finished(o)
    <2> TAKE o \in Objects
    <2>1. o.kind \in remaining /\ ~IsRead(o.kind, o.type)
        BY <1>1, ObjectsAre DEF IsRead
    <2>2. Taken(o) => o.kind \in remaining'
        BY <1>2, <2>1 DEF Taken
    <2>3. Taken(o)' = Taken(o)
        BY <1>1, DownloadFixed
    <2> QED BY <1>1, <2>1, <2>2, <2>3 DEF Finished, IsRead
<1>8. FoundInv'
    BY <1>1, <1>7, Grows, UNION {Made(o) : o \in {}} = {}
<1> QED BY <1>1, <1>3, <1>5, <1>6, <1>8

\* A kind whose lists are read and objects fetched makes room for the next.
LEMMA CopyKeeps ==
    ASSUME DownloadInv, NEW k, CopyConfigs(k)
    PROVE  DownloadInv'
<1> USE DEF DownloadInv
<1>1. /\ AtWork(k) /\ k \in remaining /\ begun /\ listing = {} /\ fetching = {} /\ progress = "download"
      /\ remaining' = remaining \ {k} /\ begun' = FALSE
      /\ UNCHANGED <<request, progress, listing, fetching, foundConfigs, unlisted, unread, ended>>
    BY DEF CopyConfigs, AtWork
<1>2. TurnInv'
    BY <1>1, DownloadFixed DEF TurnInv
<1>3. \A m, l : IsRead(m, l)' <=> IsRead(m, l)
    BY <1>1, OneAtWork DEF IsRead, TurnInv
<1>4. FailInv'
    BY <1>1, <1>3, DownloadFixed DEF FailInv
<1>5. FetchInv'
    BY <1>1 DEF FetchInv
<1>6. \A o \in Objects : Finished(o)' <=> Finished(o)
    BY <1>1, <1>3, DownloadFixed DEF Finished
<1>7. FoundInv'
    BY <1>1, <1>6, Grows, UNION {Made(o) : o \in {}} = {}
<1> QED BY <1>1, <1>2, <1>4, <1>5, <1>7

\* The command ends, after all kinds or for want of schemas.
LEMMA EndingKeeps ==
    ASSUME DownloadInv, progress = "download", progress' = "done",
           (remaining = {} /\ ended' = "ok") \/ (~begun /\ ended' = "error"),
           UNCHANGED <<request, remaining, begun, listing, fetching, foundConfigs, unlisted, unread>>
    PROVE  DownloadInv'
<1> USE DEF DownloadInv
<1>1. fetching = {}
    BY DEF TurnInv, FetchInv, AtWork
<1>2. TurnInv'
    <2>1. \A k : ~AtWork(k)'
        BY DEF AtWork
    <2> QED BY <2>1 DEF TurnInv
<1>3. \A m, l : IsRead(m, l)' <=> IsRead(m, l)
    BY DEF IsRead
<1>4. FailInv'
    BY <1>3, DownloadFixed DEF FailInv
<1>5. FetchInv'
    BY <1>1 DEF FetchInv
<1>6. \A o \in Objects : Finished(o)' <=> Finished(o)
    BY <1>3, DownloadFixed DEF Finished
<1>7. FoundInv'
    BY <1>6, Grows, UNION {Made(o) : o \in {}} = {}
<1> QED BY <1>2, <1>4, <1>5, <1>7

\* What the readers of lists find is what is taken.
LEMMA ListStepKeeps ==
    ASSUME DownloadInv, NEW k, NEW l,
           ListAPI(l) \/ ListSchema(l) \/ DownloadAtOnce(k) \/ DownloadAutomation(l) \/ DownloadDocumentsOfType(l)
               \/ ListFails(k, l)
    PROVE  DownloadInv'
<1> DEFINE L(m, n) == {o \in Offered(m, n) : Taken(o)}
<1>1. ASSUME NEW m, NEW n, Listing(m, n)
      PROVE  n \in Lists(m) /\ ShouldDownload(m) /\ HasCredentials(m)
    BY <1>1 DEF Listing, AtWork, DownloadInv, TurnInv
<1>2. \A m, n : \A o \in Offered(m, n) : o.kind = m /\ o.type = n
    BY DEF Offered
<1>3. \A m, n : m \notin {"classic", "settings"} =>
          /\ \A o \in Offered(m, n) : Made(o) = ConvertAll({o})
          /\ ConvertAll(Offered(m, n)) = UNION {ConvertAll({o}) : o \in Offered(m, n)}
    BY <1>2 DEF Made, ConvertAll
<1>4. ASSUME NEW m, NEW n, Listing(m, n), m \notin {"classic", "settings", "document"}
      PROVE  L(m, n) = Offered(m, n) /\ ConvertAll(Offered(m, n)) = UNION {Made(o) : o \in L(m, n)}
    <2>1. \A o \in Offered(m, n) : Taken(o)
        BY <1>1, <1>2, <1>4 DEF Taken
    <2>2. L(m, n) = Offered(m, n)
        BY <2>1
    <2>3. {Made(o) : o \in Offered(m, n)} = {ConvertAll({o}) : o \in Offered(m, n)}
        BY <1>3, <1>4
    <2> QED BY <1>3, <1>4, <2>2, <2>3
<1> HIDE DEF L
<1>5. CASE ListAPI(l)
    <2>1. Listing("classic", l)
        BY <1>5 DEF ListAPI
    <2>2. FirstValues(l) \subseteq Offered("classic", l)
        BY DEF FirstValues, FilterConfigsToSkip, CheckAndRemoveValuesWithDuplicateIDs, FindConfigsToDownload
    <2>3. L("classic", l) = FirstValues(l)
        BY <1>1, <1>2, <2>1, <2>2 DEF L, Taken
    <2> QED BY <1>5, <2>1, <2>3, ListKeeps DEF ListAPI, FirstValues, L, FetchedOneByOne
<1>6. CASE ListSchema(l)
    <2>1. Listing("settings", l)
        BY <1>6 DEF ListSchema
    <2>2. Kept(l) \subseteq Offered("settings", l)
        BY DEF Kept, Readable
    <2>3. L("settings", l) = Kept(l)
        BY <1>1, <1>2, <2>1, <2>2 DEF L, Taken
    <2>4. \A o \in Kept(l) : Made(o) = {Config(o, o.content, Absent, InsertAfter(o))}
        BY <1>2, <2>2 DEF Made
    <2>5. ConvertAllSettings(l) = UNION {Made(o) : o \in Kept(l)}
        BY <2>4 DEF ConvertAllSettings
    <2> QED BY <1>6, <2>1, <2>3, <2>5, ListKeeps DEF ListSchema, L
<1>7. CASE DownloadAtOnce(k)
    <2>1. Listing(k, k) /\ k \notin {"classic", "settings", "document"}
        BY <1>7 DEF DownloadAtOnce
    <2> QED BY <1>4, <1>7, <2>1, ListKeeps DEF DownloadAtOnce, L
<1>8. CASE DownloadAutomation(l)
    <2>1. Listing("automation", l) /\ fetching = {}
        BY <1>8 DEF DownloadAutomation
    <2>2. L("automation", l) = Offered("automation", l)
        BY <1>4, <2>1
    <2>3. ConvertAll(Offered("automation", l)) = UNION {Made(o) : o \in L("automation", l)}
        BY <1>4, <2>1
    <2> QED BY <1>8, <2>1, <2>2, <2>3, ListKeeps DEF DownloadAutomation, L, FetchedOneByOne
<1>9. CASE DownloadDocumentsOfType(l)
    <2>1. Listing("document", l) /\ fetching = {}
        BY <1>9 DEF DownloadDocumentsOfType
    <2>2. L("document", l) = {o \in Offered("document", l) : ~IsReadyMade(o)}
        BY <1>1, <1>2, <2>1 DEF L, Taken
    <2> QED BY <1>9, <2>1, <2>2, ListKeeps DEF DownloadDocumentsOfType, L, FetchedOneByOne
<1>10. CASE ListFails(k, l)
    BY <1>10, ListKeeps DEF ListFails
<1> QED BY <1>5, <1>6, <1>7, <1>8, <1>9, <1>10

LEMMA FetchStepKeeps ==
    ASSUME DownloadInv, NEW o \in fetching,
           FetchValue(o) \/ FetchFullObject(o) \/ ConvertDocument(o) \/ FetchFails(o)
    PROVE  DownloadInv'
<1>1. AtWork(o.kind) /\ o \in Objects /\ remaining \subseteq AllKinds
    BY DEF DownloadInv, FetchInv, TurnInv
<1>2. CASE FetchValue(o)
    <2>1. Made(o) = CreateConfigObjects(o)
        BY <1>1, <1>2, OneAtWork DEF FetchValue, Made
    <2> QED BY <1>2, <2>1, FetchKeeps DEF FetchValue
<1>3. CASE FetchFullObject(o)
    <2>1. o.kind = "automation"
        BY <1>1, <1>3, OneAtWork DEF FetchFullObject
    <2>2. IsConvertible(o)
        BY <1>1, <2>1, ObjectsAre DEF DownloadInv, IsConvertible
    <2>3. Made(o) = {Converted(o)}
        BY <2>1, <2>2 DEF Made, ConvertAll
    <2> QED BY <1>3, <2>3, FetchKeeps DEF FetchFullObject
<1>4. CASE ConvertDocument(o)
    <2>1. o.kind = "document"
        BY <1>1, <1>4, OneAtWork DEF ConvertDocument
    <2>2. Made(o) = ConvertAll({o})
        BY <2>1 DEF Made
    <2> QED BY <1>4, <2>2, FetchKeeps DEF ConvertDocument
<1>5. CASE FetchFails(o)
    BY <1>5, FetchKeeps DEF FetchFails
<1> QED BY <1>2, <1>3, <1>4, <1>5

THEOREM DownloadInvariance == DownloadSpec => []DownloadInv
<1>1. DownloadInit => DownloadInv
    <2> SUFFICES ASSUME DownloadInit PROVE DownloadInv
        OBVIOUS
    <2> USE DEF DownloadInit
    <2>1. remaining = AllKinds
        BY DEF Kinds, AllKinds
    <2>2. TurnInv
        BY <2>1, DownloadRequestsAssumption DEF TurnInv
    <2>3. \A o \in Objects : ~Finished(o)
        BY <2>1, ObjectsAre DEF Finished, IsRead
    <2>4. FoundInv
        BY <2>3 DEF FoundInv, Result
    <2> QED BY <2>2, <2>4 DEF DownloadInv, FetchInv, FailInv
<1>2. DownloadInv /\ [DownloadNext]_downloadVars => DownloadInv'
    <2> SUFFICES ASSUME DownloadInv, [DownloadNext]_downloadVars PROVE DownloadInv'
        OBVIOUS
    <2>1. CASE UNCHANGED downloadVars
        <3>1. /\ \A m : AtWork(m)' <=> AtWork(m)
              /\ \A m, l : IsRead(m, l)' <=> IsRead(m, l)
            BY <2>1 DEF downloadVars, AtWork, IsRead
        <3>2. \A o : Finished(o)' <=> Finished(o)
            BY <2>1, <3>1, DownloadFixed DEF downloadVars, Finished
        <3>3. FoundInv'
            BY <2>1, <3>2, Grows, UNION {Made(o) : o \in {}} = {} DEF downloadVars
        <3>4. TurnInv'
            BY <2>1, <3>1, DownloadFixed DEF downloadVars, DownloadInv, TurnInv
        <3>5. FetchInv' /\ FailInv'
            BY <2>1, <3>1, DownloadFixed DEF downloadVars, DownloadInv, FetchInv, FailInv
        <3> QED BY <2>1, <3>3, <3>4, <3>5 DEF downloadVars, DownloadInv
    <2>2. CASE PrepareDownloadables
        BY <2>2, PrepareKeeps
    <2>3. CASE BeginClassic
        BY <2>3, BeginKindKeeps DEF BeginClassic
    <2>4. CASE FetchSchemas
        <3>1. CASE BeginKind("settings") /\ UNCHANGED <<progress, ended>>
            BY <2>4, <3>1, BeginKindKeeps DEF FetchSchemas
        <3>2. CASE AtWork("settings") /\ ~begun /\ Fail("error") /\ UNCHANGED <<begun, listing>>
            BY <2>4, <3>2, EndingKeeps DEF FetchSchemas, Fail, AtWork
        <3> QED BY <2>4, <3>1, <3>2 DEF FetchSchemas
    <2>5. ASSUME NEW k \in remaining, BeginPlatform(k)
          PROVE  DownloadInv'
        BY <2>5, BeginKindKeeps DEF BeginPlatform
    <2>6. ASSUME NEW k \in remaining, CopyConfigs(k)
          PROVE  DownloadInv'
        BY <2>6, CopyKeeps
    <2>7. ASSUME NEW k, NEW l, ListAPI(l) \/ ListSchema(l) \/ DownloadAtOnce(k) \/ DownloadAutomation(l)
                                   \/ DownloadDocumentsOfType(l) \/ ListFails(k, l)
          PROVE  DownloadInv'
        BY <2>7, ListStepKeeps
    <2>8. ASSUME NEW o \in fetching, FetchValue(o) \/ FetchFullObject(o) \/ ConvertDocument(o) \/ FetchFails(o)
          PROVE  DownloadInv'
        BY <2>8, FetchStepKeeps
    <2>9. CASE WriteConfigs
        <3>1. /\ progress = "download" /\ remaining = {} /\ progress' = "done" /\ ended' = "ok"
              /\ UNCHANGED <<request, remaining, begun, listing, fetching, foundConfigs, unlisted, unread>>
            BY <2>9 DEF WriteConfigs, Fail
        <3> QED BY <3>1, EndingKeeps
    <2> QED BY <2>1, <2>2, <2>3, <2>4, <2>5, <2>6, <2>7, <2>8, <2>9 DEF DownloadNext, DownloadEnded
<1> QED BY <1>1, <1>2, PTL DEF DownloadSpec

-----------------------------------------------------------------------------
\* What is taken, in the words of the property.
LEMMA TakenIs ==
    ASSUME request \in DownloadRequests, NEW o \in Objects
    PROVE  Taken(o) <=> /\ Asked(o) /\ HasItsParent(o) /\ ~IsDuplicate(o)
                        /\ o.kind = "settings" => \A p \in Objects : p.kind = o.kind /\ p.type = o.type /\ p.state = "broken"
                                                                        => Position(o) < Position(p)
                        /\ o.state \notin {"skipped", "unmodifiable", "discarded"}
                        /\ o.kind = "document" => o.state # "ready made"
<1>1. \A p \in Objects : Position(p) \in Nat
    BY ObjectsAre
<1>2. CASE o.kind = "classic"
    <2>1. o.type \in APIs /\ o.state \in {"ok", "skipped", "dropped"} /\ (o.parent # Absent <=> HasParentAPI(o.type))
        BY <1>2, ObjectsAre
    <2>2. o.type \in Lists(o.kind) <=> o.type # "key" /\ (IF request.apis = {} THEN o.type # "old" ELSE o.type \in request.apis)
        BY <1>2, <2>1 DEF Lists, PrepareAPIs, CannotDownload, Deprecated
    <2>3. ASSUME NEW p \in Offered("classic", o.type)
          PROVE  p \in FindConfigsToDownload(o.type) <=> HasItsParent(p)
        <3>1. p \in Objects /\ p.kind = "classic" /\ p.type = o.type
            BY DEF Offered
        <3>2. p.parent # Absent <=> HasParentAPI(o.type)
            BY <3>1, ObjectsAre
        <3> QED BY <3>1, <3>2 DEF FindConfigsToDownload, HasItsParent, Offered, SkipDownload
    <2>4. o \in Offered("classic", o.type)
        BY <1>2 DEF Offered
    <2>5. FindConfigsToDownload(o.type) \subseteq Offered("classic", o.type)
        BY DEF FindConfigsToDownload
    <2>6. o \in FirstValues(o.type) <=> HasItsParent(o) /\ ~IsDuplicate(o) /\ o.state # "skipped"
        <3>1. o \in FirstValues(o.type) <=>
                  /\ HasItsParent(o) /\ o.state # "skipped"
                  /\ \A p \in FindConfigsToDownload(o.type) : p.id = o.id => Position(o) <= Position(p)
            BY <2>3, <2>4 DEF FirstValues, FilterConfigsToSkip, CheckAndRemoveValuesWithDuplicateIDs, SkipDownload
        <3>2. IsDuplicate(o) <=> \E p \in FindConfigsToDownload(o.type) : p.id = o.id /\ Position(p) < Position(o)
            BY <1>2, <2>3, <2>5 DEF IsDuplicate, Offered
        <3>3. \A p \in FindConfigsToDownload(o.type) : ~(Position(p) < Position(o)) <=> Position(o) <= Position(p)
            BY <1>1, <2>5 DEF Offered
        <3> QED BY <3>1, <3>2, <3>3
    <2> QED BY <1>2, <2>1, <2>2, <2>6 DEF Taken, Asked
<1>3. CASE o.kind = "settings"
    <2>1. o.type \in request.known /\ o.parent = Absent /\ o.state \in {"ok", "broken", "unmodifiable", "discarded"}
        BY <1>3, ObjectsAre
    <2>2. o.type \in Lists(o.kind) <=> request.schemas = {} \/ o.type \in request.schemas
        BY <1>3, <2>1 DEF Lists
    <2>3. o \in Offered("settings", o.type)
        BY <1>3 DEF Offered
    <2>4. o \in Kept(o.type) <=>
              /\ o.state \notin {"unmodifiable", "discarded"}
              /\ \A p \in Objects : p.kind = o.kind /\ p.type = o.type /\ p.state = "broken" => Position(o) < Position(p)
        BY <1>3, <2>3 DEF Kept, Readable, IsUnmodifiable, ShouldDiscard, Offered
    <2> QED BY <1>3, <2>1, <2>2, <2>4 DEF Taken, Asked, HasItsParent, IsDuplicate
<1>4. CASE o.kind \notin {"classic", "settings"}
    <2>1. /\ o.type \in Lists(o.kind) /\ o.parent = Absent
          /\ o.state \in {"ok", "broken", "immutable", "deleting", "ready made"}
        BY <1>4, ObjectsAre
    <2> QED BY <1>4, <2>1 DEF Taken, Asked, HasItsParent, IsDuplicate, IsReadyMade
<1> QED BY <1>2, <1>3, <1>4

\* A position is before no place but those after it.
LEMMA NotBeforeItself ==
    ASSUME request \in DownloadRequests, NEW o \in Objects
    PROVE  Position(o) <= Position(o) /\ ~(Position(o) < Position(o))
<1>1. Position(o) \in Nat
    BY ObjectsAre
<1>2. \A i \in Nat : i <= i /\ ~(i < i)
    OBVIOUS
<1> QED BY <1>1, <1>2

\* Each has an own answer, unless it is blurred.
LEMMA AnswerIs ==
    ASSUME request \in DownloadRequests, NEW o \in Objects, o.kind = "classic", ~Blurred(o)
    PROVE  Answer(o) = {o}
<1>1. o \in Siblings(o)
    BY DEF Siblings, Offered
<1>2. CASE ByIdentifier(o.type)
    <2>1. \A p \in Siblings(o) : p.id = o.id => p = o
        BY ObjectsAre DEF Siblings, Offered, Key
    <2> QED BY <1>1, <1>2, <2>1 DEF Answer
<1>3. CASE ComparedByFunc(o.type)
    <2>1. Siblings(o) = {o}
        BY <1>1, <1>3 DEF Blurred
    <2>2. Position(o) <= Position(o)
        BY NotBeforeItself
    <2>3. ~ByIdentifier(o.type)
        BY <1>3 DEF ByIdentifier, ComparedByFunc
    <2> QED BY <1>3, <2>1, <2>2, <2>3 DEF Answer
<1>4. CASE ~ByIdentifier(o.type) /\ ~ComparedByFunc(o.type)
    BY <1>4 DEF Answer
<1> QED BY <1>2, <1>3, <1>4

\* The scope names the parent, which has none itself.
LEMMA ScopeIs ==
    ASSUME request \in DownloadRequests, NEW o \in Objects, HasItsParent(o),
           NEW c, c.scope = IF o.kind = "classic" THEN CreateScope(o) ELSE Absent
    PROVE  ScopedRightly(o, c)
<1>1. CASE o.parent = Absent
    BY <1>1, ObjectsAre DEF ScopedRightly, CreateScope
<1>2. CASE o.parent # Absent
    <2>1. o.kind = "classic" /\ HasParentAPI(o.type)
        BY <1>2, ObjectsAre
    <2>2. PICK p \in Objects : p.kind = o.kind /\ p.type = ParentAPI(o.type) /\ p.id = o.parent
        BY <1>2 DEF HasItsParent
    <2>3. ~HasParentAPI(p.type)
        BY <2>2 DEF ParentAPI, HasParentAPI
    <2>4. p.parent = Absent
        BY <2>1, <2>2, <2>3, ObjectsAre
    <2>5. c.scope = <<p.type, Key(p)>>
        BY <2>1, <2>2, <2>4 DEF CreateScope, Key
    <2> QED BY <1>2, <2>2, <2>5 DEF ScopedRightly
<1> QED BY <1>1, <1>2

\* Of settings the nearest before is the last of those that stay.
LEMMA PlaceIs ==
    ASSUME DownloadInv, NEW o \in Objects, o.kind = "settings", Given(o),
           NEW c, c.after = InsertAfter(o)
    PROVE  PlacedRightly(o, c)
<1>1. request \in DownloadRequests /\ FailInv
    BY DEF DownloadInv
<1>2. Before(o) = Predecessors(o)
    <2>1. ASSUME NEW p \in Objects, p.kind = o.kind, p.type = o.type
          PROVE  p \in Kept(o.type) <=> p.state = "ok" /\ Given(p)
        <3>1. p.state \in {"ok", "broken", "unmodifiable", "discarded"} /\ p.parent = Absent
            BY <1>1, <2>1, ObjectsAre
        <3>2. <<p.kind, p.type>> \notin unlisted
            BY <2>1 DEF Given
        <3>3. p \notin unread
            BY <1>1, <2>1 DEF FailInv, FetchedOneByOne
        <3>4. HasItsParent(p) /\ ~IsDuplicate(p)
            BY <2>1, <3>1 DEF HasItsParent, IsDuplicate
        <3>5. p.state = "broken" => ~(Position(p) < Position(p))
            BY <1>1, NotBeforeItself
        <3>6. p \in Kept(o.type) <=>
                  /\ p.state \notin {"unmodifiable", "discarded"}
                  /\ \A q \in Objects : q.kind = p.kind /\ q.type = p.type /\ q.state = "broken"
                                             => Position(p) < Position(q)
            BY <2>1 DEF Kept, Readable, Offered, IsUnmodifiable, ShouldDiscard
        <3> QED BY <2>1, <3>1, <3>2, <3>3, <3>4, <3>5, <3>6 DEF Given
    <2>2. Kept(o.type) \subseteq {p \in Objects : p.kind = o.kind /\ p.type = o.type}
        BY DEF Kept, Readable, Offered
    <2> QED BY <2>1, <2>2 DEF Before, Predecessors
<1>3. ASSUME Before(o) # {}
      PROVE  \E p \in Before(o) : \A q \in Before(o) : Position(q) <= Position(p)
    <2>1. \A p \in Before(o) : Position(p) \in Nat /\ Position(p) < Position(o)
        BY <1>1, ObjectsAre DEF Before, Kept, Readable, Offered
    <2>2. Position(o) \in Nat
        BY <1>1, ObjectsAre
    <2> DEFINE S == {Position(o) - Position(p) : p \in Before(o)}
    <2>3. S \in SUBSET Nat /\ S # {}
        BY <1>3, <2>1, <2>2
    <2>4. PICK i \in S : \A j \in S : i <= j
        BY <2>3, FirstOf
    <2>5. PICK p \in Before(o) : i = Position(o) - Position(p)
        OBVIOUS
    <2>6. ASSUME NEW q \in Before(o)
          PROVE  Position(q) <= Position(p)
        <3>1. Position(o) - Position(p) <= Position(o) - Position(q)
            BY <2>4, <2>5
        <3> QED BY <2>1, <2>2, <3>1
    <2> QED BY <2>6
<1>4. CASE Ordered(o.type) /\ o.movable /\ Before(o) # {}
    <2> DEFINE last == CHOOSE p \in Before(o) : \A q \in Before(o) : Position(q) <= Position(p)
    <2>1. last \in Before(o) /\ \A q \in Before(o) : Position(q) <= Position(last)
        BY <1>3, <1>4
    <2>2. c.after = <<o.type, Key(last)>>
        BY <1>4 DEF InsertAfter
    <2> HIDE DEF last
    <2>3. last.type = o.type
        BY <1>2, <2>1 DEF Predecessors
    <2> QED BY <1>2, <1>4, <2>1, <2>2, <2>3 DEF PlacedRightly
<1>5. CASE ~(Ordered(o.type) /\ o.movable /\ Before(o) # {})
    BY <1>2, <1>5 DEF PlacedRightly, InsertAfter
<1> QED BY <1>4, <1>5

\* What becomes of an object that is taken and not blurred.
LEMMA MadeOfSound ==
    ASSUME DownloadInv, NEW o \in Objects, Taken(o), Given(o), ~Blurred(o)
    PROVE  /\ o.state # "ok" => Made(o) = {}
           /\ o.state = "ok" => \E c : /\ Made(o) = {c} /\ c.content = o.content
                                       /\ ScopedRightly(o, c) /\ PlacedRightly(o, c)
<1>1. request \in DownloadRequests
    BY DEF DownloadInv
<1>2. \A s, a : LET c == Config(o, o.content, s, a) IN c.content = o.content /\ c.scope = s /\ c.after = a
    BY DEF Config
<1>3. HasItsParent(o) /\ o.state \notin {"skipped", "unmodifiable", "discarded"}
    BY <1>1, TakenIs
<1>4. CASE o.kind = "classic"
    <2> DEFINE c == Config(o, o.content, CreateScope(o), Absent)
    <2>1. Answer(o) = {o}
        BY <1>1, <1>4, AnswerIs
    <2>2. o.state \in {"ok", "dropped"}
        BY <1>1, <1>3, <1>4, ObjectsAre
    <2>3. Made(o) = IF o.state = "ok" THEN {c} ELSE {}
        <3>1. Made(o) = {Config(o, p.content, CreateScope(o), Absent) : p \in {q \in {o} : ShouldPersist(q)}}
            BY <1>4, <2>1 DEF Made, CreateConfigObjects
        <3>2. CASE o.state = "ok"
            <4>1. {q \in {o} : ShouldPersist(q)} = {o}
                BY <3>2 DEF ShouldPersist
            <4> QED BY <3>1, <3>2, <4>1
        <3>3. CASE o.state = "dropped"
            <4>1. {q \in {o} : ShouldPersist(q)} = {}
                BY <3>3 DEF ShouldPersist
            <4> QED BY <3>1, <3>3, <4>1
        <3> QED BY <2>2, <3>2, <3>3
    <2>4. c.content = o.content /\ c.scope = CreateScope(o) /\ c.after = Absent
        BY <1>2
    <2> HIDE DEF c
    <2>5. ScopedRightly(o, c)
        BY <1>1, <1>3, <1>4, <2>4, ScopeIs
    <2>6. PlacedRightly(o, c)
        BY <1>4, <2>4 DEF PlacedRightly
    <2> QED BY <2>3, <2>4, <2>5, <2>6
<1>5. CASE o.kind = "settings"
    <2> DEFINE c == Config(o, o.content, Absent, InsertAfter(o))
    <2>1. o.state = "ok"
        <3>1. o.state # "broken"
            <4>1. o.state = "broken" => Position(o) < Position(o)
                BY <1>1, <1>5, TakenIs
            <4> QED BY <1>1, <4>1, NotBeforeItself
        <3> QED BY <1>1, <1>3, <1>5, <3>1, ObjectsAre
    <2>2. Made(o) = {c}
        BY <1>5 DEF Made
    <2>3. c.content = o.content /\ c.scope = Absent /\ c.after = InsertAfter(o)
        BY <1>2
    <2> HIDE DEF c
    <2>4. ScopedRightly(o, c)
        BY <1>1, <1>3, <1>5, <2>3, ScopeIs
    <2>5. PlacedRightly(o, c)
        BY <1>5, <2>3, PlaceIs
    <2> QED BY <2>1, <2>2, <2>3, <2>4, <2>5
<1>6. CASE o.kind \notin {"classic", "settings"}
    <2> DEFINE c == Config(o, o.content, Absent, Absent)
    <2>1. o.state \in {"ok", "broken", "immutable", "deleting", "ready made"}
        BY <1>1, <1>6, ObjectsAre
    <2>2. Made(o) = IF o.state = "ok" THEN {c} ELSE {}
        BY <1>6, <2>1 DEF Made, ConvertAll, Converted, IsConvertible
    <2>3. c.content = o.content /\ c.scope = Absent /\ c.after = Absent
        BY <1>2
    <2> HIDE DEF c
    <2>4. ScopedRightly(o, c)
        BY <1>1, <1>3, <1>6, <2>3, ScopeIs
    <2>5. PlacedRightly(o, c)
        BY <1>6, <2>3 DEF PlacedRightly
    <2> QED BY <2>2, <2>3, <2>4, <2>5
<1> QED BY <1>4, <1>5, <1>6

\* And of one that is.
LEMMA MadeOfBlurred ==
    ASSUME DownloadInv, NEW o \in Objects, Taken(o), Blurred(o), NEW c \in Made(o)
    PROVE  ScopedRightly(o, c) /\ \E p \in Siblings(o) : c.content = p.content
<1>1. request \in DownloadRequests
    BY DEF DownloadInv
<1>2. o.kind = "classic" /\ ComparedByFunc(o.type) /\ ~ByIdentifier(o.type)
    BY DEF Blurred, ComparedByFunc, ByIdentifier
<1>3. Answer(o) \subseteq Siblings(o)
    BY <1>2 DEF Answer
<1>4. PICK p \in Answer(o) : c = Config(o, p.content, CreateScope(o), Absent)
    BY <1>2 DEF Made, CreateConfigObjects
<1>5. c.content = p.content /\ c.scope = CreateScope(o)
    BY <1>4 DEF Config
<1>6. HasItsParent(o)
    BY <1>1, TakenIs
<1> QED BY <1>1, <1>2, <1>3, <1>5, <1>6, ScopeIs

\* A download that ends well holds each object that was asked for and could be
\* read, with its own content and scope and after the right one, and nothing
\* else, but for what APIs below another lack: whatever fails, in any order.
THEOREM AlwaysAsFound == DownloadSpec => []DownloadedAsFound
<1>1. DownloadInv => DownloadedAsFound
    <2> SUFFICES ASSUME DownloadInv, ended = "ok"
                 PROVE  /\ \A o \in Objects :
                              /\ ~Blurred(o) /\ Due(o) => \E c \in foundConfigs :
                                    Result(o) = {c} /\ c.content = o.content /\ ScopedRightly(o, c) /\ PlacedRightly(o, c)
                              /\ ~Blurred(o) /\ ~Due(o) => Result(o) = {}
                              /\ Blurred(o) => \A c \in Result(o) :
                                    Asked(o) /\ Given(o) /\ ScopedRightly(o, c) /\ \E p \in Siblings(o) : c.content = p.content
                        /\ \A c \in foundConfigs : \E o \in Objects : c \in Result(o)
        BY DEF DownloadedAsFound
    <2>1. request \in DownloadRequests /\ remaining = {} /\ fetching = {}
        BY DEF DownloadInv, TurnInv, FetchInv, AtWork
    <2>2. ASSUME NEW o \in Objects
          PROVE  Finished(o) <=> Taken(o) /\ <<o.kind, o.type>> \notin unlisted /\ o \notin unread
        BY <2>1 DEF Finished, IsRead
    <2>3. ASSUME NEW o \in Objects
          PROVE  /\ Finished(o) => Asked(o) /\ Given(o) /\ Taken(o)
                 /\ Due(o) => Finished(o)
        BY <2>1, <2>2, TakenIs DEF Given, Due
    <2>4. ASSUME NEW o \in Objects
          PROVE  Result(o) = IF Finished(o) THEN Made(o) ELSE {}
        BY DEF DownloadInv, FoundInv
    <2>5. ASSUME NEW o \in Objects, ~Blurred(o), Due(o)
          PROVE  \E c \in foundConfigs : Result(o) = {c} /\ c.content = o.content /\ ScopedRightly(o, c) /\ PlacedRightly(o, c)
        <3>1. Result(o) = Made(o) /\ Taken(o) /\ Given(o) /\ o.state = "ok"
            BY <2>3, <2>4, <2>5 DEF Due
        <3>2. PICK c : Made(o) = {c} /\ c.content = o.content /\ ScopedRightly(o, c) /\ PlacedRightly(o, c)
            BY <2>5, <3>1, MadeOfSound
        <3>3. c \in foundConfigs
            BY <3>1, <3>2 DEF Result
        <3> QED BY <3>1, <3>2, <3>3
    <2>6. ASSUME NEW o \in Objects, ~Blurred(o), ~Due(o)
          PROVE  Result(o) = {}
        <3>1. CASE Finished(o)
            <4>1. o.state # "ok"
                BY <2>3, <2>6, <3>1 DEF Due
            <4> QED BY <2>3, <2>4, <2>6, <3>1, <4>1, MadeOfSound
        <3> QED BY <2>4, <3>1
    <2>7. ASSUME NEW o \in Objects, Blurred(o), NEW c \in Result(o)
          PROVE  Asked(o) /\ Given(o) /\ ScopedRightly(o, c) /\ \E p \in Siblings(o) : c.content = p.content
        <3>1. Finished(o) /\ c \in Made(o)
            BY <2>4, <2>7
        <3> QED BY <2>3, <2>7, <3>1, MadeOfBlurred
    <2>8. \A c \in foundConfigs : \E o \in Objects : c \in Result(o)
        BY DEF DownloadInv, FoundInv
    <2> QED BY <2>5, <2>6, <2>7, <2>8
<1> QED BY <1>1, DownloadInvariance, PTL
=============================================================================
