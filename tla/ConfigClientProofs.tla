------------------------- MODULE ConfigClientProofs -------------------------
(***************************************************************************)
(* Proofs about ConfigClient, for any number of goroutines, configurations *)
(* and existing objects: while lists are complete, no object is created    *)
(* next to one of its name that was there before the deployment; what an   *)
(* upsert returned has the content of its configuration; and an upsert     *)
(* alone creates nothing twice and fails only after a call that failed.    *)
(***************************************************************************)
EXTENDS ConfigClient, TLAPS, FiniteSetTheorems

-----------------------------------------------------------------------------
(* Ids.                                                                    *)

\* The ids that are known are not those of created objects.
LEMMA KnownIds ==
    \A g, n : Single \notin New /\ Named(n) \notin New /\ Uuid(g) \notin New /\ None \notin New
BY DEF Single, Named, Uuid, None, New

\* Where objects are created by POST, what is found by its name is chosen.
LEMMA ChosenByName ==
  ASSUME NEW g, NEW L, kind \in Creating
  PROVE  Chosen(g, L) = {e.id : e \in Same(g, L)}
BY DEF Chosen, Creating

\* Where ids are known, there is always one to choose.
LEMMA ChosenKnown ==
  ASSUME NEW g, NEW L, kind \in Putting, Unposted(L)
  PROVE  Chosen(g, L) # {} /\ \A id \in Chosen(g, L) : id \notin New
<1>1. CASE kind = "single" \/ kind = "named"
  BY <1>1, KnownIds DEF Chosen
<1>2. CASE kind = "logMetric"
  BY <1>2, KnownIds DEF Chosen, Same, Unposted
<1>3. CASE kind = "nonUnique"
  <2>1. CASE Cardinality(Same(g, L)) = 1
    <3>1. Same(g, L) # {}
      BY <2>1, FS_EmptySet
    <3>. QED
      BY <1>3, <3>1, KnownIds DEF Chosen, Same, Unposted
  <2>2. CASE Cardinality(Same(g, L)) # 1
    BY <1>3, <2>2, KnownIds DEF Chosen
  <2>. QED
    BY <2>1, <2>2
<1>. QED
  BY <1>1, <1>2, <1>3 DEF Putting

-----------------------------------------------------------------------------
(* What a step may do to the environment, to the cache and to lists.       *)

\* Where an object after a step comes from: it was there with this name, or it is
\* created by a goroutine that found none.
Origin(o) ==
    \/ \E p \in remote : p.id = o.id /\ p.name = o.name
    \/ /\ kind \in Creating
       /\ \E g \in Active : pc[g] = "creating" /\ o.id = Created(g) /\ o.name = name[g]
    \/ kind \in Putting /\ \E g \in Active : pc[g] = "updating" /\ o.id = target[g]

\* Every step makes only such objects.
LEMMA RemoteStep ==
  ASSUME TypeOK, IInv, [Next]_vars
  PROVE  \A o \in remote' : Origin(o)
<1>1. CASE remote' \subseteq remote
  BY <1>1 DEF Origin
<1>2. ASSUME NEW g \in Active, pc[g] = "creating", Writes(g, Created(g))
      PROVE  \A o \in remote' : Origin(o)
  <2>1. kind \in Creating
    BY <1>2 DEF TypeOK, IInv, PutInv
  <2>. QED
    BY <1>2, <2>1 DEF Writes, Object, Origin
<1>3. ASSUME NEW g \in Active, pc[g] = "updating", Writes(g, target[g]),
             Exists(target[g]) \/ kind \in Putting
      PROVE  \A o \in remote' : Origin(o)
  <2>1. CASE kind \in Putting
    BY <1>3, <2>1 DEF Writes, Object, Origin
  <2>2. CASE kind \notin Putting
    <3>1. PICK p \in remote : p.id = target[g]
      BY <1>3, <2>2 DEF Exists
    <3>2. p.name = name[g]
      BY <1>3, <2>2, <3>1 DEF TypeOK, IInv, NamesInv
    <3>. QED
      BY <1>3, <3>1, <3>2 DEF Writes, Object, Origin
  <2>. QED
    BY <2>1, <2>2
<1>. QED
  BY <1>1, <1>2, <1>3
     DEF Next, Work, Failure, Done, ReadCache, StartList, GetPage, ListBreaks, SetCache, At, Update,
         UpdateMissing, Create, CreateRefused, CallFails, DropCache, OthersDelete, vars, config

\* A goroutine decides by the cached list or by the one it has.
Decides(g, L) ==
    /\ Decide(g, L) /\ remote' = remote
    /\ \/ kind = "single" /\ L = {}
       \/ pc[g] = "start" /\ L \in cache
       \/ pc[g] = "listed" /\ L = list[g]

\* What becomes of the place and the target of a goroutine.
PlaceOk(g) ==
    /\ \/ target'[g] = target[g]
       \/ \E L : Decides(g, L)
       \/ pc[g] = "creating" /\ target'[g] = Created(g)
    /\ pc'[g] \in {"creating", "updating"} =>
          \/ pc'[g] = pc[g] /\ target'[g] = target[g]
          \/ \E L : Decides(g, L)

\* A goroutine is about to create or update something because it decided to.
LEMMA PlaceStep ==
  ASSUME TypeOK, [Next]_vars, NEW g \in Active
  PROVE  PlaceOk(g)
<1>0. /\ pc \in [Active -> {"start", "paging", "listed", "creating", "updating", "erred", "done", "failed"}]
      /\ target = [a \in Active |-> target[a]]
  BY DEF TypeOK
<1>1. CASE UNCHANGED <<pc, target>>
  BY <1>1 DEF PlaceOk
<1>2. ASSUME NEW h \in Active, NEW w, Goto(h, w), w \notin {"creating", "updating"}, target' = target
      PROVE  PlaceOk(g)
  BY <1>0, <1>2 DEF PlaceOk, Goto
<1>3. ASSUME NEW h \in Active, NEW L, Decides(h, L) PROVE PlaceOk(g)
  <2>1. CASE h = g
    BY <1>3, <2>1 DEF PlaceOk
  <2>2. CASE h # g
    BY <1>0, <1>3, <2>2 DEF PlaceOk, Decides, Decide, Goto
  <2>. QED
    BY <2>1, <2>2
<1>4. ASSUME NEW h \in Active, Error(h) PROVE PlaceOk(g)
  BY <1>2, <1>4 DEF Error
<1>5. ASSUME NEW h \in Active, Create(h) PROVE PlaceOk(g)
  BY <1>0, <1>5 DEF Create, Return, Goto, At, PlaceOk
<1>6. ASSUME NEW h \in Active, ReadCache(h) PROVE PlaceOk(g)
  BY <1>3, <1>6 DEF ReadCache, Decides, At
<1>7. ASSUME NEW h \in Active, SetCache(h) PROVE PlaceOk(g)
  BY <1>3, <1>7 DEF SetCache, Decides, At
<1>8. ASSUME NEW h \in Active, GetPage(h) PROVE PlaceOk(g)
  BY <1>2, <1>8 DEF GetPage
<1>. QED
  BY <1>1, <1>2, <1>4, <1>5, <1>6, <1>7, <1>8
     DEF Next, Work, Failure, Done, StartList, ListBreaks, Update, UpdateMissing, Return,
         CreateRefused, CallFails, DropCache, OthersDelete, vars

\* What becomes of lists and of the cache.
ListsOk ==
    /\ \A L \in cache' :
          \/ L \in cache
          \/ \E g \in Active : pc[g] = "listed" /\ L = list[g] /\ remote' = remote
    /\ \A g \in Active :
          \/ list'[g] = list[g]
          \/ remote' = remote /\ \A e \in list'[g] : e \in list[g] \/ \E o \in remote : e = Entry(o)
    /\ \A g \in Active :
          pc'[g] = "listed" =>
             \/ pc[g] = "listed" /\ list'[g] = list[g]
             \/ partial'
             \/ /\ remote' = remote
                /\ list[g] \subseteq list'[g]
                /\ \A o \in remote : (\E e \in list[g] : e.id = o.id) \/ Entry(o) \in list'[g]

\* Lists grow by what the environment has, until they have all of it.
LEMMA ListsStep ==
  ASSUME TypeOK, [Next]_vars
  PROVE  ListsOk
<1>0. /\ pc \in [Active -> {"start", "paging", "listed", "creating", "updating", "erred", "done", "failed"}]
      /\ list = [a \in Active |-> list[a]]
  BY DEF TypeOK
<1>1. CASE UNCHANGED <<pc, list, cache>>
  BY <1>1 DEF ListsOk
<1>2. ASSUME NEW h \in Active, NEW w, Goto(h, w), w # "listed", list' = list, cache' \in {cache, {}}
      PROVE  ListsOk
  BY <1>0, <1>2 DEF ListsOk, Goto
<1>3. ASSUME NEW h \in Active, StartList(h) PROVE ListsOk
  BY <1>0, <1>3 DEF StartList, ListsOk, Goto
<1>4. ASSUME NEW h \in Active, ListBreaks(h) PROVE ListsOk
  BY <1>0, <1>4 DEF ListBreaks, ListsOk, Goto
<1>5. ASSUME NEW h \in Active, NEW L, Decide(h, L), list' = list,
             cache' = cache \/ (pc[h] = "listed" /\ cache' = {list[h]}), remote' = remote
      PROVE  ListsOk
  BY <1>0, <1>5 DEF Decide, ListsOk, Goto
<1>6. ASSUME NEW h \in Active, GetPage(h) PROVE ListsOk
  <2>. DEFINE rest == {Entry(o) : o \in {p \in remote : \A e \in list[h] : e.id # p.id}}
  <2>1. PICK page \in SUBSET rest :
           /\ list' = [list EXCEPT ![h] = @ \cup page]
           /\ Goto(h, IF page = rest THEN "listed" ELSE "paging")
    BY <1>6 DEF GetPage
  <2>2. remote' = remote /\ cache' = cache /\ kind' = kind /\ name' = name
    BY <1>6 DEF GetPage, config
  <2>3. \A g \in Active : list'[g] = IF g = h THEN list[h] \cup page ELSE list[g]
    BY <1>0, <2>1
  <2>4. \A g \in Active : g # h => pc'[g] = pc[g]
    BY <1>0, <2>1 DEF Goto
  <2>5. pc'[h] = "listed" => page = rest
    BY <1>0, <2>1 DEF Goto
  <2>6. \A o \in remote : (\E e \in list[h] : e.id = o.id) \/ Entry(o) \in rest
    OBVIOUS
  <2>7. \A e \in page : \E o \in remote : e = Entry(o)
    BY <2>1
  <2>. HIDE DEF rest
  <2>. QED
    BY <2>2, <2>3, <2>4, <2>5, <2>6, <2>7 DEF ListsOk
<1>7. ASSUME NEW h \in Active, Error(h) PROVE ListsOk
  BY <1>2, <1>7 DEF Error
<1>8. ASSUME NEW h \in Active, ReadCache(h) PROVE ListsOk
  <2>1. PICK w \in {"creating", "updating", "done"} : Goto(h, w)
    BY <1>8 DEF ReadCache, Decide
  <2>. QED
    BY <1>2, <1>8, <2>1 DEF ReadCache
<1>9. ASSUME NEW h \in Active, SetCache(h) PROVE ListsOk
  BY <1>5, <1>9 DEF SetCache, At
<1>10. ASSUME NEW h \in Active, Return(h) PROVE ListsOk
  BY <1>2, <1>10 DEF Return
<1>11. ASSUME NEW h \in Active, DropCache(h) PROVE ListsOk
  BY <1>2, <1>11 DEF DropCache
<1>12. CASE Work
  BY <1>3, <1>6, <1>7, <1>8, <1>9, <1>10, <1>11, <1>12
     DEF Work, Update, UpdateMissing, Create, CreateRefused
<1>13. CASE Failure
  BY <1>1, <1>4, <1>7, <1>13 DEF Failure, CallFails, OthersDelete
<1>. QED
  BY <1>1, <1>12, <1>13 DEF Next, Done, vars

-----------------------------------------------------------------------------
(* The inductive invariant.                                                *)

\* What never changes.
LEMMA Rigid == [Next]_vars => kind' = kind /\ name' = name /\ duplicate' = duplicate /\ (partial => partial')
BY DEF Next, Work, Failure, Done, ReadCache, StartList, GetPage, ListBreaks, SetCache, Decide, Update,
       UpdateMissing, Create, CreateRefused, CallFails, DropCache, OthersDelete, Error, Return, vars, config

\* Types, as far as they are needed, are kept by every step.
LEMMA TypeStep == TypeOK /\ [Next]_vars => TypeOK'
<1>. SUFFICES ASSUME TypeOK, [Next]_vars PROVE TypeOK'
  OBVIOUS
<1>1. kind' = kind /\ name' = name
  BY Rigid
<1>2. /\ pc \in [Active -> {"start", "paging", "listed", "creating", "updating", "erred", "done", "failed"}]
      /\ try \in [Active -> 1..2]
      /\ list = [a \in Active |-> list[a]]
      /\ target = [a \in Active |-> target[a]]
  BY DEF TypeOK
<1>3. \A o \in remote' : o.name \in Names /\ o.by \in Active \cup {Old}
  <2>1. CASE remote' \subseteq remote
    BY <2>1 DEF TypeOK
  <2>2. ASSUME NEW g \in Active, NEW id, Writes(g, id) PROVE <1>3
    BY <2>2 DEF TypeOK, Writes, Object
  <2>. QED
    BY <2>1, <2>2
       DEF Next, Work, Failure, Done, ReadCache, StartList, GetPage, ListBreaks, SetCache, Update,
           UpdateMissing, Create, CreateRefused, CallFails, DropCache, OthersDelete, vars
<1>4. \A L, M \in cache' : L = M
  BY DEF TypeOK, Next, Work, Failure, Done, ReadCache, StartList, GetPage, ListBreaks, SetCache, Update,
         UpdateMissing, Create, CreateRefused, CallFails, DropCache, OthersDelete, Error, Return, vars
<1>5. /\ pc' \in [Active -> {"start", "paging", "listed", "creating", "updating", "erred", "done", "failed"}]
      /\ try' \in [Active -> 1..2]
      /\ list' = [a \in Active |-> list'[a]]
      /\ target' = [a \in Active |-> target'[a]]
      /\ erred' \subseteq Active
      /\ partial' \in BOOLEAN
  <2>1. CASE UNCHANGED <<pc, try, list, target, erred, partial>>
    BY <1>2, <2>1 DEF TypeOK
  <2>2. ASSUME NEW g \in Active, Error(g), erred' \in {erred, erred \cup {g}} PROVE <1>5
    BY <1>2, <2>2 DEF TypeOK, Error, Goto
  <2>3. ASSUME NEW g \in Active, NEW w \in {"creating", "updating", "done"}, Goto(g, w),
               target' = target \/ \E id : target' = [target EXCEPT ![g] = id],
               UNCHANGED <<try, list, erred, partial>>
        PROVE  <1>5
    BY <1>2, <2>3 DEF TypeOK, Goto
  <2>4. ASSUME NEW g \in Active, NEW w \in {"paging", "listed"}, Goto(g, w),
               list' = list \/ \E l : list' = [list EXCEPT ![g] = l],
               partial' \in {partial, TRUE}, UNCHANGED <<try, target, erred>>
        PROVE  <1>5
    BY <1>2, <2>4 DEF TypeOK, Goto
  <2>5. ASSUME NEW g \in Active, DropCache(g) PROVE <1>5
    BY <1>2, <2>5 DEF TypeOK, DropCache, Goto
  <2>6. ASSUME NEW g \in Active, ReadCache(g) \/ SetCache(g) PROVE <1>5
    <3>1. PICK w \in {"creating", "updating", "done"} : Goto(g, w)
      BY <2>6 DEF ReadCache, SetCache, Decide
    <3>. QED
      BY <2>3, <2>6, <3>1 DEF ReadCache, SetCache, Decide
  <2>7. ASSUME NEW g \in Active, GetPage(g) PROVE <1>5
    <3>1. PICK w \in {"paging", "listed"} : Goto(g, w)
      BY <2>7 DEF GetPage
    <3>. QED
      BY <2>4, <2>7, <3>1 DEF GetPage
  <2>8. CASE Work
    BY <2>2, <2>3, <2>4, <2>5, <2>6, <2>7, <2>8
       DEF Work, StartList, Update, UpdateMissing, Create, CreateRefused, Return
  <2>9. CASE Failure
    BY <2>1, <2>2, <2>4, <2>9 DEF Failure, ListBreaks, CallFails, OthersDelete
  <2>. QED
    BY <2>1, <2>8, <2>9 DEF Next, Done, vars
<1>. QED
  BY <1>1, <1>3, <1>4, <1>5 DEF TypeOK, Active

\* Names agree in a list after the environment changed.
LEMMA AgreesKept ==
  ASSUME TypeOK, kind \in Creating, name' = name, \A o \in remote' : Origin(o),
         NEW L, \A e \in L, o \in remote : e.id = o.id => e.name = o.name,
         \A e \in L, g \in Active, t \in 1..2 : e.id = <<"new", g, t>> => e.name = name[g]
  PROVE  Agrees(L)'
<1>1. \A e \in L, o \in remote' : e.id = o.id => e.name = o.name
  <2>. SUFFICES ASSUME NEW e \in L, NEW o \in remote', e.id = o.id PROVE e.name = o.name
    OBVIOUS
  <2>1. CASE \E p \in remote : p.id = o.id /\ p.name = o.name
    BY <2>1
  <2>2. CASE \E g \in Active : pc[g] = "creating" /\ o.id = Created(g) /\ o.name = name[g]
    BY <2>2 DEF Created, TypeOK
  <2>. QED
    BY <2>1, <2>2 DEF Origin, Creating, Putting
<1>. QED
  BY <1>1 DEF Agrees, Active

\* Names agree initially, and nothing was created yet.
LEMMA InitInv == Init => TypeOK /\ IInv
<1>. SUFFICES ASSUME Init PROVE TypeOK /\ IInv
  OBVIOUS
<1>1. PICK s \in Scenarios : kind = s.kind /\ name = s.name /\ remote = s.remote
  BY Zenon DEF Init
<1>2. /\ kind \in Creating \cup Putting
      /\ Active \subseteq Goroutines /\ name \in [Active -> Names]
      /\ \A o \in remote : o.id \notin New /\ o.name \in Names /\ o.by = Old
      /\ \A o, p \in remote : o.id = p.id => o = p
  BY <1>1, ScenariosAssumption DEF Active
<1>. DEFINE entries == {Entry(o) : o \in remote}
<1>10. cache = {} \/ cache = {entries}
  BY DEF Init
<1>3. TypeOK
  <2>1. \A L, M \in cache : L = M
    <3>. HIDE DEF entries
    <3>. QED
      BY <1>10
  <2>2. /\ pc \in [Active -> {"start", "paging", "listed", "creating", "updating", "erred", "done", "failed"}]
        /\ try \in [Active -> 1..2]
        /\ list = [g \in Active |-> list[g]]
        /\ target = [g \in Active |-> target[g]]
        /\ erred = {} /\ partial = FALSE
    BY DEF Init
  <2>. QED
    BY <1>2, <2>1, <2>2 DEF TypeOK
<1>4. \A L \in cache : \A e \in L : \E o \in remote : e.id = o.id /\ e.name = o.name
  <2>1. \A e \in entries : \E o \in remote : e.id = o.id /\ e.name = o.name
    BY DEF Entry
  <2>. HIDE DEF entries
  <2>. QED
    BY <1>10, <2>1
<1>5. \A g \in Active, t \in 1..2 : <<"new", g, t>> \in New
  BY <1>2 DEF New
<1>6. NamesInv
  <2>1. Agrees(remote)
    BY <1>2, <1>5 DEF Agrees
  <2>2. ASSUME NEW L \in cache PROVE Agrees(L)
    <3>1. ASSUME NEW e \in L
          PROVE  /\ \A o \in remote : e.id = o.id => e.name = o.name
                 /\ \A g \in Active, t \in 1..2 : e.id # <<"new", g, t>>
      <4>1. PICK p \in remote : e.id = p.id /\ e.name = p.name
        BY <1>4
      <4>. QED
        BY <1>2, <1>5, <4>1
    <3>. QED
      BY <3>1 DEF Agrees
  <2>3. \A g \in Active : Agrees(list[g]) /\ pc[g] # "updating"
    BY DEF Init, Agrees
  <2>. QED
    BY <2>1, <2>2, <2>3 DEF NamesInv
<1>7. ListsInv
  <2>1. \A L \in cache : Complete(L)
    <3>1. ASSUME NEW o \in remote PROVE \E e \in entries : e.id = o.id /\ e.name = o.name
      <4>1. Entry(o) \in entries
        OBVIOUS
      <4>2. Entry(o).id = o.id /\ Entry(o).name = o.name
        BY DEF Entry
      <4>. QED
        BY <4>1, <4>2
    <3>. HIDE DEF entries
    <3>. QED
      BY <1>10, <3>1 DEF Complete, Existing
  <2>. QED
    BY <2>1 DEF Init, ListsInv
<1>8. PutInv
  BY <1>2, <1>4, KnownIds DEF Init, PutInv, Unposted
<1>9. ExistingNeverTwice
  BY <1>2 DEF ExistingNeverTwice
<1>. QED
  BY <1>3, <1>6, <1>7, <1>8, <1>9 DEF IInv

\* Names keep agreeing.
LEMMA NamesStep == TypeOK /\ IInv /\ [Next]_vars /\ kind \in Creating => NamesInv'
<1>. SUFFICES ASSUME TypeOK, IInv, [Next]_vars, kind \in Creating PROVE NamesInv'
  OBVIOUS
<1>0. NamesInv /\ name' = name /\ Active' = Active /\ kind \notin Putting
  BY Rigid DEF IInv, Active, Creating, Putting
<1>1. \A o \in remote' : Origin(o)
  BY RemoteStep
<1>2. ASSUME NEW L, Agrees(L) PROVE Agrees(L)'
  BY <1>0, <1>1, <1>2, AgreesKept DEF Agrees
<1>4. Agrees(remote)'
  <2>1. ASSUME NEW o \in remote', NEW g \in Active, NEW t \in 1..2, o.id = <<"new", g, t>>
        PROVE  o.name = name[g]
    BY <1>0, <1>1, <2>1 DEF Origin, NamesInv, Agrees, Created
  <2>2. ASSUME NEW x \in remote', NEW o \in remote', x.id = o.id PROVE x.name = o.name
    <3>1. ASSUME NEW g \in Active, NEW t \in 1..2, x.id = <<"new", g, t>> PROVE x.name = o.name
      BY <2>1, <2>2, <3>1
    <3>2. CASE \E p, q \in remote : /\ p.id = x.id /\ p.name = x.name
                                    /\ q.id = o.id /\ q.name = o.name
      BY <1>0, <2>2, <3>2 DEF NamesInv, Agrees
    <3>3. \A g \in Active : \E t \in 1..2 : Created(g) = <<"new", g, t>>
      BY DEF TypeOK, Created
    <3>. QED
      BY <1>0, <1>1, <2>2, <3>1, <3>2, <3>3 DEF Origin
  <2>. QED
    BY <1>0, <2>1, <2>2 DEF Agrees
<1>5. ASSUME NEW L \in cache' PROVE Agrees(L)'
  <2>1. L \in cache \/ \E g \in Active : L = list[g]
    BY ListsStep DEF ListsOk
  <2>. QED
    BY <1>0, <1>2, <2>1 DEF NamesInv
<1>6. ASSUME NEW g \in Active' PROVE Agrees(list[g])'
  <2>1. PICK L : L = list'[g]
    OBVIOUS
  <2>2. Agrees(L)
    <3>1. CASE L = list[g]
      BY <1>0, <1>6, <3>1 DEF NamesInv
    <3>2. ASSUME \A e \in L : e \in list[g] \/ \E o \in remote : e = Entry(o) PROVE Agrees(L)
      BY <1>0, <1>6, <3>2 DEF NamesInv, Agrees, Entry
    <3>. QED
      BY <1>0, <1>6, <2>1, <3>1, <3>2, ListsStep DEF ListsOk
  <2>3. Agrees(L)'
    BY <1>2, <2>2
  <2>4. /\ \A e \in L, o \in remote' : e.id = o.id => e.name = o.name
        /\ \A e \in L, h \in Active', t \in 1..2 : e.id = <<"new", h, t>> => e.name = name'[h]
    BY <2>3 DEF Agrees
  <2>5. /\ \A e \in list'[g], o \in remote' : e.id = o.id => e.name = o.name
        /\ \A e \in list'[g], h \in Active', t \in 1..2 : e.id = <<"new", h, t>> => e.name = name'[h]
    BY <2>1, <2>4
  <2>. QED
    BY <2>5 DEF Agrees
\* An object is updated because its name was found in a list.
<1>7. ASSUME NEW g \in Active, pc'[g] = "updating"
      PROVE  /\ \A o \in remote' : o.id = target'[g] => o.name = name[g]
             /\ \A h \in Active, t \in 1..2 : target'[g] = <<"new", h, t>> => name[h] = name[g]
  <2>1. PlaceOk(g)
    BY PlaceStep
  <2>2. CASE pc[g] = "updating" /\ target'[g] = target[g]
    <3>1. \A h \in Active : \E t \in 1..2 : Created(h) = <<"new", h, t>>
      BY DEF TypeOK, Created
    <3>2. \A h \in Active : target[g] = Created(h) => name[h] = name[g]
      BY <1>0, <1>7, <2>2, <3>1 DEF NamesInv
    <3>. QED
      BY <1>0, <1>1, <1>7, <2>2, <3>2 DEF Origin, NamesInv
  <2>3. ASSUME NEW L, Decides(g, L) PROVE  /\ \A o \in remote' : o.id = target'[g] => o.name = name[g]
               /\ \A h \in Active, t \in 1..2 : target'[g] = <<"new", h, t>> => name[h] = name[g]
    <3>1. Chosen(g, L) = {e.id : e \in Same(g, L)}
      BY ChosenByName
    <3>2. Agrees(L)
      BY <1>0, <2>3 DEF Decides, NamesInv, Agrees
    <3>3. PICK id \in Chosen(g, L) : target'[g] = id
      BY <1>7, <2>3 DEF Decides, Decide, Goto, TypeOK
    <3>4. PICK e \in L : e.id = id /\ e.name = name[g]
      BY <3>1, <3>3 DEF Same
    <3>. QED
      BY <1>7, <2>3, <3>2, <3>3, <3>4 DEF Decides, Agrees
  <2>. QED
    BY <1>7, <2>1, <2>2, <2>3 DEF PlaceOk
<1>. QED
  BY <1>0, <1>4, <1>5, <1>6, <1>7 DEF NamesInv

\* Lists keep having what was there before.
LEMMA CompleteStep == TypeOK /\ IInv /\ [Next]_vars /\ kind \in Creating => ListsInv'
<1>. SUFFICES ASSUME TypeOK, IInv, [Next]_vars, kind \in Creating, ~partial' PROVE
        /\ \A L \in cache' : Complete(L)'
        /\ \A g \in Active : pc'[g] = "listed" =>
              \A o \in Existing' : \E e \in list'[g] : e.id = o.id /\ e.name = o.name
        /\ \A g \in Active : pc'[g] = "creating" => \A o \in Existing' : o.name # name[g]
  BY Rigid DEF ListsInv, Complete, Active
<1>0. ~partial /\ NamesInv /\ ListsInv /\ name' = name /\ kind \notin Putting /\ kind # "single"
  BY Rigid DEF IInv, Creating, Putting
<1>1. \A g \in Active : Created(g) \in New
  BY DEF TypeOK, Created, New
<1>2. \A o \in Existing' : \E p \in Existing : p.id = o.id /\ p.name = o.name
  <2>1. \A o \in remote' : Origin(o)
    BY RemoteStep
  <2>2. \A o \in Existing' : o \in remote' /\ o.id \notin New
    BY DEF Existing, New
  <2>. QED
    BY <1>0, <1>1, <2>1, <2>2 DEF Origin, Existing
<1>3. ASSUME NEW L, Complete(L) PROVE Complete(L)'
  BY <1>2, <1>3 DEF Complete
<1>4. ASSUME NEW L \in cache' PROVE Complete(L)'
  <2>1. L \in cache \/ \E g \in Active : pc[g] = "listed" /\ L = list[g]
    BY ListsStep DEF ListsOk
  <2>. QED
    BY <1>0, <1>3, <2>1 DEF ListsInv
<1>5. ASSUME NEW g \in Active, pc'[g] = "listed", NEW o \in Existing'
      PROVE  \E e \in list'[g] : e.id = o.id /\ e.name = o.name
  <2>1. CASE pc[g] = "listed" /\ list'[g] = list[g]
    BY <1>0, <1>2, <2>1 DEF ListsInv, Complete
  <2>2. CASE /\ remote' = remote
             /\ list[g] \subseteq list'[g]
             /\ \A p \in remote : (\E e \in list[g] : e.id = p.id) \/ Entry(p) \in list'[g]
    <3>1. o \in remote
      BY <2>2 DEF Existing
    <3>2. CASE Entry(o) \in list'[g]
      BY <3>2 DEF Entry
    <3>3. ASSUME NEW e \in list[g], e.id = o.id PROVE e \in list'[g] /\ e.name = o.name
      BY <1>0, <2>2, <3>1, <3>3 DEF NamesInv, Agrees
    <3>. QED
      BY <2>2, <3>1, <3>2, <3>3
  <2>. QED
    BY <1>5, <2>1, <2>2, ListsStep DEF ListsOk
<1>6. ASSUME NEW g \in Active, pc'[g] = "creating", NEW o \in Existing' PROVE o.name # name[g]
  <2>1. CASE pc[g] = "creating"
    BY <1>0, <1>2, <2>1 DEF ListsInv
  <2>2. ASSUME NEW L, Decides(g, L) PROVE o.name # name[g]
    <3>1. Complete(L)
      BY <1>0, <2>2 DEF Decides, ListsInv
    <3>2. Chosen(g, L) = {}
      BY <1>6, <2>2 DEF Decides, Decide, Goto, TypeOK
    <3>3. {e.id : e \in Same(g, L)} = {}
      BY <3>2, ChosenByName
    <3>4. \A e \in Same(g, L) : e.id \in {d.id : d \in Same(g, L)}
      OBVIOUS
    <3>5. Same(g, L) = {}
      BY <3>3, <3>4
    <3>6. \A e \in L : e.name # name[g]
      BY <3>5 DEF Same
    <3>. QED
      BY <1>2, <3>1, <3>6 DEF Complete
  <2>3. PlaceOk(g)
    BY PlaceStep
  <2>. QED
    BY <1>6, <2>1, <2>2, <2>3 DEF PlaceOk
<1>. QED
  BY <1>4, <1>5, <1>6

\* Where ids are known, still nothing is created by POST.
LEMMA PutStep == TypeOK /\ IInv /\ [Next]_vars /\ kind \in Putting => PutInv'
<1>. SUFFICES ASSUME TypeOK, IInv, [Next]_vars, kind \in Putting PROVE PutInv'
  OBVIOUS
<1>0. PutInv /\ kind \notin Creating /\ Active' = Active
  BY Rigid DEF IInv, Creating, Putting, Active
<1>1. \A o \in remote' : o.id \notin New
  BY <1>0, RemoteStep DEF Origin, PutInv, Unposted
<1>2. \A L \in cache' : Unposted(L)
  BY <1>0, ListsStep DEF ListsOk, PutInv
<1>3. \A g \in Active : \A e \in list'[g] : e.id \notin New
  BY <1>0, ListsStep DEF ListsOk, PutInv, Unposted, Entry
<1>4. ASSUME NEW g \in Active PROVE target'[g] \notin New /\ pc'[g] # "creating"
  <2>1. ASSUME NEW L, Decides(g, L) PROVE target'[g] \notin New /\ pc'[g] # "creating"
    <3>1. Unposted(L)
      BY <1>0, <2>1 DEF Decides, PutInv, Unposted
    <3>2. Chosen(g, L) # {} /\ \A id \in Chosen(g, L) : id \notin New
      BY <3>1, ChosenKnown
    <3>. QED
      BY <2>1, <3>2 DEF Decides, Decide, Goto, TypeOK
  <2>2. PlaceOk(g)
    BY PlaceStep
  <2>. QED
    BY <1>0, <2>1, <2>2 DEF PlaceOk, PutInv
<1>. QED
  BY <1>0, <1>1, <1>2, <1>3, <1>4 DEF PutInv, Unposted, New

\* An object is created next to no existing one.
LEMMA TwiceStep == TypeOK /\ IInv /\ [Next]_vars => ExistingNeverTwice'
<1>. SUFFICES ASSUME TypeOK, IInv, [Next]_vars, ~partial',
                     NEW o \in remote', NEW p \in remote', o.name = p.name, p.id \in New, o.id \notin New
              PROVE  FALSE
  BY DEF ExistingNeverTwice, New
<1>0. ~partial
  BY Rigid
<1>1. CASE kind \in Putting
  <2>1. PutInv'
    BY <1>1, PutStep
  <2>. QED
    BY <2>1 DEF PutInv, Unposted, New
<1>2. CASE kind \in Creating
  <2>0. ListsInv /\ ExistingNeverTwice /\ kind \notin Putting
    BY <1>2 DEF IInv, Creating, Putting
  <2>1. \A g \in Active : Created(g) \in New
    BY DEF TypeOK, Created, New
  <2>2. PICK q \in remote : q.id = o.id /\ q.name = o.name
    BY <2>0, <2>1, RemoteStep DEF Origin
  <2>3. CASE \E r \in remote : r.id = p.id /\ r.name = p.name
    BY <1>0, <2>0, <2>2, <2>3 DEF ExistingNeverTwice
  <2>4. CASE \E g \in Active : pc[g] = "creating" /\ p.name = name[g]
    BY <1>0, <2>0, <2>2, <2>4 DEF ListsInv, Existing
  <2>. QED
    BY <2>0, <2>3, <2>4, RemoteStep DEF Origin
<1>. QED
  BY <1>1, <1>2 DEF TypeOK

-----------------------------------------------------------------------------
(* Theorems.                                                               *)

\* Types and the inductive invariant hold in every reachable state.
THEOREM Invariance == Spec => [](TypeOK /\ IInv)
<1>1. Init => TypeOK /\ IInv
  BY InitInv
<1>2. TypeOK /\ IInv /\ [Next]_vars => (TypeOK /\ IInv)'
  <2>. SUFFICES ASSUME TypeOK, IInv, [Next]_vars PROVE TypeOK' /\ IInv'
    OBVIOUS
  <2>1. TypeOK' /\ ExistingNeverTwice' /\ kind' = kind
    BY TypeStep, TwiceStep, Rigid
  <2>2. kind \in Creating => NamesInv' /\ ListsInv'
    BY NamesStep, CompleteStep
  <2>3. kind \in Putting => PutInv'
    BY PutStep
  <2>. QED
    BY <2>1, <2>2, <2>3 DEF IInv, Creating, Putting
<1>. QED
  BY <1>1, <1>2, PTL DEF Spec

\* While lists are complete, no object is ever created next to one of its name
\* that was there before the deployment: whatever fails, whatever others delete,
\* and however many goroutines share the cached lists.
THEOREM ExistingNeverCreatedTwice == Spec => []ExistingNeverTwice
<1>1. IInv => ExistingNeverTwice
  BY DEF IInv
<1>. QED
  BY <1>1, Invariance, PTL
-----------------------------------------------------------------------------
(* Configurations that mean different objects.                             *)

\* Configurations have different names, as the validation demands where names are
\* unique, or are known to be duplicates where they need not be; an API with one
\* object has one configuration.  Ids made of a name or for a configuration are
\* those of objects with that name.
Apart ==
    \A s \in Scenarios :
        /\ s.kind = "single" => \A g, h \in DOMAIN s.name : g = h
        /\ \A g, h \in DOMAIN s.name : g # h /\ s.name[g] = s.name[h] =>
              s.kind = "nonUnique" /\ g \in s.duplicate
        /\ \A o \in s.remote : \A n \in Names : o.id = Named(n) => o.name = n
        /\ \A o \in s.remote : \A g \in DOMAIN s.name : o.id = Uuid(g) => o.name = s.name[g]

\* An id belongs to a name from the beginning, or because of how it is made.
Means(s, id, n) ==
    \/ \E o \in s.remote : o.id = id /\ o.name = n
    \/ \E g \in DOMAIN s.name :
          n = s.name[g] /\ (id = Named(n) \/ id = Uuid(g) \/ \E t \in 1..2 : id = <<"new", g, t>>)

\* Where objects are and where they are known, and what is to be or was written.
MeaningInv(s) ==
    /\ \A o \in remote : Means(s, o.id, o.name)
    /\ \A L \in cache : \A e \in L : Means(s, e.id, e.name)
    /\ \A g \in Active : \A e \in list[g] : Means(s, e.id, e.name)
    /\ \A g \in Active : pc[g] \in {"updating", "done"} =>
            /\ Means(s, target[g], name[g])
            /\ kind = "nonUnique" /\ g \in duplicate => target[g] = Uuid(g)

\* What was listed exists unless others deleted it.
Accounted(id) == Exists(id) \/ id \in deleted

AccountedInv ==
    /\ \A L \in cache : \A e \in L : Accounted(e.id)
    /\ \A g \in Active : \A e \in list[g] : Accounted(e.id)
    /\ kind \in Creating => \A g \in Active : pc[g] = "updating" => Accounted(target[g])

WrittenInv ==
    /\ DoneMeansWritten
    /\ AccountedInv
    /\ \E s \in Scenarios :
          /\ kind = s.kind /\ name = s.name /\ duplicate = s.duplicate
          /\ kind # "single" => MeaningInv(s)

-----------------------------------------------------------------------------
(* An upsert that no other runs next to.                                   *)

\* Lists have everything the environment has.
Whole(L) == \A o \in remote : \E e \in L : e.id = o.id /\ e.name = o.name

AloneInv ==
    /\ AloneNothingTwice
    /\ \A o, p \in remote : o.id = p.id => o = p
    /\ Alone /\ ~partial /\ kind \in Creating => \A g \in Active :
          /\ pc[g] = "start" => \A L \in cache : Whole(L)
          /\ pc[g] = "listed" => Whole(list[g])
          /\ pc[g] = "creating" => \A o \in remote : o.name # name[g]

\* A second attempt without an error was made because of a deletion, and looks only
\* at what it listed itself.
SecondInv ==
    /\ FailsOnlyAfterErrors
    /\ IsFiniteSet(deleted)
    /\ Alone /\ ~partial => \A g \in Active \ erred :
          /\ kind \in Putting => pc[g] # "erred" /\ try[g] = 1
          /\ pc[g] = "erred" => deleted # {}
          /\ try[g] = 2 =>
                /\ deleted # {}
                /\ pc[g] = "start" => cache = {}
                /\ pc[g] \in {"paging", "listed"} => \A e \in list[g] : Exists(e.id)
                /\ pc[g] = "updating" => Exists(target[g])

-----------------------------------------------------------------------------
(* What a step does to the environment, and where goroutines come from.    *)

Quiet      == remote' = remote /\ deleted' = deleted
Deletes(o) == remote' = remote \ {o} /\ deleted' = deleted \cup {o.id}
Ends(g)    == \E w \in {"done", "erred", "failed"} : Goto(g, w)
Puts(g) ==
    /\ At(g, "updating") /\ Ends(g) /\ Writes(g, target[g]) /\ deleted' = deleted /\ target' = target
    /\ Exists(target[g]) \/ kind \in Putting
Posts(g) ==
    /\ At(g, "creating") /\ Ends(g) /\ Writes(g, Created(g)) /\ deleted' = deleted

\* Others delete an object, or a goroutine writes one, or none.
LEMMA Moves ==
  ASSUME [Next]_vars
  PROVE  \/ Quiet
         \/ \E o \in remote : Deletes(o)
         \/ \E g \in Active : Puts(g) \/ Posts(g)
<1>1. ASSUME NEW g \in Active, CallFails(g) PROVE Quiet \/ Puts(g) \/ Posts(g)
  BY <1>1 DEF CallFails, Error, Quiet, Puts, Posts, Ends
<1>2. ASSUME NEW g \in Active, Update(g) PROVE Puts(g)
  BY <1>2 DEF Update, Return, Puts, Ends
<1>3. ASSUME NEW g \in Active, Create(g) PROVE Posts(g)
  BY <1>3 DEF Create, Return, Posts, Ends
<1>4. ASSUME NEW o \in remote, OthersDelete(o) PROVE Deletes(o)
  BY <1>4 DEF OthersDelete, Deletes
<1>. QED
  BY <1>1, <1>2, <1>3, <1>4
     DEF Next, Work, Failure, Done, ReadCache, StartList, GetPage, ListBreaks, SetCache, UpdateMissing,
         CreateRefused, DropCache, Error, vars, Quiet

\* An upsert that succeeded wrote its object, or one that is never updated exists.
LEMMA DoneStep ==
  ASSUME TypeOK, [Next]_vars, NEW g \in Active, pc'[g] = "done"
  PROVE  \/ pc[g] = "done" /\ target'[g] = target[g]
         \/ Puts(g)
         \/ Posts(g) /\ target'[g] = Created(g)
         \/ kind = "keyAction" /\ \E L : Decides(g, L) /\ target'[g] \in Chosen(g, L)
<1>. DEFINE Goal == \/ pc[g] = "done" /\ target'[g] = target[g]
                    \/ Puts(g)
                    \/ Posts(g) /\ target'[g] = Created(g)
                    \/ kind = "keyAction" /\ \E L : Decides(g, L) /\ target'[g] \in Chosen(g, L)
<1>0. /\ pc \in [Active -> {"start", "paging", "listed", "creating", "updating", "erred", "done", "failed"}]
      /\ target = [a \in Active |-> target[a]]
  BY DEF TypeOK
<1>1. CASE UNCHANGED <<pc, target>>
  BY <1>1
<1>2. ASSUME NEW h \in Active, NEW w, Goto(h, w), w # "done", target' = target
      PROVE  Goal
  BY <1>0, <1>2 DEF Goto
<1>3. ASSUME NEW h \in Active, NEW L, Decides(h, L) PROVE Goal
  <2>1. CASE h = g
    BY <1>0, <1>3, <2>1 DEF Decides, Decide, Goto
  <2>2. CASE h # g
    BY <1>0, <1>3, <2>2 DEF Decides, Decide, Goto
  <2>. QED
    BY <2>1, <2>2
<1>4. ASSUME NEW h \in Active, Error(h) PROVE Goal
  BY <1>2, <1>4 DEF Error
<1>5. ASSUME NEW h \in Active, Create(h) PROVE Goal
  BY <1>0, <1>5 DEF Create, Return, Goto, Posts, Ends
<1>6. ASSUME NEW h \in Active, Update(h) PROVE Goal
  BY <1>0, <1>6 DEF Update, Return, Goto, Puts, Ends
<1>7. ASSUME NEW h \in Active, ReadCache(h) PROVE Goal
  BY <1>3, <1>7 DEF ReadCache, Decides, At
<1>8. ASSUME NEW h \in Active, SetCache(h) PROVE Goal
  BY <1>3, <1>8 DEF SetCache, Decides, At
<1>9. ASSUME NEW h \in Active, GetPage(h) PROVE Goal
  BY <1>2, <1>9 DEF GetPage
<1>. QED
  BY <1>1, <1>2, <1>4, <1>5, <1>6, <1>7, <1>8, <1>9
     DEF Next, Work, Failure, Done, StartList, ListBreaks, UpdateMissing,
         CreateRefused, CallFails, DropCache, OthersDelete, vars

\* What exists or was deleted stays so.
Still(id) == (\E o \in remote' : o.id = id) \/ id \in deleted'

LEMMA AccountedKept == [Next]_vars => \A id : Accounted(id) => Still(id)
<1>. SUFFICES ASSUME [Next]_vars, NEW id, Accounted(id) PROVE Still(id)
  OBVIOUS
<1>1. CASE Quiet
  BY <1>1 DEF Quiet, Accounted, Exists, Still
<1>2. ASSUME NEW o \in remote, Deletes(o) PROVE Still(id)
  BY <1>2 DEF Deletes, Accounted, Exists, Still
<1>3. ASSUME NEW g \in Active, NEW i, Writes(g, i), deleted' = deleted PROVE Still(id)
  <2>1. Object(i, name[g], g) \in remote' /\ Object(i, name[g], g).id = i
    BY <1>3 DEF Writes, Object
  <2>2. \A o \in remote : o.id # i => o \in remote'
    BY <1>3 DEF Writes
  <2>. QED
    BY <1>3, <2>1, <2>2 DEF Accounted, Exists, Still
<1>. QED
  BY <1>1, <1>2, <1>3, Moves DEF Puts, Posts

-----------------------------------------------------------------------------
(* Done means written.                                                     *)

\* An id has one name.
LEMMA OneMeaning ==
  ASSUME Apart, NEW s \in Scenarios, NEW id, NEW n, NEW m, Means(s, id, n), Means(s, id, m)
  PROVE  n = m
<1>1. /\ \A o, p \in s.remote : o.id = p.id => o = p
      /\ \A o \in s.remote : o.id \notin New
      /\ \A g \in DOMAIN s.name : s.name[g] \in Names /\ g \in Goroutines
  BY ScenariosAssumption
<1>2. /\ \A o \in s.remote : \A k \in Names : o.id = Named(k) => o.name = k
      /\ \A o \in s.remote : \A g \in DOMAIN s.name : o.id = Uuid(g) => o.name = s.name[g]
  BY DEF Apart
<1>3. \A g \in DOMAIN s.name, t \in 1..2 : <<"new", g, t>> \in New
  BY <1>1 DEF New
<1>4. \A k, l, g, h, t, u :
         /\ Named(k) = Named(l) => k = l
         /\ Uuid(g) = Uuid(h) => g = h
         /\ <<"new", g, t>> = <<"new", h, u>> => g = h
         /\ Named(k) # Uuid(g) /\ Named(k) # <<"new", g, t>> /\ Uuid(h) # <<"new", g, t>>
  BY DEF Named, Uuid
<1>. DEFINE Made(g) == id = Named(s.name[g]) \/ id = Uuid(g) \/ \E t \in 1..2 : id = <<"new", g, t>>
<1>5. ASSUME NEW o \in s.remote, o.id = id, NEW g \in DOMAIN s.name, Made(g) PROVE o.name = s.name[g]
  BY <1>1, <1>2, <1>3, <1>5
<1>6. ASSUME NEW g \in DOMAIN s.name, NEW h \in DOMAIN s.name, Made(g), Made(h)
      PROVE  s.name[g] = s.name[h]
  BY <1>4, <1>6
<1>. QED
  BY <1>1, <1>5, <1>6 DEF Means

\* Goroutines that write, or wrote, do not write one object.
LEMMA Disjoint ==
  ASSUME Apart, NEW s \in Scenarios, name = s.name, kind = s.kind, duplicate = s.duplicate,
         kind # "single" => MeaningInv(s), TypeOK,
         NEW g \in Active, NEW h \in Active, g # h, pc[g] = "done"
  PROVE  /\ Puts(h) => target[h] # target[g]
         /\ Posts(h) /\ kind \in Creating => Created(h) # target[g]
<1>1. kind # "single"
  BY DEF Apart, Active
<1>2. /\ Means(s, target[g], name[g])
      /\ kind = "nonUnique" /\ g \in duplicate => target[g] = Uuid(g)
  BY <1>1 DEF MeaningInv
<1>3. name[g] # name[h] \/ (kind = "nonUnique" /\ g \in duplicate /\ h \in duplicate)
  BY DEF Apart, Active
<1>4. ASSUME Puts(h), target[h] = target[g] PROVE FALSE
  <2>1. /\ Means(s, target[h], name[h])
        /\ kind = "nonUnique" /\ h \in duplicate => target[h] = Uuid(h)
    BY <1>1, <1>4 DEF MeaningInv, Puts, At
  <2>2. name[g] = name[h]
    BY <1>2, <1>4, <2>1, OneMeaning
  <2>3. Uuid(g) # Uuid(h)
    BY DEF Uuid
  <2>. QED
    BY <1>2, <1>3, <1>4, <2>1, <2>2, <2>3
<1>5. ASSUME Posts(h), kind \in Creating, Created(h) = target[g] PROVE FALSE
  <2>1. Means(s, Created(h), name[h])
    BY DEF Means, Created, TypeOK, Active
  <2>2. name[g] = name[h]
    BY <1>2, <1>5, <2>1, OneMeaning
  <2>. QED
    BY <1>3, <1>5, <2>2 DEF Creating
<1>. QED
  BY <1>4, <1>5

\* What a goroutine chooses has its name.
LEMMA ChosenMeans ==
  ASSUME NEW s \in Scenarios, name = s.name, kind # "single", NEW g \in Active,
         NEW L, \A e \in L : Means(s, e.id, e.name), NEW id \in Chosen(g, L)
  PROVE  /\ Means(s, id, name[g])
         /\ kind = "nonUnique" /\ g \in duplicate => id = Uuid(g)
<1>1. Means(s, Named(name[g]), name[g]) /\ Means(s, Uuid(g), name[g])
  BY DEF Means, Active
<1>2. \A e \in Same(g, L) : Means(s, e.id, name[g])
  BY DEF Same
<1>. QED
  BY <1>1, <1>2 DEF Chosen

\* Ids keep their meaning.
LEMMA MeaningStep ==
  ASSUME TypeOK, IInv, [Next]_vars, NEW s \in Scenarios, name = s.name, kind # "single", MeaningInv(s)
  PROVE  MeaningInv(s)'
<1>0. kind' = kind /\ name' = name /\ Active' = Active /\ duplicate' = duplicate
  BY Rigid DEF Active
<1>1. \A g \in Active : Means(s, Created(g), name[g])
  BY DEF Means, Created, TypeOK, Active
<1>2. ASSUME NEW o \in remote' PROVE Means(s, o.id, o.name)
  <2>1. CASE o \in remote
    BY <2>1 DEF MeaningInv
  <2>2. ASSUME NEW g \in Active, Puts(g), o = Object(target[g], name[g], g) PROVE Means(s, o.id, o.name)
    BY <2>2 DEF MeaningInv, Object, Puts, At
  <2>3. ASSUME NEW g \in Active, Posts(g), o = Object(Created(g), name[g], g) PROVE Means(s, o.id, o.name)
    BY <1>1, <2>3 DEF Object
  <2>. QED
    BY <2>1, <2>2, <2>3, Moves DEF Quiet, Deletes, Puts, Posts, Writes
<1>3. ASSUME NEW L \in cache' PROVE \A e \in L : Means(s, e.id, e.name)
  BY ListsStep DEF ListsOk, MeaningInv
<1>4. ASSUME NEW g \in Active PROVE \A e \in list'[g] : Means(s, e.id, e.name)
  BY ListsStep DEF ListsOk, MeaningInv, Entry
<1>. DEFINE Right(g) == /\ Means(s, target'[g], name[g])
                        /\ kind = "nonUnique" /\ g \in duplicate => target'[g] = Uuid(g)
<1>5. ASSUME NEW g \in Active, pc'[g] \in {"updating", "done"} PROVE Right(g)
  <2>1. ASSUME NEW L, Decides(g, L), target'[g] \in Chosen(g, L) PROVE Right(g)
    <3>1. \A e \in L : Means(s, e.id, e.name)
      BY <2>1 DEF Decides, MeaningInv
    <3>. QED
      BY <2>1, <3>1, ChosenMeans
  <2>2. ASSUME NEW L, Decides(g, L), pc'[g] = "updating" PROVE target'[g] \in Chosen(g, L)
    BY <2>2 DEF Decides, Decide, Goto, TypeOK
  <2>3. CASE pc'[g] = "updating"
    BY <2>1, <2>2, <2>3, PlaceStep DEF PlaceOk, MeaningInv
  <2>4. CASE pc'[g] = "done"
    <3>1. CASE Posts(g) /\ target'[g] = Created(g)
      <4>1. kind # "nonUnique"
        BY <3>1 DEF Posts, At, IInv, PutInv, Putting
      <4>. QED
        BY <1>1, <3>1, <4>1
    <3>2. CASE Puts(g) \/ (pc[g] = "done" /\ target'[g] = target[g])
      BY <3>2 DEF Puts, At, MeaningInv
    <3>3. CASE \E L : Decides(g, L) /\ target'[g] \in Chosen(g, L)
      BY <2>1, <3>3
    <3>. QED
      BY <2>4, <3>1, <3>2, <3>3, DoneStep
  <2>. QED
    BY <1>5, <2>3, <2>4
<1>. QED
  BY <1>0, <1>2, <1>3, <1>4, <1>5 DEF MeaningInv

\* What was listed exists unless others deleted it, and so does what is updated.
LEMMA AccountedStep == TypeOK /\ IInv /\ AccountedInv /\ [Next]_vars => AccountedInv'
<1>. SUFFICES ASSUME TypeOK, IInv, AccountedInv, [Next]_vars PROVE AccountedInv'
  OBVIOUS
<1>0. kind' = kind /\ Active' = Active
  BY Rigid DEF Active
<1>1. ASSUME NEW L, \A e \in L : Accounted(e.id) PROVE \A e \in L : Still(e.id)
  BY <1>1, AccountedKept
<1>2. ASSUME NEW L \in cache' PROVE \A e \in L : Still(e.id)
  BY <1>1, ListsStep DEF ListsOk, AccountedInv
<1>3. ASSUME NEW g \in Active, NEW e \in list'[g] PROVE Still(e.id)
  <2>1. Accounted(e.id)
    BY ListsStep DEF ListsOk, AccountedInv, Accounted, Exists, Entry
  <2>. QED
    BY <2>1, AccountedKept
<1>4. ASSUME kind \in Creating, NEW g \in Active, pc'[g] = "updating" PROVE Still(target'[g])
  <2>1. Accounted(target'[g])
    <3>1. ASSUME NEW L, Decides(g, L) PROVE Accounted(target'[g])
      <4>1. target'[g] \in Chosen(g, L)
        BY <1>4, <3>1 DEF Decides, Decide, Goto, TypeOK
      <4>2. PICK e \in L : e.id = target'[g]
        BY <1>4, <4>1, ChosenByName DEF Same
      <4>. QED
        BY <1>4, <3>1, <4>2 DEF Decides, AccountedInv, Creating
    <3>. QED
      BY <1>4, <3>1, PlaceStep DEF PlaceOk, AccountedInv
  <2>. QED
    BY <2>1, AccountedKept
<1>. QED
  BY <1>0, <1>2, <1>3, <1>4 DEF AccountedInv, Accounted, Exists, Still

\* What a goroutine wrote is not written over.
LEMMA WrittenStep ==
  ASSUME Apart, TypeOK, IInv, WrittenInv, [Next]_vars
  PROVE  DoneMeansWritten'
<1>0. kind' = kind /\ name' = name /\ Active' = Active
  BY Rigid DEF Active
<1>1. PICK s \in Scenarios :
         /\ kind = s.kind /\ name = s.name /\ duplicate = s.duplicate
         /\ kind # "single" => MeaningInv(s)
  BY DEF WrittenInv
<1>. DEFINE Is(g, id) == \/ id \in deleted'
                         \/ Object(id, name[g], g) \in remote'
                         \/ kind = "keyAction" /\ \E o \in remote' : o.id = id
<1>2. ASSUME NEW g \in Active, pc'[g] = "done" PROVE Is(g, target'[g])
  <2>1. CASE Puts(g)
    BY <2>1 DEF Puts, Writes
  <2>2. CASE Posts(g) /\ target'[g] = Created(g)
    BY <2>2 DEF Posts, Writes
  <2>3. ASSUME kind = "keyAction", NEW L, Decides(g, L), target'[g] \in Chosen(g, L)
        PROVE  Is(g, target'[g])
    <3>1. PICK e \in L : e.id = target'[g]
      BY <2>3, ChosenByName DEF Same, Creating
    <3>2. Accounted(e.id)
      BY <2>3, <3>1 DEF Decides, WrittenInv, AccountedInv
    <3>3. Still(e.id)
      BY <3>2, AccountedKept
    <3>. QED
      BY <2>3, <3>1, <3>3 DEF Still
  <2>4. CASE pc[g] = "done" /\ target'[g] = target[g]
    <3>1. \/ target[g] \in deleted
          \/ Object(target[g], name[g], g) \in remote
          \/ kind = "keyAction" /\ Exists(target[g])
      BY <2>4 DEF WrittenInv, DoneMeansWritten
    <3>2. CASE target[g] \in deleted \/ (kind = "keyAction" /\ Exists(target[g]))
      <4>1. Still(target[g])
        BY <3>2, AccountedKept DEF Accounted
      <4>2. target[g] \in deleted => target[g] \in deleted'
        BY Moves DEF Quiet, Deletes, Puts, Posts
      <4>. QED
        BY <2>4, <3>2, <4>1, <4>2 DEF Still
    <3>3. CASE Object(target[g], name[g], g) \in remote
      <4>1. CASE Quiet
        BY <2>4, <3>3, <4>1 DEF Quiet
      <4>2. ASSUME NEW o \in remote, Deletes(o) PROVE Is(g, target'[g])
        BY <2>4, <3>3, <4>2 DEF Deletes, Object
      <4>3. ASSUME NEW h \in Active, NEW id, Writes(h, id), id # target[g] PROVE Is(g, target'[g])
        BY <2>4, <3>3, <4>3 DEF Writes, Object
      <4>4. ASSUME NEW h \in Active, Puts(h) \/ Posts(h) PROVE Is(g, target'[g])
        <5>1. h # g
          BY <2>4, <4>4 DEF Puts, Posts, At
        <5>2. Posts(h) => kind \in Creating
          BY DEF Posts, At, IInv, PutInv, TypeOK
        <5>3. /\ Puts(h) => target[h] # target[g]
              /\ Posts(h) => Created(h) # target[g]
          BY <1>1, <2>4, <5>1, <5>2, Disjoint
        <5>. QED
          BY <4>3, <4>4, <5>3 DEF Puts, Posts
      <4>. QED
        BY <4>1, <4>2, <4>4, Moves
    <3>. QED
      BY <3>1, <3>2, <3>3
  <2>. QED
    BY <1>2, <2>1, <2>2, <2>3, <2>4, DoneStep
<1>. QED
  BY <1>0, <1>2 DEF DoneMeansWritten, Object, Exists

\* Initially nothing is listed that does not exist, and ids mean what they mean.
LEMMA WrittenInit == Init => WrittenInv
<1>. SUFFICES ASSUME Init PROVE WrittenInv
  OBVIOUS
<1>1. PICK s \in Scenarios : kind = s.kind /\ name = s.name /\ duplicate = s.duplicate /\ remote = s.remote
  BY Zenon DEF Init
<1>2. \A g \in Active : pc[g] = "start" /\ list[g] = {}
  BY DEF Init
<1>3. \A L \in cache : \A e \in L : \E o \in remote : e.id = o.id /\ e.name = o.name
  <2>. DEFINE entries == {Entry(o) : o \in remote}
  <2>1. \A e \in entries : \E o \in remote : e.id = o.id /\ e.name = o.name
    BY DEF Entry
  <2>2. cache = {} \/ cache = {entries}
    BY DEF Init
  <2>. HIDE DEF entries
  <2>. QED
    BY <2>1, <2>2
<1>4. AccountedInv /\ DoneMeansWritten
  BY <1>2, <1>3 DEF AccountedInv, Accounted, Exists, DoneMeansWritten
<1>5. MeaningInv(s)
  BY <1>1, <1>2, <1>3 DEF MeaningInv, Means
<1>. QED
  BY <1>1, <1>4, <1>5 DEF WrittenInv

-----------------------------------------------------------------------------
(* One upsert alone.                                                       *)

\* Without another one, only what others delete changes while nothing is written.
LEMMA AloneMoves ==
  ASSUME TypeOK, [Next]_vars, Alone, NEW g \in Active,
         pc[g] \notin {"creating", "updating"} \/ pc'[g] \in {"creating", "updating"}
  PROVE  remote' \subseteq remote
<1>1. ASSUME NEW h \in Active, Puts(h) \/ Posts(h) PROVE FALSE
  <2>1. h = g
    BY DEF Alone
  <2>. QED
    BY <1>1, <2>1 DEF Puts, Posts, Ends, At, Goto, TypeOK
<1>. QED
  BY <1>1, Moves DEF Quiet, Deletes

\* It starts with what it found, or without a cached list.
LEMMA AloneStart ==
  ASSUME TypeOK, [Next]_vars, Alone, NEW g \in Active, pc'[g] = "start"
  PROVE  (pc[g] = "start" /\ cache' = cache) \/ cache' = {}
<1>. DEFINE Goal == (pc[g] = "start" /\ cache' = cache) \/ cache' = {}
<1>1. CASE UNCHANGED <<pc, cache>>
  BY <1>1
<1>2. ASSUME NEW w, Goto(g, w), w # "start" PROVE FALSE
  BY <1>2 DEF Goto, TypeOK
<1>3. ASSUME Error(g) PROVE FALSE
  BY <1>2, <1>3 DEF Error
<1>4. ASSUME NEW L, Decide(g, L) PROVE FALSE
  BY <1>2, <1>4 DEF Decide
<1>5. ASSUME GetPage(g) PROVE FALSE
  BY <1>2, <1>5 DEF GetPage
<1>6. \A h \in Active : h = g
  BY DEF Alone
<1>7. CASE Work
  BY <1>2, <1>3, <1>4, <1>5, <1>6, <1>7 DEF Work, ReadCache, StartList, SetCache, Update, UpdateMissing,
     Create, CreateRefused, DropCache, Return
<1>8. CASE Failure
  BY <1>1, <1>2, <1>3, <1>6, <1>8 DEF Failure, ListBreaks, CallFails, OthersDelete
<1>. QED
  BY <1>1, <1>7, <1>8 DEF Next, Done, vars

\* Ids stay those of one object.
LEMMA IdsStep ==
  ASSUME [Next]_vars, \A o, p \in remote : o.id = p.id => o = p
  PROVE  \A o, p \in remote' : o.id = p.id => o = p
<1>1. CASE remote' \subseteq remote
  BY <1>1
<1>2. ASSUME NEW g \in Active, NEW id, Writes(g, id)
      PROVE  \A o, p \in remote' : o.id = p.id => o = p
  BY <1>2 DEF Writes, Object
<1>. QED
  BY <1>1, <1>2, Moves DEF Quiet, Deletes, Puts, Posts

\* One upsert alone keeps looking at whole lists, and creates nothing twice.
LEMMA AloneStep == TypeOK /\ IInv /\ AloneInv /\ [Next]_vars => AloneInv'
<1>. SUFFICES ASSUME TypeOK, IInv, AloneInv, [Next]_vars PROVE AloneInv'
  OBVIOUS
<1>0. kind' = kind /\ name' = name /\ Active' = Active /\ (Alone' <=> Alone) /\ (partial => partial')
  BY Rigid DEF Active, Alone
<1>1. \A o, p \in remote' : o.id = p.id => o = p
  BY IdsStep DEF AloneInv
<1>2. ASSUME Alone, ~partial', kind \in Creating, NEW g \in Active
      PROVE  /\ pc'[g] = "start" => \A L \in cache' : Whole(L)'
             /\ pc'[g] = "listed" => \A o \in remote' : \E e \in list'[g] : e.id = o.id /\ e.name = o.name
             /\ pc'[g] = "creating" => \A o \in remote' : o.name # name[g]
  <2>0. /\ pc[g] = "start" => \A L \in cache : Whole(L)
        /\ pc[g] = "listed" => Whole(list[g])
        /\ pc[g] = "creating" => \A o \in remote : o.name # name[g]
        /\ NamesInv /\ kind # "single"
    BY <1>0, <1>2 DEF AloneInv, IInv, Creating
  <2>1. CASE pc'[g] = "start"
    <3>1. pc[g] = "start" \/ cache' = {}
      BY <1>2, <2>1, AloneStart
    <3>2. CASE cache' = {}
      BY <2>1, <3>2
    <3>3. CASE pc[g] = "start" /\ cache' = cache
      <4>1. remote' \subseteq remote
        BY <1>2, <3>3, AloneMoves
      <4>. QED
        BY <2>0, <2>1, <3>3, <4>1 DEF Whole
    <3>. QED
      BY <1>2, <2>1, <3>2, <3>3, AloneStart
  <2>2. CASE pc'[g] = "listed"
    <3>1. CASE pc[g] = "listed" /\ list'[g] = list[g]
      <4>1. remote' \subseteq remote
        BY <1>2, <3>1, AloneMoves
      <4>. QED
        BY <2>0, <2>2, <3>1, <4>1 DEF Whole
    <3>2. CASE /\ remote' = remote
               /\ list[g] \subseteq list'[g]
               /\ \A o \in remote : (\E e \in list[g] : e.id = o.id) \/ Entry(o) \in list'[g]
      <4>1. \A e \in list[g], o \in remote : e.id = o.id => e.name = o.name
        BY <1>2, <2>0 DEF NamesInv, Agrees
      <4>. QED
        BY <2>2, <3>2, <4>1 DEF Entry
    <3>. QED
      BY <1>2, <2>2, <3>1, <3>2, ListsStep DEF ListsOk
  <2>3. CASE pc'[g] = "creating"
    <3>1. CASE pc[g] = "creating"
      <4>1. remote' \subseteq remote
        BY <1>2, <2>3, AloneMoves
      <4>. QED
        BY <2>0, <2>3, <3>1, <4>1
    <3>2. ASSUME NEW L, Decides(g, L) PROVE \A o \in remote' : o.name # name[g]
      <4>1. Whole(L)
        BY <2>0, <3>2 DEF Decides
      <4>2. Chosen(g, L) = {}
        BY <2>3, <3>2 DEF Decides, Decide, Goto, TypeOK
      <4>3. \A e \in Same(g, L) : e.id \in Chosen(g, L)
        BY <1>2, ChosenByName
      <4>4. \A e \in L : e.name # name[g]
        BY <4>2, <4>3 DEF Same
      <4>. QED
        BY <3>2, <4>1, <4>4 DEF Whole, Decides
    <3>. QED
      BY <2>3, <3>1, <3>2, PlaceStep DEF PlaceOk
  <2>. QED
    BY <2>1, <2>2, <2>3
<1>3. ASSUME Alone, ~partial', NEW o \in remote', NEW p \in remote', o.name = p.name, p.id \in New
      PROVE  o = p
  <2>0. \A q, r \in remote : q.name = r.name /\ r.id \in New => q = r
    BY <1>0, <1>3 DEF AloneInv, AloneNothingTwice, NothingTwice
  <2>1. kind \in Creating
    BY <1>0, <1>3, PutStep DEF PutInv, Unposted, New, TypeOK
  <2>2. CASE remote' \subseteq remote
    BY <1>3, <2>0, <2>2
  <2>3. ASSUME NEW g \in Active, Puts(g) PROVE o = p
    <3>1. PICK q \in remote : q.id = target[g] /\ q.name = name[g]
      BY <2>1, <2>3 DEF Puts, At, Exists, IInv, NamesInv, Creating, Putting
    <3>2. \A x \in remote' : \E y \in remote : y.id = x.id /\ y.name = x.name
      BY <2>3, <3>1 DEF Puts, Writes, Object
    <3>. QED
      BY <1>1, <1>3, <2>0, <3>2
  <2>4. ASSUME NEW g \in Active, Posts(g) PROVE o = p
    <3>1. \A q \in remote : q.name # name[g]
      BY <1>0, <1>3, <2>1, <2>4 DEF Posts, At, AloneInv
    <3>. QED
      BY <1>3, <2>0, <2>4, <3>1 DEF Posts, Writes, Object
  <2>. QED
    BY <2>2, <2>3, <2>4, Moves DEF Quiet, Deletes
<1>4. AloneNothingTwice'
  BY <1>0, <1>3 DEF AloneNothingTwice, NothingTwice, New
<1>. QED
  BY <1>0, <1>1, <1>2, <1>4 DEF AloneInv, Whole

\* Steps of one upsert alone that end in no error.
LEMMA SecondStep ==
  ASSUME MaxDeleted \in {0, 1}, TypeOK, IInv, AccountedInv, AloneInv, SecondInv, [Next]_vars
  PROVE  SecondInv'
<1>0. kind' = kind /\ name' = name /\ Active' = Active /\ (Alone' <=> Alone) /\ (partial => partial')
  BY Rigid DEF Active, Alone
<1>1. IsFiniteSet(deleted')
  BY Moves, FS_AddElement DEF Quiet, Deletes, Puts, Posts, SecondInv
<1>2. erred \subseteq erred'
  BY DEF Next, Work, Failure, Done, ReadCache, StartList, GetPage, ListBreaks, SetCache, Update, Return,
         UpdateMissing, Create, CreateRefused, CallFails, DropCache, OthersDelete, vars
<1>3. ASSUME Alone, ~partial', NEW g \in Active \ erred'
      PROVE  /\ pc'[g] # "failed"
             /\ kind \in Putting => pc'[g] # "erred" /\ try'[g] = 1
             /\ pc'[g] = "erred" => deleted' # {}
             /\ try'[g] = 2 =>
                   /\ deleted' # {}
                   /\ pc'[g] = "start" => cache' = {}
                   /\ pc'[g] \in {"paging", "listed"} => \A e \in list'[g] : \E o \in remote' : o.id = e.id
                   /\ pc'[g] = "updating" => \E o \in remote' : o.id = target'[g]
  <2>. DEFINE Goal == /\ pc'[g] # "failed"
                      /\ kind \in Putting => pc'[g] # "erred" /\ try'[g] = 1
                      /\ pc'[g] = "erred" => deleted' # {}
                      /\ try'[g] = 2 =>
                            /\ deleted' # {}
                            /\ pc'[g] = "start" => cache' = {}
                            /\ pc'[g] \in {"paging", "listed"} => \A e \in list'[g] : \E o \in remote' : o.id = e.id
                            /\ pc'[g] = "updating" => \E o \in remote' : o.id = target'[g]
  <2>0. /\ g \in Active /\ g \notin erred
        /\ \A h \in Active : h = g
        /\ pc \in [Active -> {"start", "paging", "listed", "creating", "updating", "erred", "done", "failed"}]
        /\ try \in [Active -> 1..2]
        /\ list = [a \in Active |-> list[a]]
        /\ target = [a \in Active |-> target[a]]
        /\ kind \in Creating \cup Putting
    BY <1>2, <1>3 DEF Alone, TypeOK
  <2>1. /\ pc[g] # "failed"
        /\ kind \in Putting => pc[g] # "erred" /\ try[g] = 1
        /\ pc[g] = "erred" => deleted # {}
        /\ try[g] = 2 =>
              /\ deleted # {}
              /\ pc[g] = "start" => cache = {}
              /\ pc[g] \in {"paging", "listed"} => \A e \in list[g] : \E o \in remote : o.id = e.id
              /\ pc[g] = "updating" => \E o \in remote : o.id = target[g]
    BY <1>0, <1>3, <2>0 DEF SecondInv, FailsOnlyAfterErrors, Exists
  <2>2. CASE UNCHANGED vars
    BY <2>1, <2>2 DEF vars
  <2>3. CASE StartList(g)
    BY <2>0, <2>1, <2>3 DEF StartList, Goto, At
  <2>4. CASE GetPage(g)
    <3>1. PICK w \in {"paging", "listed"} : Goto(g, w)
      BY <2>4 DEF GetPage
    <3>2. pc'[g] = w
      BY <2>0, <3>1 DEF Goto
    <3>3. \A e \in list'[g] : e \in list[g] \/ \E o \in remote : e.id = o.id
      BY <2>0, ListsStep DEF ListsOk, Entry
    <3>4. UNCHANGED <<remote, try, deleted>> /\ pc[g] = "paging"
      BY <2>4 DEF GetPage, At
    <3>. QED
      BY <2>1, <3>2, <3>3, <3>4
  <2>5. ASSUME NEW L, Decides(g, L), UNCHANGED <<try, deleted>> PROVE Goal
    <3>1. pc'[g] \in {"creating", "updating", "done"}
      BY <2>0, <2>5 DEF Decides, Decide, Goto
    <3>2. ASSUME try[g] = 2, pc'[g] = "updating" PROVE \E o \in remote : o.id = target'[g]
      <4>1. target'[g] \in Chosen(g, L)
        BY <2>0, <2>5, <3>2 DEF Decides, Decide, Goto
      <4>2. kind \in Creating
        BY <2>0, <2>1, <3>2
      <4>3. PICK e \in L : e.id = target'[g]
        BY <4>1, <4>2, ChosenByName DEF Same
      <4>. QED
        BY <2>1, <2>5, <3>2, <4>2, <4>3 DEF Decides, Creating
    <3>. QED
      BY <2>0, <2>1, <2>5, <3>1, <3>2 DEF Decides
  <2>6. CASE ReadCache(g)
    BY <2>5, <2>6 DEF ReadCache, Decides, At
  <2>7. CASE SetCache(g)
    BY <2>5, <2>7 DEF SetCache, Decides, At
  <2>8. ASSUME Return(g) PROVE Goal
    BY <2>0, <2>1, <2>8 DEF Return, Goto
  <2>9. CASE UpdateMissing(g)
    <3>1. kind \in Creating /\ kind # "nonUnique" /\ pc[g] = "updating" /\ ~Exists(target[g])
      BY <2>0, <2>9 DEF UpdateMissing, At, Putting
    <3>2. try[g] # 2 /\ deleted # {}
      BY <2>0, <2>1, <3>1 DEF Exists, AccountedInv, Accounted
    <3>. QED
      BY <2>0, <2>1, <2>9, <3>1, <3>2 DEF UpdateMissing, Error, Goto, Creating, Putting
  <2>10. CASE CreateRefused(g)
    BY <1>0, <1>3, <2>0, <2>10 DEF CreateRefused, Refused, At, AloneInv, IInv, PutInv
  <2>11. CASE DropCache(g)
    BY <2>0, <2>1, <2>11 DEF DropCache, Goto, At
  <2>12. ASSUME NEW o \in remote, OthersDelete(o) PROVE Goal
    <3>1. deleted = {}
      BY <2>12, FS_EmptySet, FS_CardinalityType DEF OthersDelete, SecondInv
    <3>. QED
      BY <2>0, <2>1, <2>12, <3>1 DEF OthersDelete
  <2>13. CASE ListBreaks(g)
    BY <1>3, <2>13 DEF ListBreaks
  <2>14. CASE CallFails(g)
    BY <1>3, <2>14 DEF CallFails
  <2>15. ASSUME Update(g) \/ Create(g) PROVE Goal
    BY <2>8, <2>15 DEF Update, Create, Return
  <2>16. CASE Work
    <3>1. PICK h \in Active :
             \/ ReadCache(h) \/ StartList(h) \/ GetPage(h) \/ SetCache(h)
             \/ Update(h) \/ UpdateMissing(h) \/ Create(h) \/ CreateRefused(h) \/ DropCache(h)
      BY <2>16 DEF Work
    <3>2. h = g
      BY <2>0
    <3>. QED
      BY <2>3, <2>4, <2>6, <2>7, <2>9, <2>10, <2>11, <2>15, <3>1, <3>2
  <2>17. CASE Failure
    BY <2>0, <2>12, <2>13, <2>14, <2>17 DEF Failure
  <2>. QED
    BY <2>2, <2>16, <2>17 DEF Next, Done
<1>4. FailsOnlyAfterErrors'
  BY <1>0, <1>3 DEF FailsOnlyAfterErrors
<1>. QED
  BY <1>0, <1>1, <1>3, <1>4 DEF SecondInv, Exists

\* One upsert starts with all there is, and without an error.
LEMMA AloneInit == Init => AloneInv /\ SecondInv
<1>. SUFFICES ASSUME Init PROVE AloneInv /\ SecondInv
  OBVIOUS
<1>1. /\ \A o, p \in remote : o.id = p.id => o = p
      /\ \A o \in remote : o.id \notin New
  <2>1. PICK s \in Scenarios : remote = s.remote
    BY Zenon DEF Init
  <2>. QED
    BY <2>1, ScenariosAssumption
<1>2. \A g \in Active : pc[g] = "start" /\ try[g] = 1
  BY DEF Init
<1>3. \A L \in cache : Whole(L)
  <2>. DEFINE entries == {Entry(o) : o \in remote}
  <2>1. Whole(entries)
    <3>1. ASSUME NEW o \in remote PROVE Entry(o) \in entries /\ Entry(o).id = o.id /\ Entry(o).name = o.name
      BY DEF Entry
    <3>. HIDE DEF entries
    <3>. QED
      BY <3>1 DEF Whole
  <2>2. cache = {} \/ cache = {entries}
    BY DEF Init
  <2>. HIDE DEF entries
  <2>. QED
    BY <2>1, <2>2
<1>4. deleted = {} /\ IsFiniteSet(deleted)
  BY FS_EmptySet DEF Init
<1>5. AloneNothingTwice /\ FailsOnlyAfterErrors
  BY <1>1, <1>2 DEF AloneNothingTwice, NothingTwice, FailsOnlyAfterErrors
<1>. QED
  BY <1>1, <1>2, <1>3, <1>4, <1>5 DEF AloneInv, SecondInv

\* Once an upsert has returned an object, the object has the content of its own
\* configuration until others delete it, whatever the other goroutines do at the
\* same time and whatever lists they share (UpsertByName and
\* UpsertByNonUniqueNameAndId), provided that no two configurations mean one object.
THEOREM DoneIsWritten == Apart => (Spec => []DoneMeansWritten)
<1>. SUFFICES ASSUME Apart PROVE Spec => []DoneMeansWritten
  OBVIOUS
<1>1. Init => WrittenInv
  BY WrittenInit
<1>2. TypeOK /\ IInv /\ WrittenInv /\ [Next]_vars => WrittenInv'
  <2>. SUFFICES ASSUME TypeOK, IInv, WrittenInv, [Next]_vars PROVE WrittenInv'
    OBVIOUS
  <2>1. DoneMeansWritten' /\ AccountedInv'
    BY WrittenStep, AccountedStep DEF WrittenInv
  <2>2. kind' = kind /\ name' = name /\ duplicate' = duplicate
    BY Rigid
  <2>3. PICK s \in Scenarios :
           /\ kind = s.kind /\ name = s.name /\ duplicate = s.duplicate
           /\ kind # "single" => MeaningInv(s)
    BY DEF WrittenInv
  <2>4. kind # "single" => MeaningInv(s)'
    BY <2>3, MeaningStep
  <2>. QED
    BY <2>1, <2>2, <2>3, <2>4 DEF WrittenInv
<1>3. WrittenInv => DoneMeansWritten
  BY DEF WrittenInv
<1>. QED
  BY <1>1, <1>2, <1>3, Invariance, PTL DEF Spec

\* An upsert that no other of its API runs next to creates nothing that is there
\* already, not even what its first attempt created before its answer was lost
\* (upsertDynatraceObject).
THEOREM AloneCreatesOnce == Spec => []AloneNothingTwice
<1>1. Init => AloneInv
  BY AloneInit
<1>2. AloneInv => AloneNothingTwice
  BY DEF AloneInv
<1>. QED
  BY <1>1, <1>2, AloneStep, Invariance, PTL DEF Spec

\* Such an upsert fails only after a call that failed: an object that the cached
\* list has and others deleted costs a second attempt but no failure
\* (upsertDynatraceObject), if they delete no second one while it is made.
THEOREM StaleIsNoFailure == MaxDeleted \in {0, 1} => (Spec => []FailsOnlyAfterErrors)
<1>. SUFFICES ASSUME MaxDeleted \in {0, 1} PROVE Spec => []FailsOnlyAfterErrors
  OBVIOUS
<1>1. Init => AloneInv /\ AccountedInv /\ SecondInv
  BY AloneInit, WrittenInit DEF WrittenInv
<1>2. TypeOK /\ IInv /\ AccountedInv /\ AloneInv /\ SecondInv /\ [Next]_vars
      => (AccountedInv /\ AloneInv /\ SecondInv)'
  BY AccountedStep, AloneStep, SecondStep
<1>3. SecondInv => FailsOnlyAfterErrors
  BY DEF SecondInv
<1>. QED
  BY <1>1, <1>2, <1>3, Invariance, PTL DEF Spec
=============================================================================
