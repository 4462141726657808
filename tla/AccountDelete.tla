---------------------------- MODULE AccountDelete ----------------------------
(***************************************************************************)
(* Deleting account resources: the entries of a delete file in each of the *)
(* chosen accounts, one after the other, kind by kind.  Most names are     *)
(* looked up first.  Requests fail, with or without effect, and others     *)
(* delete resources meanwhile.                                             *)
(***************************************************************************)
EXTENDS Naturals, Sequences, FiniteSets

CONSTANTS
    Cases, \* delete files, accounts and what there is in them
    Nil

\* Accounts are finite, and Nil is nothing else.
ASSUME DeleteAssumption ==
    /\ Nil \notin {"ok", "error"}
    /\ \A k \in Cases :
          /\ Nil \notin DOMAIN k.objects
          /\ \A a \in DOMAIN k.objects : IsFiniteSet(k.objects[a])
          /\ DOMAIN k.file \subseteq Nat

VARIABLES
    case,
    left,        \* accounts still to come; Nil before the file is loaded
    current,     \* the account at work
    objects,     \* what there is in each account
    todo,        \* places in the file of resources still to be deleted from it
    found,       \* the resource its name was looked up to
    errCount,    \* errors of the account at work
    errOccurred,
    failures,    \* history: accounts and entries a request failed for
    removed,     \* history: accounts and what was removed from them
    outcome

deleteVars == <<case, left, current, objects, todo, found, errCount, errOccurred, failures, removed, outcome>>

-----------------------------------------------------------------------------
KindOrder == <<"user", "serviceUser", "group", "accountPolicy", "environmentPolicy", "boundary">>

\* The kind of an entry of the file, if it is one.
KindOf(e) ==
    IF e.type # "policy" THEN e.type
    ELSE CASE e.level = "account" -> "accountPolicy"
           [] e.level = Nil -> "unknown"
           [] OTHER -> "environmentPolicy"

File == case.file

Place(kind) == CHOOSE i \in DOMAIN KindOrder : KindOrder[i] = kind

Valid(file) == \A i \in DOMAIN file : \E k \in DOMAIN KindOrder : KindOf(file[i]) = KindOrder[k]

\* Entries are dealt with by kind, those of a kind as the file has them.
Before(i, j) ==
    LET k == Place(KindOf(File[i]))
        l == Place(KindOf(File[j]))
    IN  k < l \/ (k = l /\ i < j)

\* Resources of a kind and name; of policies those of the level.
Named(e, values) ==
    {o \in values : o.type = e.type /\ o.name = e.name /\ (e.type = "policy" => o.level = e.level)}

\* Where two resources of a name are refused; elsewhere the first is taken.
OnlyUnique(type) == type \in {"serviceUser", "boundary"}

\* What the client returns for a resource that does not exist, and what its
\* caller asks errors.As for: a pointer is not assignable to a struct.
NotFound   == "*ResourceNotFoundError"
Tolerated(err, kind) == err = "ResourceNotFoundError" /\ kind # "accountPolicy"

-----------------------------------------------------------------------------
DeleteInit ==
    /\ case \in Cases
    /\ left = Nil
    /\ current = Nil
    /\ objects = case.objects
    /\ todo = {}
    /\ found = Nil
    /\ errCount = 0
    /\ errOccurred = FALSE
    /\ failures = {}
    /\ removed = {}
    /\ outcome = Nil

Running == outcome = Nil /\ left # Nil
Here == objects[current]

\* Nothing is deleted if an entry is none.
Load ==
    /\ outcome = Nil /\ left = Nil
    /\ left' = IF case.accounts = {} THEN DOMAIN case.objects ELSE case.accounts
    /\ outcome' = IF Valid(File) THEN Nil ELSE "error"
    /\ UNCHANGED <<case, current, objects, todo, found, errCount, errOccurred, failures, removed>>

\* An account the manifest lacks is an error and nothing can be done there;
\* so is one no client can be made for.
BeginAccount(a) ==
    /\ Running /\ current = Nil /\ a \in left
    /\ left' = left \ {a}
    /\ errCount' = 0
    /\ \/ errOccurred' = TRUE /\ failures' = failures \cup {<<a, Nil>>} /\ UNCHANGED <<current, todo>>
       \/ /\ a \in DOMAIN case.objects
          /\ current' = a
          /\ todo' = DOMAIN File
          /\ UNCHANGED <<errOccurred, failures>>
    /\ UNCHANGED <<case, objects, found, removed, outcome>>

\* The entry of place i is the next one.
Working(i) == Running /\ current # Nil /\ i \in todo /\ \A j \in todo : ~Before(j, i)

Leave(i, errors) ==
    /\ todo' = todo \ {i}
    /\ found' = Nil
    /\ errCount' = errCount + errors
    /\ UNCHANGED <<case, left, current, errOccurred, outcome>>

\* Fault: the first error of an account ends its deletion.
StopAtError(i, errors) ==
    /\ todo' = IF errors = 0 THEN todo \ {i} ELSE {}
    /\ found' = Nil
    /\ errCount' = errCount + errors
    /\ UNCHANGED <<case, left, current, errOccurred, outcome>>

LeaveEntry(i, errors) == Leave(i, errors)

Missing(i) ==
    LeaveEntry(i, IF Tolerated(NotFound, KindOf(File[i])) THEN 0 ELSE 1) /\ UNCHANGED <<objects, removed, failures>>

\* A user's address is its id; everything else is looked up in a list.
LookUp(i) ==
    /\ Working(i) /\ found = Nil /\ File[i].type # "user"
    /\ LET matches == Named(File[i], Here)
       IN  CASE matches = {} -> Missing(i)
             [] OnlyUnique(File[i].type) /\ Cardinality(matches) > 1 ->
                    LeaveEntry(i, 1) /\ UNCHANGED <<objects, removed, failures>>
             [] OTHER -> /\ \E o \in matches : found' = o
                         /\ UNCHANGED <<case, left, current, objects, todo, errCount, errOccurred, failures, removed, outcome>>

Target(e) == IF e.type = "user" THEN Named(e, Here) ELSE Here \cap {found}
Ready(i)  == Working(i) /\ (found # Nil \/ File[i].type = "user")

Erase(gone) ==
    /\ objects' = [objects EXCEPT ![current] = @ \ gone]
    /\ removed' = removed \cup {<<current, o>> : o \in gone}

Delete(i) ==
    /\ Ready(i)
    /\ IF Target(File[i]) = {} THEN Missing(i)
       ELSE LeaveEntry(i, 0) /\ Erase(Target(File[i])) /\ UNCHANGED failures

\* The request for the list or the deletion fails; the resource may be gone.
Fails(i) ==
    /\ Working(i)
    /\ LeaveEntry(i, 1)
    /\ failures' = failures \cup {<<current, File[i]>>}
    /\ \/ UNCHANGED <<objects, removed>>
       \/ Ready(i) /\ Erase(Target(File[i]))

EndAccount ==
    /\ Running /\ current # Nil /\ todo = {}
    /\ errOccurred' = (errOccurred \/ errCount > 0)
    /\ current' = Nil
    /\ UNCHANGED <<case, left, objects, todo, found, errCount, failures, removed, outcome>>

ReportOutcome ==
    /\ Running /\ current = Nil /\ left = {}
    /\ outcome' = IF errOccurred THEN "error" ELSE "ok"
    /\ UNCHANGED <<case, left, current, objects, todo, found, errCount, errOccurred, failures, removed>>

\* Somebody else deletes a resource, once.
Vanishes ==
    /\ Running /\ current # Nil /\ Here = case.objects[current]
    /\ \E o \in Here : objects' = [objects EXCEPT ![current] = @ \ {o}]
    /\ UNCHANGED <<case, left, current, todo, found, errCount, errOccurred, failures, removed, outcome>>

Ended == outcome # Nil /\ UNCHANGED deleteVars

DeleteNext ==
    \/ Load \/ (\E a \in DOMAIN case.objects \cup case.accounts : left # Nil /\ BeginAccount(a))
    \/ \E i \in todo : LookUp(i) \/ Delete(i) \/ Fails(i)
    \/ EndAccount \/ ReportOutcome \/ Vanishes \/ Ended

DeleteSpec == DeleteInit /\ [][DeleteNext]_deleteVars

-----------------------------------------------------------------------------
Entries == {File[i] : i \in DOMAIN File}

Completed(a) == outcome # Nil /\ Valid(File) /\ a \in DOMAIN case.objects /\ (case.accounts = {} \/ a \in case.accounts)
              /\ <<a, Nil>> \notin failures

\* Only what the file names is removed, never one of two service users or
\* boundaries of a name.  Whatever fails, the other entries are deleted from
\* every account: of what an entry names nothing stays unless its request
\* failed or its name has more than one meaning.  Success means no failure.
\* (DeleteAccountResources, AccountAPIClient)
DeletesWhatItCan ==
    /\ \A r \in removed :
          \E e \in Entries :
             /\ r[2] \in Named(e, case.objects[r[1]])
             /\ OnlyUnique(e.type) => Named(e, objects[r[1]]) = {}
    /\ \A a \in DOMAIN case.objects : Completed(a) =>
          \A e \in Entries :
             Named(e, objects[a]) # {} => <<a, e>> \in failures \/ Cardinality(Named(e, case.objects[a])) > 1
    /\ outcome = "ok" => failures = {}

\* A resource that is gone already counts as deleted: a deletion in which no
\* request failed and all names are clear succeeds.  (ResourceNotFoundError)
AbsentIsDeleted ==
    outcome = "error" /\ Valid(File) =>
       \/ failures # {}
       \/ \E a \in DOMAIN case.objects, e \in Entries : Cardinality(Named(e, case.objects[a])) > 1
==============================================================================
