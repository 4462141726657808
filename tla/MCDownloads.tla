----------------------------- MODULE MCDownloads -----------------------------
(***************************************************************************)
(* Environments with a few objects of the kinds that differ in how they    *)
(* are downloaded.                                                         *)
(***************************************************************************)
EXTENDS Sequences

CONSTANT Absent

Object(kind, type, id) ==
    [kind |-> kind, type |-> type, id |-> id, parent |-> Absent, scope |-> Absent, content |-> id, state |-> "ok",
     movable |-> TRUE]
Child(type, id, parent) ==
    [Object("classic", type, id) EXCEPT !.parent = parent, !.content = id \o parent]
Setting(type, id, scope) == [Object("settings", type, id) EXCEPT !.scope = scope]
In(o, state) == [o EXCEPT !.state = state]
Fixed(o)   == [o EXCEPT !.movable = FALSE]

Case == [only |-> {}, apis |-> {}, schemas |-> {}, known |-> {"ordered"}, token |-> TRUE, platform |-> TRUE,
         folder |-> "none", force |-> FALSE, objects |-> <<>>]

ClassicObjects ==
    <<Object("classic", "app", "a1"), Object("classic", "app", "a2"),
      Child("kua", "k1", "a1"), Child("kua", "k2", "a1"), Child("kua", "k1", "a2"),
      Child("web", "w1", "a2"),
      In(Object("classic", "dashboard", "d1"), "skipped"), Object("classic", "dashboard", "d2"),
      Child("share", "d1", "d1"), Child("share", "d2", "d2"),
      In(Object("classic", "zone", "zone"), "dropped"), Object("classic", "old", "o1"), Object("classic", "key", "s1")>>

WebObjects ==
    <<Object("classic", "app", "a1"), Object("classic", "app", "a2"),
      Child("web", "w1", "a1"), Child("web", "w2", "a1"), Child("web", "w3", "a2")>>

SettingsObjects ==
    <<Setting("ordered", "x1", "env"), Setting("ordered", "x2", "host"), Fixed(Setting("ordered", "x3", "env")),
      In(Setting("ordered", "x4", "env"), "unmodifiable"), Setting("ordered", "x5", "env"), In(Setting("owned", "y1", "env"), "discarded"),
      Setting("owned", "y2", "env")>>

BrokenSettings ==
    <<Setting("ordered", "x1", "env"), In(Setting("ordered", "x2", "env"), "broken"), Setting("ordered", "x3", "env"),
      Setting("owned", "y1", "env")>>

PlatformObjects ==
    <<Object("automation", "workflow", "f1"), Object("automation", "workflow", "f2"), Object("automation", "calendar", "c1"),
      Object("document", "notebook", "n1"), In(Object("document", "notebook", "n2"), "ready made"), In(Object("document", "notebook", "n3"), "broken"),
      In(Object("bucket", "bucket", "b1"), "immutable"), Object("bucket", "bucket", "b2"), In(Object("segment", "segment", "g1"), "broken"),
      Object("segment", "segment", "g2"), Object("slo-v2", "slo-v2", "v1"), Object("openpipeline", "openpipeline", "events")>>

RequestCases ==
    {[Case EXCEPT !.only = {"classic"}, !.objects = ClassicObjects, !.token = t] : t \in BOOLEAN}
    \cup {[Case EXCEPT !.only = {"classic"}, !.apis = a, !.objects = ClassicObjects] : a \in {{"kua"}, {"app", "old"}, {"key"}}}
    \cup {[Case EXCEPT !.only = {"classic"}, !.objects = WebObjects]}
    \cup {[Case EXCEPT !.only = {"settings"}, !.schemas = s, !.known = {"ordered", "owned"}, !.objects = o] :
             s \in {{}, {"owned"}, {"unknown"}}, o \in {SettingsObjects, BrokenSettings}}
    \cup {[Case EXCEPT !.objects = PlatformObjects, !.platform = p, !.apis = {"app"}, !.folder = f, !.force = b] :
             p \in BOOLEAN, f \in {"none", "used", "file"}, b \in BOOLEAN}
    \cup {[Case EXCEPT !.only = {"bucket"}, !.objects = PlatformObjects, !.platform = p] : p \in BOOLEAN}
=============================================================================
