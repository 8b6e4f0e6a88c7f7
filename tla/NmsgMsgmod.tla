------------------------------ MODULE NmsgMsgmod ------------------------------
(***************************************************************************)
(* The message modules: how nmsg_init() loads them from the plugin         *)
(* directory into the module set (nmsg/msgmodset.c, msgmod/msgmod.c,       *)
(* msgmod/transparent.c) and how they are found again (msgmod/lookup.c).   *)
(*                                                                         *)
(* Names are strings; NameOrder is their order under strcmp().             *)
(***************************************************************************)
EXTENDS Integers, Sequences, FiniteSets

CONSTANTS
    Directories,    \* what nmsg_init() can find: a sequence of files
    NameOrder       \* field names in the order of strcmp()

\* The files of the directories and the plugins of the files.  A plugin has the
\* ids and the table of fields that its source gives it.
Elements(s) == {s[i] : i \in DOMAIN s}
Files == UNION {Elements(d) : d \in Directories}
Plugins == UNION {Elements(f.plugins) : f \in Files}
FieldSet(p) == Elements(p.fields)

\* Fields are found by name: a plugin uses no name twice.
ASSUME PluginAssumption ==
    /\ NameOrder \in Seq(STRING)
    /\ Directories \subseteq Seq(Files)
    /\ \A f \in Files : f.plugins \in Seq(Plugins)
    /\ \A p \in Plugins :
         /\ p.vid \in Nat /\ p.msgtype \in Nat /\ p.fields \in Seq(FieldSet(p))
         /\ \A f \in FieldSet(p) : f.name \in Elements(NameOrder)
         /\ \A i, j \in DOMAIN p.fields : p.fields[i].name = p.fields[j].name => i = j

VARIABLES
    dirents,        \* files not yet read by readdir(); {} without a directory
    plugins,        \* plugins of the file in hand not yet loaded
    phase,          \* "scan", "load"; then "ready", or "failed"
    loadRes,        \* "res" of _nmsg_msgmodset_init()
    vendors,        \* ms->vendors and, in each, msgv->msgtypes; 0..nv, 0..nm
    described,      \* plugins whose static field table has its descriptors
    loaded          \* history: the plugins inserted, in order

modVars == <<dirents, plugins, phase, loadRes, vendors, described, loaded>>

NoVendor == <<>>
NoMod == {}

ModInit ==
    /\ \E d \in Directories : dirents = {d}
    /\ plugins = <<>> /\ phase = "scan" /\ loadRes = "failure"
    /\ vendors = [v \in {0} |-> NoVendor]
    /\ described = {} /\ loaded = <<>>

-----------------------------------------------------------------------------
(***************************************************************************)
(* Loading                                                                 *)
(***************************************************************************)
\* The fields of a plugin in the order of their names, as qsort() leaves them.
Position(name) == CHOOSE i \in DOMAIN NameOrder : NameOrder[i] = name
Sorted(p) ==
    [i \in DOMAIN p.fields |->
        CHOOSE f \in FieldSet(p) :
            Cardinality({g \in FieldSet(p) : Position(g.name) <= Position(f.name)}) = i]

\* _nmsg_msgmod_load_field_descriptors(): each field is in the protobuf message
\* or has a getter.
Described(p) == \A f \in FieldSet(p) : f.name \in DOMAIN p.labels \/ f.get

\* _nmsg_msgmod_start(): the field table is made only when the first field has
\* no descriptor yet.
HasTable(p) == p \in described
Start(p) == [plugin |-> p,
             fields |-> IF p.type = "transparent" /\ ~HasTable(p) THEN Sorted(p) ELSE <<>>]

\* msgmodset_load_module() takes the plugin: versions, fields and ids are right.
Loadable(p) ==
    /\ p.version
    /\ p.type \in {"transparent", "opaque"}
    /\ p.type = "transparent" => p.fields # <<>> /\ (HasTable(p) \/ Described(p))
    /\ p.vid # 0 /\ p.msgtype # 0

\* Mutant: the vendors known before are forgotten when the array grows.
Grown_Reset(arr, n, none) ==
    [i \in 0..n |-> IF n + 1 <= Cardinality(DOMAIN arr) THEN arr[i] ELSE none]

\* An array that has at least the places 0..n.
Grown(arr, n, none) ==
    [i \in DOMAIN arr \cup 0..n |-> IF i \in DOMAIN arr THEN arr[i] ELSE none]

\* msgmodset_insert_module(): a module already there is replaced.
Insert(vs, mod) ==
    LET vid == mod.plugin.vid
        mt == mod.plugin.msgtype
        grown == Grown(vs, vid, NoVendor)
        types == Grown(grown[vid], mt, NoMod)
    IN  [grown EXCEPT ![vid] = [types EXCEPT ![mt] = {mod}]]

\* "out:" of _nmsg_msgmodset_init(): the set is destroyed unless res, which the
\* last module loaded has set, is success.
Out(res) ==
    /\ phase' = IF res = "success" THEN "ready" ELSE "failed"
    /\ vendors' = IF res = "success" THEN vendors ELSE [v \in {0} |-> NoVendor]
    /\ loadRes' = res /\ plugins' = <<>> /\ dirents' = {}

\* A file that is no module, or has the old name of the base module, or has no
\* plugin in it, is skipped.
SkipFile(d) ==
    /\ d # <<>>
    /\ Head(d).kind \in {"other", "old"} \/ (Head(d).opens /\ Head(d).plugins = <<>>)
    /\ dirents' = {Tail(d)}
    /\ UNCHANGED <<plugins, phase, loadRes, vendors>>

\* opendir() or dlopen() fails: nothing more is loaded, and what res was before
\* decides.
BadFile(d) ==
    /\ d # <<>> /\ Head(d).kind \in {"nodir", "module"} /\ ~Head(d).opens
    /\ Out(loadRes)

OpenFile(d) ==
    /\ d # <<>> /\ Head(d).kind = "module" /\ Head(d).opens /\ Head(d).plugins # <<>>
    /\ dirents' = {Tail(d)} /\ plugins' = Head(d).plugins /\ phase' = "load"
    /\ UNCHANGED <<loadRes, vendors>>

EndOfFiles(d) == d = <<>> /\ Out("success")

\* One file of the directory.
ReadDir ==
    /\ phase = "scan"
    /\ \E d \in dirents : SkipFile(d) \/ BadFile(d) \/ OpenFile(d) \/ EndOfFiles(d)
    /\ UNCHANGED <<described, loaded>>

\* One plugin of the file.
LoadModule ==
    /\ phase = "load" /\ plugins # <<>>
    /\ LET p == Head(plugins)
       IN  \/ /\ Loadable(p)
              /\ vendors' = Insert(vendors, Start(p))
              /\ described' = IF p.type = "transparent" /\ p.fields[1].name \in DOMAIN p.labels
                              THEN described \cup {p} ELSE described
              /\ loaded' = Append(loaded, p)
              /\ plugins' = Tail(plugins)
              /\ phase' = IF Tail(plugins) = <<>> THEN "scan" ELSE "load"
              /\ loadRes' = "success"
              /\ UNCHANGED dirents
           \/ /\ ~Loadable(p)
              /\ Out("failure")
              /\ UNCHANGED <<described, loaded>>

ModNext == ReadDir \/ LoadModule

-----------------------------------------------------------------------------
(***************************************************************************)
(* Looking modules up                                                      *)
(***************************************************************************)

\* nmsg_msgmod_lookup(): {} or the module.
Lookup(vid, msgtype) ==
    IF vid \in DOMAIN vendors /\ msgtype \in DOMAIN vendors[vid] THEN vendors[vid][msgtype]
    ELSE NoMod

Modules(vid) == UNION {vendors[vid][t] : t \in DOMAIN vendors[vid]}

Least(S) == CHOOSE x \in S : \A y \in S : x <= y
LeastOr0(S) == IF S = {} THEN 0 ELSE Least(S)

\* nmsg_msgmod_vname_to_vid(): the first vendor with a module that has the name;
\* "ISC" is the old name of "base".
VnameToVid(vname) ==
    LET name == IF vname = "ISC" THEN "base" ELSE vname
    IN  LeastOr0({v \in DOMAIN vendors : \E m \in Modules(v) : m.plugin.vname = name})

\* nmsg_msgmod_mname_to_msgtype()
MnameToMsgtype(vid, mname) ==
    IF vid \notin DOMAIN vendors THEN 0
    ELSE LeastOr0({t \in DOMAIN vendors[vid] :
                       \E m \in vendors[vid][t] : m.plugin.mname = mname})

\* nmsg_msgmod_lookup_byname()
LookupByname(vname, mname) ==
    LET vid == VnameToVid(vname)
        msgtype == MnameToMsgtype(vid, mname)
    IN  IF vid = 0 \/ msgtype = 0 THEN NoMod ELSE Lookup(vid, msgtype)

\* nmsg_msgmod_vid_to_vname(), nmsg_msgmod_msgtype_to_mname(): {} or the name.
VidToVname(vid) ==
    {m.plugin.vname : m \in IF vid \in DOMAIN vendors THEN Modules(vid) ELSE {}}
MsgtypeToMname(vid, msgtype) ==
    {m.plugin.mname : m \in {n \in IF vid \in DOMAIN vendors THEN Modules(vid) ELSE {} :
                                 n.plugin.msgtype = msgtype}}

\* _nmsg_msgmod_lookup_field(): the index of a field in the sorted table, or 0.
FieldIdx(mod, name) == LeastOr0({i \in DOMAIN mod.fields : mod.fields[i].name = name})

-----------------------------------------------------------------------------
Same(p, q) == q.vid = p.vid /\ q.msgtype = p.msgtype
Others(i) == {loaded[j] : j \in DOMAIN loaded \ {i}}
Latest(i) == \A j \in DOMAIN loaded : j > i => ~Same(loaded[i], loaded[j])

FoundById(i) ==
    \E m \in Lookup(loaded[i].vid, loaded[i].msgtype) :
        /\ m.plugin = loaded[i]
        /\ loaded[i].type = "transparent" /\ loaded[i] \notin Others(i) =>
             \A f \in FieldSet(loaded[i]) : m.fields[FieldIdx(m, f.name)] = f

FoundByName(i) ==
    LookupByname(loaded[i].vname, loaded[i].mname) = Lookup(loaded[i].vid, loaded[i].msgtype)

\* No other vendor has its name, no other module of the vendor has its name.
NamesItself(i) ==
    /\ loaded[i].vname # "ISC"
    /\ \A q \in Others(i) :
         /\ q.vname = loaded[i].vname => q.vid = loaded[i].vid
         /\ q.vid = loaded[i].vid /\ q.mname = loaded[i].mname => Same(loaded[i], q)

\* Whatever the order of the files and of the ids, however often the arrays have
\* grown, every module is found under its ids, in the version loaded last, and
\* under its names, as long as no other vendor or module uses them and the vendor
\* is not "ISC", the old name of another; it has all of its fields unless its plugin
\* has been loaded twice.
ModulesFound ==
    phase = "ready" =>
        \A i \in DOMAIN loaded :
            Latest(i) => FoundById(i) /\ (NamesItself(i) => FoundByName(i))
=============================================================================
