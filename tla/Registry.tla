------------------------------- MODULE Registry -------------------------------
(***************************************************************************)
(* The kernel registry: bundle manifests and tune files are parsed,        *)
(* validated and loaded, an op instance is resolved to a kernel variant,   *)
(* and the variant's code object is loaded on demand into a module cache   *)
(* that all clones of a registry share.  Each clone belongs to one thread; *)
(* only the lock around the cache orders them.                             *)
(*                                                                         *)
(* A hash is the record of what is hashed (xxh3 taken as injective), and a *)
(* path is its form (below) and its leading architecture directory.        *)
(***************************************************************************)
EXTENDS Naturals, Sequences, SequencesExt

CONSTANTS
    Clones,         \* registries that share one module cache
    Founder,        \* the one built by new, the others are its clones
    StaticOp,       \* the op of each kernel static
    Generations,    \* generator versions
    Requests,       \* records [op, arch, static] that are resolved
    ManifestDocs,   \* manifest.json documents that turn up
    TuneDocs,       \* tune file documents that turn up
    JitAnswers,     \* what a JIT provider may answer: records [ok, validated, origin, path, bytes]
    BaseDirs,       \* directories that hold code objects
    MaxCalls,       \* configuration and resolve calls in a behaviour
    LaunchEntries,  \* launches a list may hold
    MaxLaunches     \* length of a launch list

Absent == "none"

(***************************************************************************)
(* Documents.  A path is a file inside its base ("inside"), one reached    *)
(* through a link that leaves the base ("linked"), no file ("missing"), or *)
(* of a form that is refused.                                              *)
(***************************************************************************)

NoPath == [form |-> Absent, dir |-> Absent]

PathForms == {"inside", "linked", "missing", "absolute", "parent", "empty", Absent}

\* A row of a document and a provider's answer have a path of one of the forms;
\* the config "jit" stands for what a provider builds and is in no document.
ASSUME DocumentsAssumption ==
    /\ Founder \in Clones /\ Absent \notin BaseDirs
    /\ \A doc \in ManifestDocs :
          /\ DOMAIN doc.table \subseteq Nat \ {0}
          /\ \A i \in DOMAIN doc.table : /\ doc.table[i].entry.path.form \in PathForms
                                        /\ doc.table[i].key.config # "jit"
    /\ \A doc \in TuneDocs : \A row \in ToSet(doc.table) :
          row.entry.path.form \in PathForms /\ row.entry.config # "jit"
    /\ \A a \in JitAnswers : a.ok => a.path.form \in PathForms

SafePath(path) == path.form \notin {"absolute", "parent", "empty"}

HashOK(hash) == hash.config # "bad hex"

NoRepeat(s) == \A i, j \in DOMAIN s : s[i] = s[j] => i = j

\* The visitors of both documents: no field twice, none unknown, the required
\* ones present, and no key twice in the table.
ParsesWith(doc, known, required) ==
    /\ NoRepeat(doc.fields)
    /\ ToSet(doc.fields) \subseteq known
    /\ required \subseteq ToSet(doc.fields)
    /\ NoRepeat([i \in DOMAIN doc.table |-> doc.table[i].key])

ManifestParses(doc) ==
    ParsesWith(doc, {"gen_version", "archs", "variants"}, {"gen_version", "archs"})

TuneParses(doc) ==
    ParsesWith(doc, {"arch", "gen_version", "driver_hash", "measured_on", "entries"},
               {"arch", "gen_version"})

\* The table of a document, empty when its field is left out.
TableOf(doc, field) == IF field \in ToSet(doc.fields) THEN doc.table ELSE <<>>

BundleManifest(doc) ==
    [gen |-> doc.gen, archs |-> doc.archs, variants |-> TableOf(doc, "variants")]

\* The order of the entries is not used, so they are a set of rows.
TuneFile(doc) == [gen |-> doc.gen, arch |-> doc.arch, entries |-> ToSet(TableOf(doc, "entries"))]

\* launchable: no zero in the grid or block, and a symbol.
ManifestVariantValid(m, hash, entry) ==
    /\ HashOK(hash)
    /\ SafePath(entry.path)
    /\ entry.arch \in ToSet(m.archs)
    /\ entry.path.dir \in {Absent, entry.arch}
    /\ entry.launchable

\* BundleManifest::validate.
ManifestValid(m) ==
    /\ m.archs # <<>> /\ NoRepeat(m.archs) /\ "" \notin ToSet(m.archs)
    /\ \A i \in DOMAIN m.variants : ManifestVariantValid(m, m.variants[i].key, m.variants[i].entry)

\* TileConfig::validate: every tile, wave and split count is at least one.
TileConfigValid(config) == config # "zero"

\* A key "<op>.<static hash>"; launchable as above, with finite timings.
TuneEntryValid(key, entry) ==
    /\ key.op # Absent
    /\ SafePath(entry.path)
    /\ entry.launchable
    /\ TileConfigValid(entry.config)

\* TuneFile::validate.
TuneValid(t) ==
    /\ t.arch # ""
    /\ \A row \in t.entries : TuneEntryValid(row.key, row.entry)

(***************************************************************************)
(* The state.                                                              *)
(***************************************************************************)

VARIABLES
    reg,        \* clone -> its registry
    modules,    \* the shared cache: a set of [hash, module], one per hash
    caller,     \* clone -> its thread: what it resolved and is loading
    list,       \* a launch list, a sequence of entries
    replayed,   \* what the last replay did
    calls       \* configuration and resolve calls so far

registryVars == <<reg, modules, caller, calls>>

launchVars == <<list, replayed>>

NoManifest == [gen |-> 0, archs |-> <<>>, variants |-> <<>>]

\* Registry::new; of RegistryConfig the fields that resolution reads.
NewRegistry(gen, allow_jit) ==
    [gen |-> gen, allow_jit |-> allow_jit, bundle_dir |-> Absent, manifest |-> NoManifest,
     tunes |-> {}, jit |-> FALSE]

NoVariant ==
    [hash |-> [op |-> Absent], arch |-> Absent, op |-> Absent, tier |-> Absent, path |-> NoPath,
     origin |-> Absent, base |-> Absent, bytes |-> FALSE, validated |-> FALSE]

NoModule == [from |-> Absent, path |-> NoPath]

\* asked is a ghost: the static that was resolved.
Thread(pc, variant, module, asked) ==
    [pc |-> pc, variant |-> variant, module |-> module, asked |-> asked]

Idle == Thread("idle", NoVariant, NoModule, Absent)

\* The thread of c goes on with what it resolved, and with a module.
Proceed(c, pc, module) == Thread(pc, caller[c].variant, module, caller[c].asked)

NoReplay(l) == [of |-> l, launched |-> <<>>, started |-> 0, ended |-> 0, ok |-> TRUE]

RegistryInit ==
    /\ \E g \in Generations, j \in BOOLEAN : reg = [c \in {Founder} |-> NewRegistry(g, j)]
    /\ modules = {}
    /\ caller = [c \in Clones |-> Idle]
    /\ calls = 0
    /\ list = <<>> /\ replayed = NoReplay(<<>>)

(***************************************************************************)
(* Configuration: calls on &mut self, never inside this clone's load.      *)
(***************************************************************************)

Edit(c, r) ==
    /\ c \in DOMAIN reg /\ caller[c].pc \in {"idle", "resolved", "loaded"} /\ calls < MaxCalls
    /\ reg' = [reg EXCEPT ![c] = r]
    /\ calls' = calls + (IF r = reg[c] THEN 0 ELSE 1)
    /\ UNCHANGED <<modules, caller>>

\* #[derive(Clone)]: the maps are copied, the Arc of the cache is shared.
CloneRegistry(c, d) ==
    /\ c \in DOMAIN reg /\ d \notin DOMAIN reg
    /\ reg' = [k \in DOMAIN reg \cup {d} |-> reg[IF k = d THEN c ELSE k]]
    /\ UNCHANGED <<modules, caller, calls>>

ConfigMut(c) ==
    \E g \in Generations, j \in BOOLEAN :
        /\ <<g, j>> # <<reg[c].gen, reg[c].allow_jit>>
        /\ Edit(c, [reg[c] EXCEPT !.gen = g, !.allow_jit = j])

RegisterJit(c) == ~ reg[c].jit /\ Edit(c, [reg[c] EXCEPT !.jit = TRUE])

\* validate and validate_version; a refusal leaves the old manifest.
Install(r, m, dir) ==
    IF ManifestValid(m) /\ m.gen = r.gen
    THEN [r EXCEPT !.manifest = m, !.bundle_dir = dir] ELSE r

LoadBundle(c) ==
    \E doc \in ManifestDocs, dir \in BaseDirs :
        Edit(c, IF ManifestParses(doc) THEN Install(reg[c], BundleManifest(doc), dir) ELSE reg[c])

SetManifest(c) ==
    \E doc \in ManifestDocs, dir \in BaseDirs \cup {Absent} :
        ManifestParses(doc) /\ Edit(c, Install(reg[c], BundleManifest(doc), dir))

\* A relative code object needs the directory its tune file came from.
BaseGiven(t, base) == base # Absent \/ \A row \in t.entries : row.entry.path = NoPath

Merge(r, t, base) ==
    LET new == {[arch |-> t.arch, gen |-> t.gen, key |-> row.key, base |-> base,
                 entry |-> row.entry] : row \in t.entries}
        Same(a, b) == a.arch = b.arch /\ a.gen = b.gen /\ a.key = b.key
    IN  [r EXCEPT !.tunes = {a \in r.tunes : \A b \in new : ~ Same(a, b)} \cup new]

LoadTuneFile(c, t, base) ==
    Edit(c, IF TuneValid(t) /\ BaseGiven(t, base) /\ t.gen = reg[c].gen
            THEN Merge(reg[c], t, base) ELSE reg[c])

\* merge_local: both valid, one generation and architecture; local entries win.
MergeLocal(shipped, local) ==
    LET keys == {row.key : row \in local.entries}
        kept == {row \in shipped.entries : row.key \notin keys}
    IN  IF /\ TuneValid(shipped) /\ TuneValid(local)
           /\ shipped.gen = local.gen /\ shipped.arch = local.arch
        THEN [shipped EXCEPT !.entries = kept \cup local.entries] ELSE shipped

\* A parsed file, alone or with local additions, given with any base or read
\* from disk, when its directory is the base.
LoadTune(c) ==
    LET files == {TuneFile(doc) : doc \in {d \in TuneDocs : TuneParses(d)}} IN
    \E t \in {MergeLocal(shipped, local) : shipped, local \in files}, base \in BaseDirs \cup {Absent} :
        LoadTuneFile(c, t, base)

(***************************************************************************)
(* Resolution.                                                             *)
(***************************************************************************)

\* variant_hash of a VariantKey.
VariantHash(q, gen, config) ==
    [op |-> q.op, arch |-> q.arch, static |-> q.static, gen |-> gen, config |-> config]

Answer(variant) == [ok |-> TRUE, variant |-> variant]

NotResolved == [ok |-> FALSE, variant |-> NoVariant]

\* The first entry of the manifest, in the order of its keys, that satisfies
\* the lookup of a tier; 0 if there is none.
FirstEntry(m, fits) ==
    LET hits == {i \in DOMAIN m.variants : i \in fits}
    IN  IF hits = {} THEN 0 ELSE CHOOSE i \in hits : \A j \in hits : i <= j

\* matches_request: an entry without an op serves every op.
ShippedT2(m, q) ==
    {i \in DOMAIN m.variants :
        LET e == m.variants[i].entry IN
        /\ e.tier = "T2" /\ e.arch = q.arch /\ e.op \in {q.op, Absent}
        /\ e.static = q.static /\ e.validated}

FallbackT1(m, q) ==
    {i \in DOMAIN m.variants :
        LET e == m.variants[i].entry IN
        /\ e.tier = "T1" /\ e.arch = q.arch /\ e.op = q.op
        /\ e.static \in {q.static, Absent} /\ e.validated}

Shipped(v, q) ==
    [hash |-> v.key, arch |-> q.arch, op |-> q.op, tier |-> v.entry.tier, path |-> v.entry.path,
     origin |-> "shipped", base |-> Absent, bytes |-> FALSE, validated |-> TRUE]

\* Mutant: entries of every generation are looked at.
LocalTunesAnyGeneration(r, q) ==
    {t \in r.tunes : /\ t.arch = q.arch /\ t.key = [op |-> q.op, static |-> q.static]
                     /\ t.entry.validated /\ t.entry.path # NoPath}

LocalTunes(r, q) ==
    {t \in r.tunes : /\ t.arch = q.arch /\ t.gen = r.gen
                     /\ t.key = [op |-> q.op, static |-> q.static]
                     /\ t.entry.validated /\ t.entry.path # NoPath}

Local(t, r, q) ==
    [hash |-> VariantHash(q, r.gen, t.entry.config), arch |-> q.arch, op |-> q.op, tier |-> "T2",
     path |-> t.entry.path, origin |-> "local", base |-> t.base, bytes |-> FALSE, validated |-> TRUE]

\* What a provider built, outside this crate: its op, architecture and hash are
\* those it was asked for, its path, origin, bytes and verdict are its own.
Built(a, r, q) ==
    [hash |-> VariantHash(q, r.gen, "jit"), arch |-> q.arch, op |-> q.op, tier |-> "T2",
     path |-> a.path, origin |-> a.origin, base |-> Absent, bytes |-> a.bytes, validated |-> a.validated]

JitOn(r) == r.allow_jit /\ r.jit

\* An architecture outside the manifest is served by the JIT or refused.
ResolveUnlisted(r, q, a) ==
    IF JitOn(r) /\ a.ok /\ a.validated THEN Answer(Built(a, r, q)) ELSE NotResolved

\* Steps 4 and 5; a provider that fails falls through to T1.
ResolveFallback(r, q, a) ==
    LET i == FirstEntry(r.manifest, FallbackT1(r.manifest, q)) IN
    IF JitOn(r) /\ a.ok /\ a.validated
    THEN Answer([Built(a, r, q) EXCEPT !.origin = IF @ = Absent THEN "local" ELSE @])
    ELSE IF i > 0 THEN Answer(Shipped(r.manifest.variants[i], q)) ELSE NotResolved

\* Registry::resolve, with a the answer of the provider if it is asked.
ResolveRequest(r, q, a) ==
    LET i == FirstEntry(r.manifest, ShippedT2(r.manifest, q)) IN
    IF StaticOp[q.static] # q.op THEN NotResolved
    ELSE IF q.arch \notin ToSet(r.manifest.archs) THEN ResolveUnlisted(r, q, a)
    ELSE IF i > 0 THEN Answer(Shipped(r.manifest.variants[i], q))
    ELSE IF LocalTunes(r, q) # {} THEN Answer(Local(CHOOSE t \in LocalTunes(r, q) : TRUE, r, q))
    ELSE ResolveFallback(r, q, a)

Resolve(c) ==
    /\ c \in DOMAIN reg /\ caller[c].pc \in {"idle", "loaded"} /\ calls < MaxCalls
    /\ calls' = calls + 1
    /\ \E q \in Requests, a \in IF JitOn(reg[c]) THEN JitAnswers ELSE {[ok |-> FALSE]} :
          \E answer \in {ResolveRequest(reg[c], q, a)} :
              /\ answer.ok
              /\ caller' = [caller EXCEPT ![c] = Thread("resolved", answer.variant, NoModule, q.static)]
    /\ UNCHANGED <<reg, modules>>

(***************************************************************************)
(* Registry::load_module: the lookup under the read lock, the load with no *)
(* lock held, the insertion under the write lock.                          *)
(***************************************************************************)

CachedModules(hash) == {m \in modules : m.hash = hash}

LookUp(c) ==
    /\ caller[c].pc = "resolved"
    /\ IF ~ caller[c].variant.validated
       THEN caller' = [caller EXCEPT ![c] = Idle]
       ELSE IF CachedModules(caller[c].variant.hash) # {}
       THEN \E m \in CachedModules(caller[c].variant.hash) :
                caller' = [caller EXCEPT ![c] = Proceed(c, "loaded", m.module)]
       ELSE caller' = [caller EXCEPT ![c] = Proceed(c, "missed", NoModule)]
    /\ UNCHANGED <<reg, modules, calls>>

\* The directory a relative path is joined to, Absent if it is refused.
BaseOf(r, v) == IF v.origin = "local" THEN v.base ELSE r.bundle_dir

\* The path is checked again, since a provider's answer was never validated;
\* a link that leaves the base is refused, a missing file is an I/O error.
Readable(r, v) ==
    /\ v.path # NoPath /\ SafePath(v.path) /\ BaseOf(r, v) # Absent
    /\ v.path.form \notin {"linked", "missing"}

Fetch(c) ==
    /\ caller[c].pc = "missed"
    /\ \E v \in {caller[c].variant} :
       \/ /\ v.bytes \/ Readable(reg[c], v)
          /\ caller' = [caller EXCEPT ![c] = Proceed(c, "insert",
                          IF v.bytes THEN [from |-> "memory", path |-> NoPath]
                          ELSE [from |-> BaseOf(reg[c], v), path |-> v.path])]
       \* refused, or the driver rejects the object
       \/ caller' = [caller EXCEPT ![c] = Idle]
    /\ UNCHANGED <<reg, modules, calls>>

\* Both of two concurrent loads insert; the later one stays in the cache.
CacheModule(hash, m) == {k \in modules : k.hash # hash} \cup {[hash |-> hash, module |-> m]}

Insert(c) ==
    /\ caller[c].pc = "insert"
    /\ modules' = CacheModule(caller[c].variant.hash, caller[c].module)
    /\ caller' = [caller EXCEPT ![c] = Proceed(c, "loaded", caller[c].module)]
    /\ UNCHANGED <<reg, calls>>

\* insert_loaded_module, with the module this clone holds.
InsertLoadedModule(c) ==
    /\ caller[c].pc = "loaded"
    /\ modules' = CacheModule(caller[c].variant.hash, caller[c].module)
    /\ UNCHANGED <<reg, caller, calls>>

(***************************************************************************)
(* Launch lists.                                                           *)
(***************************************************************************)

RecordLaunch ==
    /\ Len(list) < MaxLaunches
    /\ \E entry \in LaunchEntries : list' = Append(list, entry)
    /\ UNCHANGED replayed

ClearLaunches == list # <<>> /\ list' = <<>> /\ UNCHANGED replayed

\* dispatch_launch: start, launch and end may each fail; the end of a started
\* launch is recorded even when the launch failed.
DispatchLaunch(done, hash, sink, out) ==
    LET reached == sink => out.start
        marks == IF sink /\ out.start THEN 1 ELSE 0
    IN  [of |-> done.of,
         launched |-> IF reached /\ out.launch THEN Append(done.launched, hash) ELSE done.launched,
         started |-> done.started + marks, ended |-> done.ended + marks,
         ok |-> reached /\ out.launch /\ (sink => out.end)]

\* LaunchList::replay stops at the first error.
ReplayWith(sink, outs) ==
    LET done[i \in 0 .. Len(list)] ==
            IF i = 0 THEN NoReplay(list)
            ELSE IF done[i - 1].ok THEN DispatchLaunch(done[i - 1], list[i], sink, outs[i])
            ELSE done[i - 1]
    IN  done[Len(list)]

Replay ==
    /\ list # <<>>
    /\ \E sink \in BOOLEAN, outs \in [DOMAIN list -> [start : BOOLEAN, launch : BOOLEAN, end : BOOLEAN]] :
          replayed' = ReplayWith(sink, outs)
    /\ UNCHANGED list

LaunchNext == RecordLaunch \/ ClearLaunches \/ Replay

RegistryNext ==
    \/ \E c, d \in Clones : CloneRegistry(c, d)
    \/ \E c \in DOMAIN reg : \/ ConfigMut(c) \/ RegisterJit(c) \/ LoadBundle(c)
                             \/ SetManifest(c) \/ LoadTune(c) \/ Resolve(c)
    \/ \E c \in Clones : LookUp(c) \/ Fetch(c) \/ Insert(c) \/ InsertLoadedModule(c)

\* The registry and the launch lists filled with its answers.
RegistrySpec ==
    /\ RegistryInit
    /\ [][\/ RegistryNext /\ UNCHANGED launchVars
          \/ LaunchNext /\ UNCHANGED registryVars]_<<registryVars, launchVars>>

(***************************************************************************)
(* Properties.                                                             *)
(***************************************************************************)

\* The shipped entries that could have answered a request.
Fitting(r, q, tier) ==
    {e \in {r.manifest.variants[i].entry : i \in DOMAIN r.manifest.variants} :
        /\ e.validated /\ e.tier = tier /\ e.arch = q.arch
        /\ e.static = q.static \/ (tier = "T1" /\ e.static = Absent)
        /\ e.op = q.op \/ (tier = "T2" /\ e.op = Absent)}

\* An answered request got the variant the resolution order promises.
AnswerSound(v, q, r) ==
    LET listed == q.arch \in ToSet(r.manifest.archs)
        tuned  == \E t \in r.tunes : /\ t.arch = q.arch /\ t.gen = r.gen /\ t.entry.validated
                                     /\ t.key = [op |-> q.op, static |-> q.static]
                                     /\ t.entry.path # NoPath
    IN  /\ v.validated /\ v.arch = q.arch /\ v.op = q.op /\ StaticOp[q.static] = q.op
        /\ v.origin = "shipped" /\ v.hash.config # "jit" =>
              /\ \E e \in Fitting(r, q, v.tier) : e.path = v.path
              /\ v.tier = "T1" => Fitting(r, q, "T2") = {} /\ ~ tuned
        /\ v.base # Absent => tuned /\ v.hash.gen = r.gen /\ Fitting(r, q, "T2") = {}
        /\ listed /\ (Fitting(r, q, "T2") # {} \/ tuned) => v.hash.config # "jit"
        /\ ~ listed => v.hash.config = "jit"
        /\ v.origin = "local" /\ v.hash.config # "jit" => v.base # Absent

AnswersSound ==
    \A c \in DOMAIN reg :
        caller'[c].pc = "resolved" /\ caller[c].pc # "resolved"
        => \E q \in {[static |-> caller'[c].asked, op |-> StaticOp[caller'[c].asked],
                      arch |-> caller'[c].variant.arch]} : AnswerSound(caller'[c].variant, q, reg[c])

ModulesSound ==
    /\ \A m \in modules : /\ m.module.from \in BaseDirs \cup {"memory"}
                          /\ m.module.path.form \in {"inside", Absent}
    /\ \A c \in Clones : caller[c].pc = "loaded" => CachedModules(caller[c].variant.hash) # {}
    /\ \A m, n \in modules : m.hash = n.hash => m = n

LaunchSound ==
    /\ replayed.started = replayed.ended
    /\ IsPrefix(replayed.launched, replayed.of)
    /\ replayed.ok => replayed.launched = replayed.of

\* A resolution answers with the variant its documented order promises on what
\* the registry holds; every cached module was read from memory or from a file
\* inside its base, and a thread that got a module left one in the cache for
\* the others; a replay launches a prefix of its list, the whole list when it
\* reports success, and ends every profile event it started.
RegistrySound == [][AnswersSound /\ ModulesSound' /\ LaunchSound']_<<registryVars, launchVars>>
=============================================================================
