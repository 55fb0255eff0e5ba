---------------------------- MODULE RegistryProofs ----------------------------
(***************************************************************************)
(* Proofs about Registry: every resolution keeps the documented order, the *)
(* shared module cache holds only what was read inside a base, and a       *)
(* replay launches a prefix of its list, for every set of clones,          *)
(* documents, requests and provider answers.                               *)
(***************************************************************************)
EXTENDS Registry, RecursionProofs, SequenceTheorems, TLAPS

-------------------------------------------------------------------------------
(* The inductive invariant                                                 *)

Bases == BaseDirs \cup {Absent}

\* What validation left in a registry: a manifest with an order, and tune
\* entries that have a base whenever they have a path.
ManifestSound(m) ==
    /\ DOMAIN m.variants \subseteq Nat \ {0}
    /\ \A i \in DOMAIN m.variants : /\ m.variants[i].entry.path.form \in PathForms
                                    /\ m.variants[i].key.config # "jit"

TuneSound(t) ==
    /\ t.base \in Bases
    /\ t.base = Absent => t.entry.path = NoPath
    /\ t.entry.path.form \in PathForms
    /\ t.entry.config # "jit"

RegSound(r) ==
    /\ r = [gen |-> r.gen, allow_jit |-> r.allow_jit, bundle_dir |-> r.bundle_dir,
            manifest |-> r.manifest, tunes |-> r.tunes, jit |-> r.jit]
    /\ r.bundle_dir \in Bases
    /\ ManifestSound(r.manifest)
    /\ \A t \in r.tunes : TuneSound(t)

\* A variant names a directory to read from, a module the place it came from.
VariantSound(v) == v.base \in Bases /\ v.path.form \in PathForms

ModuleSound(m) == m.from \in BaseDirs \cup {"memory"} /\ m.path.form \in {"inside", Absent}

\* A thread at each place of resolve and load_module.
CallerSound(k) ==
    /\ k = [pc |-> k.pc, variant |-> k.variant, module |-> k.module, asked |-> k.asked]
    /\ VariantSound(k.variant)
    /\ k.pc \in {"insert", "loaded"} => ModuleSound(k.module)
    /\ k.pc = "loaded" => \E m \in modules : m.hash = k.variant.hash

RegistryInv ==
    /\ DOMAIN reg \subseteq Clones
    /\ \A c \in DOMAIN reg : RegSound(reg[c])
    /\ DOMAIN caller = Clones
    /\ \A c \in Clones : CallerSound(caller[c]) /\ (caller[c].pc # "idle" => c \in DOMAIN reg)
    /\ \A m \in modules : m = [hash |-> m.hash, module |-> m.module] /\ ModuleSound(m.module)
    /\ \A m, n \in modules : m.hash = n.hash => m = n

LEMMA RegistryInvInit == RegistryInit => RegistryInv
  <1> SUFFICES ASSUME RegistryInit PROVE RegistryInv
    OBVIOUS
  <1>1. PICK g \in Generations, j \in BOOLEAN : reg = [c \in {Founder} |-> NewRegistry(g, j)]
    BY DEF RegistryInit
  <1>2. RegSound(NewRegistry(g, j))
    BY DEF RegSound, NewRegistry, NoManifest, Bases, ManifestSound
  <1>3. DOMAIN reg \subseteq Clones /\ \A c \in DOMAIN reg : RegSound(reg[c])
    BY <1>1, <1>2, DocumentsAssumption
  <1>4. CallerSound(Idle)
    BY DEF CallerSound, Idle, Thread, NoVariant, VariantSound, NoPath, PathForms, Bases
  <1>5. /\ DOMAIN caller = Clones
        /\ \A c \in Clones : CallerSound(caller[c]) /\ caller[c].pc = "idle"
    BY <1>4 DEF RegistryInit, Idle, Thread
  <1>6. modules = {}
    BY DEF RegistryInit
  <1> QED
    BY <1>3, <1>5, <1>6 DEF RegistryInv

-------------------------------------------------------------------------------
(* Configuration                                                           *)

LEMMA BundleManifestSound ==
    ASSUME NEW doc \in ManifestDocs PROVE ManifestSound(BundleManifest(doc))
  <1>1. BundleManifest(doc).variants = TableOf(doc, "variants")
    BY DEF BundleManifest
  <1>2. TableOf(doc, "variants") \in {doc.table, <<>>}
    BY DEF TableOf
  <1> QED
    BY <1>1, <1>2, DocumentsAssumption DEF ManifestSound

Rebuilt(r, g, j, dir, m, k) ==
    [gen |-> g, allow_jit |-> j, bundle_dir |-> dir, manifest |-> m, tunes |-> r.tunes, jit |-> k]

\* What the edits of a registry with these fields give.
LEMMA Edited ==
    ASSUME NEW r, RegSound(r), NEW x, NEW y
    PROVE  /\ [r EXCEPT !.gen = x, !.allow_jit = y] = Rebuilt(r, x, y, r.bundle_dir, r.manifest, r.jit)
           /\ [r EXCEPT !.jit = x] = Rebuilt(r, r.gen, r.allow_jit, r.bundle_dir, r.manifest, x)
  <1>1. r \in [gen : {r.gen}, allow_jit : {r.allow_jit}, bundle_dir : {r.bundle_dir},
               manifest : {r.manifest}, tunes : {r.tunes}, jit : {r.jit}]
    BY DEF RegSound
  <1>2. [r EXCEPT !.jit = x] = Rebuilt(r, r.gen, r.allow_jit, r.bundle_dir, r.manifest, x)
    BY <1>1 DEF Rebuilt
  <1>3. [r EXCEPT !.gen = x, !.allow_jit = y] = Rebuilt(r, x, y, r.bundle_dir, r.manifest, r.jit)
    <2>1. PICK s : s = [r EXCEPT !.gen = x]
      OBVIOUS
    <2>2. s \in [gen : {x}, allow_jit : {r.allow_jit}, bundle_dir : {r.bundle_dir},
                 manifest : {r.manifest}, tunes : {r.tunes}, jit : {r.jit}]
      BY <1>1, <2>1
    <2>3. [s EXCEPT !.allow_jit = y] = Rebuilt(r, x, y, r.bundle_dir, r.manifest, r.jit)
      BY <2>2 DEF Rebuilt
    <2>4. [r EXCEPT !.gen = x, !.allow_jit = y] = [s EXCEPT !.allow_jit = y]
      BY <2>1, Zenon
    <2> QED
      BY <2>3, <2>4, Zenon
  <1> QED
    BY <1>2, <1>3, Zenon

LEMMA EditedManifest ==
    ASSUME NEW r, RegSound(r), NEW m, NEW dir
    PROVE  [r EXCEPT !.manifest = m, !.bundle_dir = dir] = Rebuilt(r, r.gen, r.allow_jit, dir, m, r.jit)
  <1>1. r \in [gen : {r.gen}, allow_jit : {r.allow_jit}, bundle_dir : {r.bundle_dir},
               manifest : {r.manifest}, tunes : {r.tunes}, jit : {r.jit}]
    BY DEF RegSound
  <1>2. PICK s : s = [r EXCEPT !.manifest = m]
    OBVIOUS
  <1>3. s \in [gen : {r.gen}, allow_jit : {r.allow_jit}, bundle_dir : {r.bundle_dir},
               manifest : {m}, tunes : {r.tunes}, jit : {r.jit}]
    BY <1>1, <1>2
  <1>4. [s EXCEPT !.bundle_dir = dir] = Rebuilt(r, r.gen, r.allow_jit, dir, m, r.jit)
    BY <1>3 DEF Rebuilt
  <1>5. [r EXCEPT !.manifest = m, !.bundle_dir = dir] = [s EXCEPT !.bundle_dir = dir]
    BY <1>2, Zenon
  <1> QED
    BY <1>4, <1>5, Zenon

LEMMA RebuiltSound ==
    ASSUME NEW r, RegSound(r), NEW g, NEW j, NEW dir \in Bases, NEW m, ManifestSound(m), NEW k
    PROVE  RegSound(Rebuilt(r, g, j, dir, m, k))
  BY DEF RegSound, Rebuilt

LEMMA InstallSound ==
    ASSUME NEW r, RegSound(r), NEW m, ManifestSound(m), NEW dir \in Bases
    PROVE  RegSound(Install(r, m, dir))
  <1>1. [r EXCEPT !.manifest = m, !.bundle_dir = dir] = Rebuilt(r, r.gen, r.allow_jit, dir, m, r.jit)
    BY EditedManifest, Zenon
  <1>2. RegSound(Rebuilt(r, r.gen, r.allow_jit, dir, m, r.jit))
    BY RebuiltSound
  <1>3. RegSound([r EXCEPT !.manifest = m, !.bundle_dir = dir])
    BY <1>1, <1>2, Zenon
  <1> QED
    BY <1>3, Zenon DEF Install

\* A tune file as it is loaded, alone or merged with a local one.
FileSound(t) ==
    /\ t = [gen |-> t.gen, arch |-> t.arch, entries |-> t.entries]
    /\ \A row \in t.entries : row.entry.path.form \in PathForms /\ row.entry.config # "jit"

LEMMA TuneFileSound ==
    ASSUME NEW doc \in TuneDocs PROVE FileSound(TuneFile(doc))
  <1>1. TableOf(doc, "entries") \in {doc.table, <<>>}
    BY DEF TableOf
  <1>2. ToSet(<<>>) = {}
    BY DEF ToSet
  <1>3. \A row \in ToSet(TableOf(doc, "entries")) :
            row.entry.path.form \in PathForms /\ row.entry.config # "jit"
    BY <1>1, <1>2, DocumentsAssumption
  <1>4. PICK rows : rows = ToSet(TableOf(doc, "entries"))
    OBVIOUS
  <1> QED
    BY <1>3, <1>4 DEF TuneFile, FileSound

LEMMA MergeLocalSound ==
    ASSUME NEW shipped, NEW local, FileSound(shipped), FileSound(local)
    PROVE  FileSound(MergeLocal(shipped, local))
  <1> DEFINE kept == {row \in shipped.entries : row.key \notin {x.key : x \in local.entries}}
             both == kept \cup local.entries
  <1>1. \A row \in both : row.entry.path.form \in PathForms /\ row.entry.config # "jit"
    BY DEF FileSound
  <1>2. MergeLocal(shipped, local) \in {shipped, [shipped EXCEPT !.entries = both]}
    BY DEF MergeLocal
  <1> HIDE DEF both, kept
  <1>3. [shipped EXCEPT !.entries = both]
            = [gen |-> shipped.gen, arch |-> shipped.arch, entries |-> both]
    <2>1. shipped \in [gen : {shipped.gen}, arch : {shipped.arch}, entries : {shipped.entries}]
      BY DEF FileSound
    <2> QED
      BY <2>1
  <1>4. FileSound([gen |-> shipped.gen, arch |-> shipped.arch, entries |-> both])
    BY <1>1 DEF FileSound
  <1> QED
    BY <1>2, <1>3, <1>4

\* Merging a file keeps, for each entry, the base its path is relative to.
LEMMA MergeSound ==
    ASSUME NEW r, RegSound(r), NEW t, FileSound(t), NEW base \in Bases, BaseGiven(t, base)
    PROVE  RegSound(Merge(r, t, base))
  <1> DEFINE new == {[arch |-> t.arch, gen |-> t.gen, key |-> row.key, base |-> base,
                      entry |-> row.entry] : row \in t.entries}
             old == {a \in r.tunes : \A b \in new :
                        ~ (a.arch = b.arch /\ a.gen = b.gen /\ a.key = b.key)}
             all == old \cup new
  <1>1. \A a \in new : TuneSound(a)
    BY DEF TuneSound, FileSound, BaseGiven
  <1>2. \A a \in all : TuneSound(a)
    BY <1>1 DEF RegSound
  <1>3. Merge(r, t, base) = [r EXCEPT !.tunes = all]
    BY DEF Merge
  <1> HIDE DEF all, old, new
  <1>4. [r EXCEPT !.tunes = all]
           = [gen |-> r.gen, allow_jit |-> r.allow_jit, bundle_dir |-> r.bundle_dir,
              manifest |-> r.manifest, tunes |-> all, jit |-> r.jit]
    <2>1. r \in [gen : {r.gen}, allow_jit : {r.allow_jit}, bundle_dir : {r.bundle_dir},
                 manifest : {r.manifest}, tunes : {r.tunes}, jit : {r.jit}]
      BY DEF RegSound
    <2> QED
      BY <2>1
  <1>5. RegSound([gen |-> r.gen, allow_jit |-> r.allow_jit, bundle_dir |-> r.bundle_dir,
              manifest |-> r.manifest, tunes |-> all, jit |-> r.jit])
    BY <1>2 DEF RegSound
  <1> QED
    BY <1>3, <1>4, <1>5

LEMMA EditKeeps ==
    ASSUME RegistryInv, NEW c, NEW r, RegSound(r), Edit(c, r) PROVE RegistryInv'
  <1>1. /\ c \in DOMAIN reg /\ reg' = [reg EXCEPT ![c] = r]
        /\ modules' = modules /\ caller' = caller
    BY DEF Edit
  <1>2. DOMAIN reg' = DOMAIN reg /\ \A d \in DOMAIN reg : RegSound(reg'[d])
    BY <1>1 DEF RegistryInv
  <1>3. \A d \in Clones : CallerSound(caller[d])'
    BY <1>1 DEF RegistryInv, CallerSound
  <1> QED
    BY <1>1, <1>2, <1>3 DEF RegistryInv

\* Every configuration call leaves a sound registry, refused documents too.
LEMMA ConfigurationKeeps ==
    ASSUME RegistryInv, NEW c \in DOMAIN reg,
           ConfigMut(c) \/ RegisterJit(c) \/ LoadBundle(c) \/ SetManifest(c) \/ LoadTune(c)
    PROVE  RegistryInv'
  <1>1. PICK r : r = reg[c]
    OBVIOUS
  <1>2. RegSound(r)
    BY <1>1 DEF RegistryInv
  <1>3. r.bundle_dir \in Bases /\ ManifestSound(r.manifest)
    BY <1>2 DEF RegSound
  <1>4. CASE ConfigMut(c)
    <2>1. PICK g \in Generations, j \in BOOLEAN : Edit(c, [r EXCEPT !.gen = g, !.allow_jit = j])
      BY <1>1, <1>4, Zenon DEF ConfigMut
    <2>2. [r EXCEPT !.gen = g, !.allow_jit = j] = Rebuilt(r, g, j, r.bundle_dir, r.manifest, r.jit)
      BY <1>2, Edited, Zenon
    <2>3. RegSound(Rebuilt(r, g, j, r.bundle_dir, r.manifest, r.jit))
      BY <1>2, <1>3, RebuiltSound
    <2>4. Edit(c, Rebuilt(r, g, j, r.bundle_dir, r.manifest, r.jit))
      BY <2>1, <2>2, Zenon
    <2> QED
      BY <2>3, <2>4, EditKeeps
  <1>5. CASE RegisterJit(c)
    <2>1. Edit(c, [r EXCEPT !.jit = TRUE])
      BY <1>1, <1>5, Zenon DEF RegisterJit
    <2>2. [r EXCEPT !.jit = TRUE] = Rebuilt(r, r.gen, r.allow_jit, r.bundle_dir, r.manifest, TRUE)
      BY <1>2, Edited, Zenon
    <2>3. RegSound(Rebuilt(r, r.gen, r.allow_jit, r.bundle_dir, r.manifest, TRUE))
      BY <1>2, <1>3, RebuiltSound
    <2>4. Edit(c, Rebuilt(r, r.gen, r.allow_jit, r.bundle_dir, r.manifest, TRUE))
      BY <2>1, <2>2, Zenon
    <2> QED
      BY <2>3, <2>4, EditKeeps
  <1>6. ASSUME NEW doc \in ManifestDocs, NEW dir \in Bases
        PROVE  RegSound(Install(r, BundleManifest(doc), dir))
    BY <1>2, BundleManifestSound, InstallSound
  <1>7. CASE LoadBundle(c)
    <2>1. PICK doc \in ManifestDocs, dir \in BaseDirs :
              Edit(c, IF ManifestParses(doc) THEN Install(r, BundleManifest(doc), dir) ELSE r)
      BY <1>1, <1>7, Zenon DEF LoadBundle
    <2> DEFINE n == IF ManifestParses(doc) THEN Install(r, BundleManifest(doc), dir) ELSE r
    <2>2. RegSound(n)
      BY <1>2, <1>6, <2>1 DEF Bases
    <2>3. Edit(c, n)
      BY <2>1
    <2> HIDE DEF n
    <2> QED
      BY <2>2, <2>3, EditKeeps
  <1>8. CASE SetManifest(c)
    <2>1. PICK doc \in ManifestDocs, dir \in Bases : Edit(c, Install(r, BundleManifest(doc), dir))
      BY <1>1, <1>8, Zenon DEF SetManifest, Bases
    <2> QED
      BY <1>6, <2>1, EditKeeps
  <1>9. CASE LoadTune(c)
    <2> DEFINE files == {TuneFile(doc) : doc \in {d \in TuneDocs : TuneParses(d)}}
    <2>1. \A f \in files : FileSound(f)
      BY TuneFileSound
    <2>2. PICK shipped \in files, local \in files, base \in Bases :
              LoadTuneFile(c, MergeLocal(shipped, local), base)
      BY <1>9 DEF LoadTune, Bases
    <2> HIDE DEF files
    <2>3. PICK t : t = MergeLocal(shipped, local)
      OBVIOUS
    <2>4. FileSound(t)
      BY <2>1, <2>2, <2>3, MergeLocalSound
    <2>5. PICK n : /\ n = IF TuneValid(t) /\ BaseGiven(t, base) /\ t.gen = r.gen
                           THEN Merge(r, t, base) ELSE r
                   /\ Edit(c, n)
      BY <1>1, <2>2, <2>3, Zenon DEF LoadTuneFile
    <2>6. RegSound(n)
      BY <1>2, <2>4, <2>5, MergeSound
    <2> QED
      BY <2>5, <2>6, EditKeeps
  <1> QED
    BY <1>4, <1>5, <1>7, <1>8, <1>9

LEMMA CloneKeeps ==
    ASSUME RegistryInv, NEW c \in Clones, NEW d \in Clones, CloneRegistry(c, d)
    PROVE  RegistryInv'
  <1>1. /\ c \in DOMAIN reg /\ reg' = [k \in DOMAIN reg \cup {d} |-> reg[IF k = d THEN c ELSE k]]
        /\ modules' = modules /\ caller' = caller
    BY DEF CloneRegistry
  <1>2. DOMAIN reg' \subseteq Clones /\ \A k \in DOMAIN reg' : RegSound(reg'[k])
    BY <1>1 DEF RegistryInv
  <1>3. \A k \in Clones : CallerSound(caller[k])'
    BY <1>1 DEF RegistryInv, CallerSound
  <1> QED
    BY <1>1, <1>2, <1>3 DEF RegistryInv


-------------------------------------------------------------------------------
(* Resolution                                                              *)

\* The search in manifest order finds an entry exactly if one fits.
LEMMA FirstEntryFits ==
    ASSUME NEW m, ManifestSound(m), NEW fits \in SUBSET (DOMAIN m.variants)
    PROVE  /\ fits = {} => FirstEntry(m, fits) = 0
           /\ fits # {} => FirstEntry(m, fits) \in fits /\ FirstEntry(m, fits) > 0
  <1> DEFINE hits == {i \in DOMAIN m.variants : i \in fits}
  <1>1. hits = fits /\ fits \subseteq Nat \ {0}
    BY DEF ManifestSound
  <1>2. fits = {} => FirstEntry(m, fits) = 0
    BY <1>1 DEF FirstEntry
  <1>3. ASSUME fits # {} PROVE FirstEntry(m, fits) \in fits
    <2> DEFINE R == OpToRel(<, Nat)
    <2>1. IsWellFoundedOn(R, Nat)
      BY NatLessThanWellFounded
    <2>2. fits \subseteq Nat
      BY <1>1
    <2> HIDE DEF R
    <2>3. \E i \in fits : \A j \in fits : ~ (<<j, i>> \in R)
      BY <1>3, <2>1, <2>2, WFMin, Zenon
    <2>4. \E i \in fits : \A j \in fits : i <= j
      <3>1. PICK i \in fits : \A j \in fits : ~ (<<j, i>> \in R)
        BY <2>3
      <3>2. \A j \in fits : ~ (j < i)
        BY <2>2, <3>1 DEF R, OpToRel
      <3> QED
        BY <2>2, <3>2
    <2>5. FirstEntry(m, fits) = CHOOSE i \in fits : \A j \in fits : i <= j
      BY <1>1, <1>3 DEF FirstEntry
    <2> QED
      BY <2>4, <2>5
  <1>4. \A i \in fits : i > 0
    BY <1>1
  <1> QED
    BY <1>2, <1>3, <1>4

\* An answer of the provider, if it is asked and built something.
AnswerAllowed(a) == a.ok => a.path.form \in PathForms

SameRequest(p, q) == p.op = q.op /\ p.arch = q.arch /\ p.static = q.static

\* Where an answer comes from, and what was then not there.
NoShipped(r, q) == ShippedT2(r.manifest, q) = {}
ShippedAnswer(v, r, q) ==
    \E i \in DOMAIN r.manifest.variants :
        /\ v = Shipped(r.manifest.variants[i], q)
        /\ \/ i \in ShippedT2(r.manifest, q)
           \/ /\ i \in FallbackT1(r.manifest, q) /\ NoShipped(r, q)
              /\ LocalTunes(r, q) = {}
LocalAnswer(v, r, q) ==
    \E t \in LocalTunes(r, q) : v = Local(t, r, q) /\ NoShipped(r, q)
BuiltAnswer(v, r, q, a) ==
    /\ a.ok /\ a.validated
    /\ v \in {Built(a, r, q), [Built(a, r, q) EXCEPT !.origin = "local"]}
    /\ q.arch \in ToSet(r.manifest.archs) => NoShipped(r, q) /\ LocalTunes(r, q) = {}

LEMMA ResolvedBy ==
    ASSUME NEW r, RegSound(r), NEW q, NEW a, NEW answer,
           answer = ResolveRequest(r, q, a), answer.ok
    PROVE  /\ StaticOp[q.static] = q.op
           /\ \/ BuiltAnswer(answer.variant, r, q, a)
              \/ /\ q.arch \in ToSet(r.manifest.archs)
                 /\ ShippedAnswer(answer.variant, r, q) \/ LocalAnswer(answer.variant, r, q)
  <1> DEFINE v == answer.variant
             m == r.manifest
             i == FirstEntry(m, ShippedT2(m, q))
             k == FirstEntry(m, FallbackT1(m, q))
             built == Built(a, r, q)
  <1>1. ManifestSound(m)
    BY DEF RegSound
  <1>2. /\ i = 0 => NoShipped(r, q)
        /\ i > 0 => i \in ShippedT2(m, q) /\ i \in DOMAIN m.variants
        /\ i = 0 \/ i > 0
    <2>1. ShippedT2(m, q) \in SUBSET (DOMAIN m.variants)
      BY DEF ShippedT2
    <2>2. /\ ShippedT2(m, q) = {} => i = 0
          /\ ShippedT2(m, q) # {} => i \in ShippedT2(m, q) /\ i > 0
      BY <1>1, <2>1, FirstEntryFits
    <2> QED
      BY <2>1, <2>2 DEF NoShipped
  <1>3. k > 0 => k \in FallbackT1(m, q) /\ k \in DOMAIN m.variants
    <2>1. FallbackT1(m, q) \in SUBSET (DOMAIN m.variants)
      BY DEF FallbackT1
    <2>2. /\ FallbackT1(m, q) = {} => k = 0
          /\ FallbackT1(m, q) # {} => k \in FallbackT1(m, q) /\ k > 0
      BY <1>1, <2>1, FirstEntryFits
    <2> QED
      BY <2>1, <2>2
  <1>4. ~ NotResolved.ok
    BY DEF NotResolved
  <1>5. StaticOp[q.static] = q.op
    BY <1>4 DEF ResolveRequest
  <1>6. \A x : Answer(x).variant = x
    BY DEF Answer
  <1>7. CASE q.arch \notin ToSet(m.archs)
    <2>1. answer = ResolveUnlisted(r, q, a)
      BY <1>5, <1>7 DEF ResolveRequest
    <2>2. a.ok /\ a.validated /\ answer = Answer(built)
      BY <1>4, <2>1 DEF ResolveUnlisted
    <2> QED
      BY <1>5, <1>6, <1>7, <2>2 DEF BuiltAnswer
  <1>8. CASE q.arch \in ToSet(m.archs) /\ i > 0
    <2>1. answer = Answer(Shipped(m.variants[i], q))
      BY <1>5, <1>8 DEF ResolveRequest
    <2> QED
      BY <1>2, <1>5, <1>6, <1>8, <2>1 DEF ShippedAnswer
  <1>9. CASE q.arch \in ToSet(m.archs) /\ ~ i > 0 /\ LocalTunes(r, q) # {}
    <2>1. answer = Answer(Local(CHOOSE t \in LocalTunes(r, q) : TRUE, r, q))
      BY <1>5, <1>9 DEF ResolveRequest
    <2>2. PICK t \in LocalTunes(r, q) : answer = Answer(Local(t, r, q))
      BY <1>9, <2>1
    <2> QED
      BY <1>2, <1>5, <1>6, <1>9, <2>2 DEF LocalAnswer
  <1>10. CASE q.arch \in ToSet(m.archs) /\ ~ i > 0 /\ LocalTunes(r, q) = {}
    <2>1. answer = ResolveFallback(r, q, a)
      BY <1>5, <1>10 DEF ResolveRequest
    <2>2. NoShipped(r, q)
      BY <1>2, <1>10
    <2>3. CASE JitOn(r) /\ a.ok /\ a.validated
      <3>1. answer = Answer([built EXCEPT !.origin = IF built.origin = Absent THEN "local" ELSE built.origin])
        BY <2>1, <2>3 DEF ResolveFallback
      <3>2. [built EXCEPT !.origin = built.origin] = built
        BY DEF Built
      <3>3. v \in {built, [built EXCEPT !.origin = "local"]}
        <4>1. CASE built.origin = Absent
          BY <1>6, <3>1, <4>1, Zenon
        <4>2. CASE built.origin # Absent
          BY <1>6, <3>1, <3>2, <4>2, Zenon
        <4> QED
          BY <4>1, <4>2
      <3> HIDE DEF v, built
      <3>4. BuiltAnswer(v, r, q, a)
        BY <1>10, <2>2, <2>3, <3>3, Zenon DEF BuiltAnswer, built
      <3> QED
        BY <1>5, <3>4 DEF v
    <2>4. CASE ~ (JitOn(r) /\ a.ok /\ a.validated)
      <3>1. k > 0 /\ answer = Answer(Shipped(m.variants[k], q))
        BY <1>4, <2>1, <2>4 DEF ResolveFallback
      <3> QED
        BY <1>3, <1>5, <1>6, <1>10, <2>2, <3>1 DEF ShippedAnswer
    <2> QED
      BY <2>3, <2>4
  <1> QED
    BY <1>7, <1>8, <1>9, <1>10

\* The entries a shipped answer could have come from, by the lookups.
LEMMA FittingFound ==
    ASSUME NEW r, NEW p, NEW q, SameRequest(p, q)
    PROVE  /\ NoShipped(r, q) <=> Fitting(r, p, "T2") = {}
           /\ \A i \in ShippedT2(r.manifest, q) :
                 /\ r.manifest.variants[i].entry.tier = "T2"
                 /\ r.manifest.variants[i].entry \in Fitting(r, p, "T2")
           /\ \A i \in FallbackT1(r.manifest, q) :
                 /\ r.manifest.variants[i].entry.tier = "T1"
                 /\ r.manifest.variants[i].entry \in Fitting(r, p, "T1")
  <1>1. \A i \in ShippedT2(r.manifest, q) :
                 /\ r.manifest.variants[i].entry.tier = "T2"
                 /\ r.manifest.variants[i].entry \in Fitting(r, p, "T2")
    BY DEF ShippedT2, Fitting, SameRequest
  <1>2. \A i \in FallbackT1(r.manifest, q) :
                 /\ r.manifest.variants[i].entry.tier = "T1"
                 /\ r.manifest.variants[i].entry \in Fitting(r, p, "T1")
    BY DEF FallbackT1, Fitting, SameRequest
  <1>3. ASSUME NEW e \in Fitting(r, p, "T2") PROVE ShippedT2(r.manifest, q) # {}
    <2>1. PICK i \in DOMAIN r.manifest.variants : e = r.manifest.variants[i].entry
      BY DEF Fitting
    <2>2. i \in ShippedT2(r.manifest, q)
      BY <2>1 DEF ShippedT2, Fitting, SameRequest
    <2> QED
      BY <2>2
  <1> QED
    BY <1>1, <1>2, <1>3 DEF NoShipped

Tuned(r, p) ==
    \E t \in r.tunes : /\ t.arch = p.arch /\ t.gen = r.gen /\ t.entry.validated
                       /\ t.key = [op |-> p.op, static |-> p.static]
                       /\ t.entry.path # NoPath

LEMMA TunedFound ==
    ASSUME NEW r, NEW p, NEW q, SameRequest(p, q)
    PROVE  Tuned(r, p) <=> LocalTunes(r, q) # {}
  BY DEF Tuned, LocalTunes, SameRequest

\* The promise, with the names above.
AnswerPromised(v, p, r) ==
    /\ v.validated /\ v.arch = p.arch /\ v.op = p.op /\ StaticOp[p.static] = p.op
    /\ v.origin = "shipped" /\ v.hash.config # "jit" =>
          /\ \E e \in Fitting(r, p, v.tier) : e.path = v.path
          /\ v.tier = "T1" => Fitting(r, p, "T2") = {} /\ ~ Tuned(r, p)
    /\ v.base # Absent => Tuned(r, p) /\ v.hash.gen = r.gen /\ Fitting(r, p, "T2") = {}
    /\ p.arch \in ToSet(r.manifest.archs) /\ (Fitting(r, p, "T2") # {} \/ Tuned(r, p)) =>
          v.hash.config # "jit"
    /\ ~ (p.arch \in ToSet(r.manifest.archs)) => v.hash.config = "jit"
    /\ v.origin = "local" /\ v.hash.config # "jit" => v.base # Absent

LEMMA PromiseIsSound ==
    ASSUME NEW v, NEW p, NEW r PROVE AnswerPromised(v, p, r) => AnswerSound(v, p, r)
  BY Zenon DEF AnswerPromised, AnswerSound, Tuned

LEMMA AnswerIsSound ==
    ASSUME NEW r, RegSound(r), NEW p, NEW q, SameRequest(p, q), NEW a, AnswerAllowed(a),
           NEW answer, answer = ResolveRequest(r, q, a), answer.ok
    PROVE  AnswerSound(answer.variant, p, r) /\ VariantSound(answer.variant)
  <1>1. PICK v : v = answer.variant
    OBVIOUS
  <1>2. StaticOp[p.static] = p.op /\ p.op = q.op /\ p.arch = q.arch /\ p.static = q.static
    BY ResolvedBy DEF SameRequest
  <1>3. \/ BuiltAnswer(v, r, q, a)
        \/ q.arch \in ToSet(r.manifest.archs) /\ (ShippedAnswer(v, r, q) \/ LocalAnswer(v, r, q))
    BY <1>1, ResolvedBy
  <1>4. ManifestSound(r.manifest) /\ \A t \in r.tunes : TuneSound(t)
    BY DEF RegSound
  <1>5. SUFFICES AnswerPromised(v, p, r) /\ VariantSound(v)
    BY <1>1, PromiseIsSound
  <1>6. CASE BuiltAnswer(v, r, q, a)
    <2>1. PICK origin \in {"local", a.origin} :
              v = [hash |-> VariantHash(q, r.gen, "jit"), arch |-> q.arch, op |-> q.op,
                   tier |-> "T2", path |-> a.path, origin |-> origin, base |-> Absent,
                   bytes |-> a.bytes, validated |-> a.validated]
      <3>1. v \in {Built(a, r, q), [Built(a, r, q) EXCEPT !.origin = "local"]}
        BY <1>6, Zenon DEF BuiltAnswer
      <3>2. Built(a, r, q) = [hash |-> VariantHash(q, r.gen, "jit"), arch |-> q.arch, op |-> q.op,
                   tier |-> "T2", path |-> a.path, origin |-> a.origin, base |-> Absent,
                   bytes |-> a.bytes, validated |-> a.validated]
        BY DEF Built
      <3>3. [Built(a, r, q) EXCEPT !.origin = "local"]
                = [hash |-> VariantHash(q, r.gen, "jit"), arch |-> q.arch, op |-> q.op,
                   tier |-> "T2", path |-> a.path, origin |-> "local", base |-> Absent,
                   bytes |-> a.bytes, validated |-> a.validated]
        BY DEF Built
      <3> QED
        BY <3>1, <3>2, <3>3, Zenon
    <2>2. /\ v.hash = VariantHash(q, r.gen, "jit") /\ v.arch = q.arch /\ v.op = q.op
          /\ v.path = a.path /\ v.origin = origin /\ v.base = Absent
          /\ v.validated = a.validated
      BY <2>1
    <2>3. v.hash.config = "jit"
      BY <2>2 DEF VariantHash
    <2>4. a.validated /\ v.path.form \in PathForms
      BY <1>6, <2>2 DEF BuiltAnswer, AnswerAllowed
    <2>5. p.arch \in ToSet(r.manifest.archs) => Fitting(r, p, "T2") = {} /\ ~ Tuned(r, p)
      BY <1>2, <1>6, FittingFound, TunedFound DEF BuiltAnswer
    <2> QED
      BY <1>2, <2>2, <2>3, <2>4, <2>5 DEF AnswerPromised, VariantSound, Bases
  <1>7. CASE q.arch \in ToSet(r.manifest.archs) /\ ShippedAnswer(v, r, q)
    <2>1. PICK i \in DOMAIN r.manifest.variants :
              /\ v = Shipped(r.manifest.variants[i], q)
              /\ \/ i \in ShippedT2(r.manifest, q)
                 \/ /\ i \in FallbackT1(r.manifest, q) /\ NoShipped(r, q)
                    /\ LocalTunes(r, q) = {}
      BY <1>7 DEF ShippedAnswer
    <2>2. PICK e : e = r.manifest.variants[i].entry
      OBVIOUS
    <2>3. /\ v.hash = r.manifest.variants[i].key /\ v.arch = q.arch /\ v.op = q.op
          /\ v.tier = e.tier /\ v.path = e.path /\ v.origin = "shipped" /\ v.base = Absent
          /\ v.validated = TRUE
      BY <2>1, <2>2 DEF Shipped
    <2>4. /\ e \in Fitting(r, p, e.tier)
          /\ e.tier = "T1" => Fitting(r, p, "T2") = {} /\ ~ Tuned(r, p)
      BY <2>1, <2>2, FittingFound, TunedFound
    <2>5. v.hash.config # "jit" /\ v.path.form \in PathForms
      BY <1>4, <2>1, <2>2, <2>3 DEF ManifestSound
    <2> QED
      BY <1>2, <1>7, <2>3, <2>4, <2>5 DEF AnswerPromised, VariantSound, Bases, Absent
  <1>8. CASE q.arch \in ToSet(r.manifest.archs) /\ LocalAnswer(v, r, q)
    <2>1. PICK t \in LocalTunes(r, q) : v = Local(t, r, q) /\ NoShipped(r, q)
      BY <1>8 DEF LocalAnswer
    <2>2. PICK hash, path, base :
              /\ hash = VariantHash(q, r.gen, t.entry.config) /\ path = t.entry.path /\ base = t.base
              /\ v = [hash |-> hash, arch |-> q.arch, op |-> q.op, tier |-> "T2", path |-> path,
                      origin |-> "local", base |-> base, bytes |-> FALSE, validated |-> TRUE]
      BY <2>1 DEF Local
    <2>3. /\ v.hash.config = t.entry.config /\ v.hash.gen = r.gen /\ v.arch = q.arch /\ v.op = q.op
          /\ v.path = t.entry.path /\ v.origin = "local" /\ v.base = t.base /\ v.validated = TRUE
      BY <2>2 DEF VariantHash
    <2>4. TuneSound(t) /\ t.entry.path # NoPath
      BY <1>4, <2>1 DEF LocalTunes
    <2>5. Fitting(r, p, "T2") = {} /\ Tuned(r, p)
      BY <2>1, FittingFound, TunedFound
    <2> QED
      BY <1>2, <1>8, <2>3, <2>4, <2>5 DEF AnswerPromised, VariantSound, TuneSound
  <1> QED
    BY <1>3, <1>6, <1>7, <1>8

-------------------------------------------------------------------------------
(* Threads: resolve, and load_module around the lock                       *)

\* A step of one thread to a sound place, over a cache that keeps its hashes.
LEMMA ThreadStep ==
    ASSUME RegistryInv, NEW c \in Clones, c \in DOMAIN reg, NEW k,
           caller' = [caller EXCEPT ![c] = k], CallerSound(k)', reg' = reg,
           \A m \in modules : \E n \in modules' : n.hash = m.hash,
           \A m \in modules' : m = [hash |-> m.hash, module |-> m.module] /\ ModuleSound(m.module),
           \A m, n \in modules' : m.hash = n.hash => m = n
    PROVE  RegistryInv'
  <1>1. DOMAIN caller' = Clones /\ caller'[c] = k /\ \A d \in Clones : d # c => caller'[d] = caller[d]
    BY DEF RegistryInv
  <1>2. ASSUME NEW d \in Clones, d # c PROVE CallerSound(caller[d])'
    <2>1. CallerSound(caller[d]) /\ caller'[d] = caller[d]
      BY <1>1, <1>2 DEF RegistryInv
    <2> QED
      BY <2>1 DEF CallerSound
  <1>3. \A d \in Clones : CallerSound(caller[d])' /\ (caller'[d].pc # "idle" => d \in DOMAIN reg')
    BY <1>1, <1>2 DEF RegistryInv
  <1> QED
    BY <1>1, <1>3 DEF RegistryInv

LEMMA IdleSound == CallerSound(Idle)'
  BY DEF CallerSound, Idle, Thread, NoVariant, VariantSound, NoPath, PathForms, Bases

LEMMA ResolveKeeps ==
    ASSUME RegistryInv, NEW c \in DOMAIN reg, Resolve(c)
    PROVE  RegistryInv' /\ AnswersSound
  <1>1. PICK q \in Requests, a \in (IF JitOn(reg[c]) THEN JitAnswers ELSE {[ok |-> FALSE]}) :
          \E answer \in {ResolveRequest(reg[c], q, a)} :
              /\ answer.ok
              /\ caller' = [caller EXCEPT ![c] = Thread("resolved", answer.variant, NoModule, q.static)]
    BY DEF Resolve
  <1>2. PICK answer, r : /\ r = reg[c] /\ answer = ResolveRequest(r, q, a) /\ answer.ok
                         /\ caller' = [caller EXCEPT ![c] =
                                Thread("resolved", answer.variant, NoModule, q.static)]
    BY <1>1
  <1>3. c \in Clones /\ RegSound(r) /\ DOMAIN caller = Clones /\ reg' = reg /\ modules' = modules
    BY <1>2 DEF RegistryInv, Resolve
  <1>4. AnswerAllowed(a)
    BY <1>1, DocumentsAssumption DEF AnswerAllowed
  <1>5. PICK v, k : v = answer.variant /\ k = Thread("resolved", v, NoModule, q.static)
    OBVIOUS
  <1>6. VariantSound(v)
    BY <1>2, <1>3, <1>4, <1>5, AnswerIsSound DEF SameRequest
  <1>7. CallerSound(k)'
    BY <1>5, <1>6 DEF CallerSound, Thread, VariantSound
  <1>8. RegistryInv'
    <2>1. /\ \A m \in modules : \E n \in modules' : n.hash = m.hash
          /\ \A m \in modules' : m = [hash |-> m.hash, module |-> m.module] /\ ModuleSound(m.module)
          /\ \A m, n \in modules' : m.hash = n.hash => m = n
      BY <1>3 DEF RegistryInv
    <2>2. caller' = [caller EXCEPT ![c] = k]
      BY <1>2, <1>5
    <2> QED
      BY <1>3, <1>7, <2>1, <2>2, ThreadStep
  <1>9. AnswersSound
    <2> SUFFICES ASSUME NEW d \in DOMAIN reg, caller'[d].pc = "resolved", caller[d].pc # "resolved"
                 PROVE  \E p \in {[static |-> caller'[d].asked, op |-> StaticOp[caller'[d].asked],
                            arch |-> caller'[d].variant.arch]} :
                            AnswerSound(caller'[d].variant, p, reg[d])
      BY DEF AnswersSound
    <2>1. d = c /\ caller'[c] = k
      BY <1>2, <1>3, <1>5 DEF RegistryInv
    <2>2. k.variant = v /\ k.asked = q.static
      BY <1>5 DEF Thread
    <2>3. StaticOp[q.static] = q.op
      BY <1>2, <1>3, ResolvedBy
    <2>4. v.arch = q.arch
      <3>1. SameRequest(q, q)
        BY DEF SameRequest
      <3>2. AnswerSound(v, q, r)
        BY <1>2, <1>3, <1>4, <1>5, <3>1, AnswerIsSound
      <3> QED
        BY <3>2 DEF AnswerSound
    <2>5. PICK p : p = [static |-> q.static, op |-> StaticOp[q.static], arch |-> v.arch]
      OBVIOUS
    <2>6. SameRequest(p, q)
      BY <2>3, <2>4, <2>5 DEF SameRequest
    <2>7. AnswerSound(v, p, r)
      BY <1>2, <1>3, <1>4, <1>5, <2>6, AnswerIsSound
    <2> QED
      BY <1>2, <2>1, <2>2, <2>5, <2>7
  <1> QED
    BY <1>8, <1>9

\* Every other step of a thread leaves it at a place that is not an answer.
LEMMA OtherStep ==
    ASSUME RegistryInv, NEW c \in Clones, NEW k, caller' = [caller EXCEPT ![c] = k],
           k.pc # "resolved"
    PROVE  AnswersSound
  BY DEF AnswersSound, RegistryInv

LEMMA LookUpKeeps ==
    ASSUME RegistryInv, NEW c \in Clones, LookUp(c) PROVE RegistryInv' /\ AnswersSound
  <1>1. PICK v, asked : v = caller[c].variant /\ asked = caller[c].asked
    OBVIOUS
  <1>2. VariantSound(v) /\ reg' = reg /\ modules' = modules /\ c \in DOMAIN reg
    BY <1>1 DEF RegistryInv, CallerSound, LookUp
  <1>3. \E k : /\ caller' = [caller EXCEPT ![c] = k] /\ k.pc # "resolved"
               /\ CallerSound(k)'
    <2>1. CASE ~ caller[c].variant.validated
      <3>1. caller' = [caller EXCEPT ![c] = Idle]
        BY <2>1 DEF LookUp
      <3>2. Idle.pc # "resolved"
        BY DEF Idle, Thread
      <3> QED
        BY <3>1, <3>2, IdleSound
    <2>2. CASE caller[c].variant.validated /\ CachedModules(caller[c].variant.hash) # {}
      <3>1. PICK m \in CachedModules(caller[c].variant.hash) :
                caller' = [caller EXCEPT ![c] = Proceed(c, "loaded", m.module)]
        BY <2>2 DEF LookUp
      <3>2. PICK k : k = Thread("loaded", v, m.module, asked)
        OBVIOUS
      <3>3. caller' = [caller EXCEPT ![c] = k]
        BY <1>1, <3>1, <3>2 DEF Proceed
      <3>4. m \in modules /\ m.hash = v.hash /\ ModuleSound(m.module)
        BY <1>1, <3>1 DEF CachedModules, RegistryInv
      <3>5. k.pc = "loaded" /\ CallerSound(k)'
        BY <1>2, <3>2, <3>4 DEF CallerSound, Thread, VariantSound
      <3> QED
        BY <3>3, <3>5
    <2>3. CASE caller[c].variant.validated /\ CachedModules(caller[c].variant.hash) = {}
      <3>1. PICK k : k = Thread("missed", v, NoModule, asked)
        OBVIOUS
      <3>2. caller' = [caller EXCEPT ![c] = k]
        BY <1>1, <2>3, <3>1 DEF LookUp, Proceed
      <3>3. k.pc = "missed" /\ CallerSound(k)'
        BY <1>2, <3>1 DEF CallerSound, Thread, VariantSound
      <3> QED
        BY <3>2, <3>3
    <2> QED
      BY <2>1, <2>2, <2>3
  <1>4. /\ \A m \in modules : \E n \in modules' : n.hash = m.hash
        /\ \A m \in modules' : m = [hash |-> m.hash, module |-> m.module] /\ ModuleSound(m.module)
        /\ \A m, n \in modules' : m.hash = n.hash => m = n
    BY <1>2 DEF RegistryInv
  <1> QED
    BY <1>2, <1>3, <1>4, ThreadStep, OtherStep

\* A file is read only from inside a known base.
LEMMA FetchKeeps ==
    ASSUME RegistryInv, NEW c \in Clones, Fetch(c) PROVE RegistryInv' /\ AnswersSound
  <1>1. PICK v, asked : v = caller[c].variant /\ asked = caller[c].asked
    OBVIOUS
  <1>2. VariantSound(v) /\ reg' = reg /\ modules' = modules /\ c \in DOMAIN reg
    BY <1>1 DEF RegistryInv, CallerSound, Fetch
  <1>3. \E k : /\ caller' = [caller EXCEPT ![c] = k] /\ k.pc # "resolved"
               /\ CallerSound(k)'
    <2>1. CASE caller' = [caller EXCEPT ![c] = Idle]
      <3>1. Idle.pc # "resolved"
        BY DEF Idle, Thread
      <3> QED
        BY <2>1, <3>1, IdleSound
    <2>2. CASE caller' # [caller EXCEPT ![c] = Idle]
      <3>1. PICK m : m = IF v.bytes THEN [from |-> "memory", path |-> NoPath]
                         ELSE [from |-> BaseOf(reg[c], v), path |-> v.path]
        OBVIOUS
      <3>2. /\ v.bytes \/ Readable(reg[c], v)
            /\ caller' = [caller EXCEPT ![c] = Thread("insert", v, m, asked)]
        BY <1>1, <2>2, <3>1, Zenon DEF Fetch, Proceed
      <3>3. ModuleSound(m)
        <4>1. CASE v.bytes
          BY <3>1, <4>1 DEF ModuleSound, NoPath
        <4>2. CASE ~ v.bytes
          <5>1. Readable(reg[c], v) /\ m.from = BaseOf(reg[c], v) /\ m.path = v.path
            BY <3>1, <3>2, <4>2
          <5>2. BaseOf(reg[c], v) \in Bases
            BY <1>2 DEF RegistryInv, RegSound, VariantSound, BaseOf
          <5> QED
            BY <1>2, <5>1, <5>2
            DEF Readable, ModuleSound, VariantSound, Bases, SafePath, PathForms
        <4> QED
          BY <4>1, <4>2
      <3>4. PICK k : k = Thread("insert", v, m, asked)
        OBVIOUS
      <3>5. k.pc = "insert" /\ CallerSound(k)'
        BY <1>2, <3>3, <3>4 DEF CallerSound, Thread, VariantSound
      <3> QED
        BY <3>2, <3>4, <3>5
    <2> QED
      BY <2>1, <2>2
  <1>4. /\ \A m \in modules : \E n \in modules' : n.hash = m.hash
        /\ \A m \in modules' : m = [hash |-> m.hash, module |-> m.module] /\ ModuleSound(m.module)
        /\ \A m, n \in modules' : m.hash = n.hash => m = n
    BY <1>2 DEF RegistryInv
  <1> QED
    BY <1>2, <1>3, <1>4, ThreadStep, OtherStep

\* Whichever of two concurrent loads inserts last, the cache keeps one module
\* for each hash it ever held.
LEMMA CacheKept ==
    ASSUME RegistryInv, NEW hash, NEW module, ModuleSound(module),
           modules' = CacheModule(hash, module)
    PROVE  /\ \A m \in modules : \E n \in modules' : n.hash = m.hash
           /\ \E n \in modules' : n.hash = hash
           /\ \A m \in modules' : m = [hash |-> m.hash, module |-> m.module] /\ ModuleSound(m.module)
           /\ \A m, n \in modules' : m.hash = n.hash => m = n
  <1>1. PICK entry : entry = [hash |-> hash, module |-> module]
    OBVIOUS
  <1>2. /\ entry.hash = hash /\ entry.module = module
        /\ entry = [hash |-> entry.hash, module |-> entry.module]
    BY <1>1
  <1>3. modules' = {m \in modules : m.hash # hash} \cup {entry}
    BY <1>1 DEF CacheModule
  <1> QED
    BY <1>2, <1>3 DEF RegistryInv

LEMMA InsertKeeps ==
    ASSUME RegistryInv, NEW c \in Clones, Insert(c) PROVE RegistryInv' /\ AnswersSound
  <1>1. PICK v, asked, m : v = caller[c].variant /\ asked = caller[c].asked /\ m = caller[c].module
    OBVIOUS
  <1>2. VariantSound(v) /\ ModuleSound(m) /\ reg' = reg /\ c \in DOMAIN reg
    BY <1>1 DEF RegistryInv, CallerSound, Insert
  <1>3. modules' = CacheModule(v.hash, m)
    BY <1>1 DEF Insert
  <1>4. PICK k : k = Thread("loaded", v, m, asked)
    OBVIOUS
  <1>5. caller' = [caller EXCEPT ![c] = k]
    BY <1>1, <1>4 DEF Insert, Proceed
  <1>6. /\ \A x \in modules : \E n \in modules' : n.hash = x.hash
        /\ \E n \in modules' : n.hash = v.hash
        /\ \A x \in modules' : x = [hash |-> x.hash, module |-> x.module] /\ ModuleSound(x.module)
        /\ \A x, n \in modules' : x.hash = n.hash => x = n
    BY <1>2, <1>3, CacheKept
  <1>7. k.pc = "loaded" /\ CallerSound(k)'
    BY <1>2, <1>4, <1>6 DEF CallerSound, Thread, VariantSound
  <1> QED
    BY <1>2, <1>5, <1>6, <1>7, ThreadStep, OtherStep

LEMMA InsertLoadedModuleKeeps ==
    ASSUME RegistryInv, NEW c \in Clones, InsertLoadedModule(c) PROVE RegistryInv' /\ AnswersSound
  <1>1. PICK h, m : h = caller[c].variant.hash /\ m = caller[c].module
    OBVIOUS
  <1>2. ModuleSound(m) /\ reg' = reg /\ caller' = caller
    BY <1>1 DEF RegistryInv, CallerSound, InsertLoadedModule
  <1>3. modules' = CacheModule(h, m)
    BY <1>1 DEF InsertLoadedModule
  <1>4. /\ \A x \in modules : \E n \in modules' : n.hash = x.hash
        /\ \A x \in modules' : x = [hash |-> x.hash, module |-> x.module] /\ ModuleSound(x.module)
        /\ \A x, n \in modules' : x.hash = n.hash => x = n
    BY <1>2, <1>3, CacheKept
  <1>5. \A d \in Clones : CallerSound(caller[d])'
    BY <1>2, <1>4 DEF RegistryInv, CallerSound
  <1>6. RegistryInv'
    BY <1>2, <1>4, <1>5 DEF RegistryInv
  <1> QED
    BY <1>2, <1>6 DEF AnswersSound

LEMMA RegistryNextKeeps ==
    ASSUME RegistryInv, RegistryNext PROVE RegistryInv' /\ AnswersSound
  <1>1. ASSUME NEW c \in Clones, NEW d \in Clones, CloneRegistry(c, d)
        PROVE  RegistryInv' /\ AnswersSound
    BY <1>1, CloneKeeps DEF AnswersSound, CloneRegistry
  <1>2. ASSUME NEW c \in DOMAIN reg,
               ConfigMut(c) \/ RegisterJit(c) \/ LoadBundle(c) \/ SetManifest(c) \/ LoadTune(c)
        PROVE  RegistryInv' /\ AnswersSound
    <2>1. RegistryInv'
      BY <1>2, ConfigurationKeeps
    <2>2. \E r : Edit(c, r)
      <3>1. CASE ConfigMut(c) \/ RegisterJit(c) \/ LoadBundle(c) \/ SetManifest(c)
        BY <3>1, Zenon DEF ConfigMut, RegisterJit, LoadBundle, SetManifest
      <3>2. CASE LoadTune(c)
        BY <3>2 DEF LoadTune, LoadTuneFile
      <3> QED
        BY <1>2, <3>1, <3>2
    <2>3. caller' = caller
      BY <2>2 DEF Edit
    <2> QED
      BY <2>1, <2>3 DEF AnswersSound
  <1>3. ASSUME NEW c \in DOMAIN reg, Resolve(c) PROVE RegistryInv' /\ AnswersSound
    BY <1>3, ResolveKeeps
  <1>4. ASSUME NEW c \in Clones, LookUp(c) \/ Fetch(c) \/ Insert(c) \/ InsertLoadedModule(c)
        PROVE  RegistryInv' /\ AnswersSound
    BY <1>4, LookUpKeeps, FetchKeeps, InsertKeeps, InsertLoadedModuleKeeps
  <1> QED
    BY <1>1, <1>2, <1>3, <1>4 DEF RegistryNext

-------------------------------------------------------------------------------
(* Launch lists                                                            *)

Replays(l) == [of : {l}, launched : Seq(LaunchEntries), started : Nat, ended : Nat, ok : BOOLEAN]

\* After i entries of the list: some prefix was launched, all of it unless an
\* error stopped the replay, and no profile event is open.
ReplaySound(d, l, i) ==
    /\ d \in Replays(l)
    /\ d.started = d.ended
    /\ \E p \in 0..i : d.launched = SubSeq(l, 1, p) /\ (d.ok => p = i)

Outcomes == [start : BOOLEAN, launch : BOOLEAN, end : BOOLEAN]

LEMMA DispatchTyped ==
    ASSUME NEW l, NEW d \in Replays(l), NEW e \in LaunchEntries, NEW sink \in BOOLEAN,
           NEW out \in Outcomes
    PROVE  DispatchLaunch(d, e, sink, out) \in Replays(l)
  <1>1. d.launched \in Seq(LaunchEntries) /\ Append(d.launched, e) \in Seq(LaunchEntries)
    BY DEF Replays
  <1>2. d.started \in Nat /\ d.ended \in Nat /\ d.of = l
    BY DEF Replays
  <1> DEFINE reached == sink => out.start
             launched == IF reached /\ out.launch THEN Append(d.launched, e) ELSE d.launched
             marks == IF sink /\ out.start THEN 1 ELSE 0
             ok == reached /\ out.launch /\ (sink => out.end)
  <1>3. DispatchLaunch(d, e, sink, out)
          = [of |-> d.of, launched |-> launched, started |-> d.started + marks,
             ended |-> d.ended + marks, ok |-> ok]
    BY DEF DispatchLaunch
  <1>4. launched \in Seq(LaunchEntries)
    BY <1>1
  <1>5. marks \in Nat
    OBVIOUS
  <1>6. ok \in BOOLEAN
    OBVIOUS
  <1> HIDE DEF launched, marks, ok
  <1>7. d.started + marks \in Nat /\ d.ended + marks \in Nat
    BY <1>2, <1>5
  <1> QED
    BY <1>2, <1>3, <1>4, <1>6, <1>7 DEF Replays

LEMMA DispatchSound ==
    ASSUME NEW l \in Seq(LaunchEntries), NEW i \in Nat, i + 1 <= Len(l), NEW d,
           ReplaySound(d, l, i), d.ok, NEW sink \in BOOLEAN, NEW out \in Outcomes
    PROVE  ReplaySound(DispatchLaunch(d, l[i+1], sink, out), l, i + 1)
  <1>1. l[i+1] \in LaunchEntries
    OBVIOUS
  <1>2. DispatchLaunch(d, l[i+1], sink, out) \in Replays(l)
    BY <1>1, DispatchTyped DEF ReplaySound
  <1>3. d.launched = SubSeq(l, 1, i) /\ d.started = d.ended
    BY DEF ReplaySound
  <1>4. Append(SubSeq(l, 1, i), l[i+1]) = SubSeq(l, 1, i + 1)
    OBVIOUS
  <1>5. PICK r : r = DispatchLaunch(d, l[i+1], sink, out)
    OBVIOUS
  <1>6. r.started = r.ended
    BY <1>3, <1>5 DEF DispatchLaunch
  <1>7. /\ r.launched \in {SubSeq(l, 1, i), SubSeq(l, 1, i + 1)}
        /\ r.ok => r.launched = SubSeq(l, 1, i + 1)
    BY <1>3, <1>4, <1>5 DEF DispatchLaunch
  <1>8. \E p \in 0..(i+1) : r.launched = SubSeq(l, 1, p) /\ (r.ok => p = i + 1)
    <2>1. CASE r.launched = SubSeq(l, 1, i + 1)
      BY <2>1
    <2>2. CASE r.launched # SubSeq(l, 1, i + 1)
      BY <1>7, <2>2
    <2> QED
      BY <2>1, <2>2
  <1> QED
    BY <1>2, <1>5, <1>6, <1>8 DEF ReplaySound

LEMMA ReplayWithSound ==
    ASSUME list \in Seq(LaunchEntries), NEW sink \in BOOLEAN, NEW outs \in [DOMAIN list -> Outcomes]
    PROVE  ReplaySound(ReplayWith(sink, outs), list, Len(list))
  <1>1. PICK l : l = list
    OBVIOUS
  <1> DEFINE n == Len(l)
             S == Replays(l)
             base == NoReplay(l)
             Next1(i, prev) == IF prev.ok THEN DispatchLaunch(prev, l[i], sink, outs[i]) ELSE prev
             step == [i \in 1..n |-> [prev \in S |-> Next1(i, prev)]]
             IsAt(u) == u = [i \in 0..n |-> IF i = 0 THEN base ELSE Next1(i, u[i-1])]
             at == CHOOSE u : IsAt(u)
  <1>2. n \in Nat /\ l \in Seq(LaunchEntries) /\ DOMAIN l = 1..n
    BY <1>1
  <1>3. ReplayWith(sink, outs) = at[n]
    BY <1>1 DEF ReplayWith
  <1>4. base \in S /\ ReplaySound(base, l, 0)
    <2>1. base \in S
      BY DEF NoReplay, Replays
    <2>2. base.started = base.ended /\ base.launched = <<>>
      BY DEF NoReplay
    <2>3. SubSeq(l, 1, 0) = <<>>
      BY <1>2
    <2> QED
      BY <2>1, <2>2, <2>3 DEF ReplaySound
  <1>5. \A i \in 1..n : l[i] \in LaunchEntries /\ outs[i] \in Outcomes
    BY <1>1, <1>2
  <1> HIDE DEF n, S, base
  <1>6. ASSUME NEW i \in 1..n, NEW prev \in S PROVE Next1(i, prev) \in S
    BY <1>5, DispatchTyped DEF S
  <1> HIDE DEF Next1
  <1>7. step \in [1..n -> [S -> S]]
    BY <1>6
  <1>8. \E u : IsAt(u)
    <2> HIDE DEF step
    <2>1. PICK f \in [0..n -> S] : Recursive(f, base, n, step)
      BY <1>2, <1>4, <1>7, RecursionExists
    <2>2. f[0] = base /\ \A i \in 1..n : f[i] = step[i][f[i-1]]
      BY <2>1 DEF Recursive
    <2>3. ASSUME NEW i \in 1..n PROVE f[i] = Next1(i, f[i-1])
      <3>1. i - 1 \in 0..n
        BY <1>2
      <3> QED
        BY <3>1, <2>1, <2>2 DEF step
    <2>4. \A i \in 0..n : i # 0 => i \in 1..n
      BY <1>2
    <2>5. f = [i \in 0..n |-> IF i = 0 THEN base ELSE Next1(i, f[i-1])]
      BY <2>1, <2>2, <2>3, <2>4
    <2> QED
      BY <2>5
  <1>9. IsAt(at)
    <2> HIDE DEF IsAt
    <2> QED
      BY <1>8
  <1>10. at[0] = base /\ \A i \in 1..n : at[i] = Next1(i, at[i-1])
    <2> DEFINE body == [i \in 0..n |-> IF i = 0 THEN base ELSE Next1(i, at[i-1])]
    <2>1. at = body
      <3> HIDE DEF at
      <3> QED
        BY <1>9
    <2> HIDE DEF at
    <2>2. body[0] = base /\ \A i \in 1..n : body[i] = Next1(i, at[i-1])
      BY <1>2
    <2> HIDE DEF body
    <2> QED
      BY <2>1, <2>2
  <1> HIDE DEF at
  <1> DEFINE T == {i \in Nat : i <= n => ReplaySound(at[i], l, i)}
  <1>11. 0 \in T
    BY <1>4, <1>10
  <1>12. ASSUME NEW i \in T PROVE i + 1 \in T
    <2> SUFFICES ASSUME i + 1 <= n PROVE ReplaySound(at[i+1], l, i + 1)
      OBVIOUS
    <2>1. i \in Nat /\ ReplaySound(at[i], l, i)
      BY <1>2
    <2>2. i + 1 \in 1..n /\ (i + 1) - 1 = i
      BY <1>2, <2>1
    <2>3. at[i+1] = Next1(i + 1, at[i])
      BY <1>10, <2>2
    <2>4. PICK d : d = at[i]
      OBVIOUS
    <2>5. CASE d.ok
      <3>1. outs[i+1] \in Outcomes /\ i + 1 <= Len(l)
        BY <1>5, <2>2 DEF n
      <3>2. at[i+1] = DispatchLaunch(d, l[i+1], sink, outs[i+1])
        BY <2>3, <2>4, <2>5 DEF Next1
      <3> QED
        BY <1>2, <2>1, <2>4, <2>5, <3>1, <3>2, DispatchSound
    <2>6. CASE ~ d.ok
      <3>1. at[i+1] = d
        BY <2>3, <2>4, <2>6 DEF Next1
      <3> QED
        BY <2>1, <2>4, <2>6, <3>1 DEF ReplaySound
    <2> QED
      BY <2>5, <2>6
  <1>13. n \in T
    <2>1. T \in SUBSET Nat
      OBVIOUS
    <2> HIDE DEF T
    <2> QED
      BY <1>2, <1>11, <1>12, <2>1, SetInduction
  <1> QED
    BY <1>1, <1>2, <1>3, <1>13 DEF n

LaunchInv == list \in Seq(LaunchEntries) /\ LaunchSound

LEMMA PrefixReplayed ==
    ASSUME NEW l \in Seq(LaunchEntries), NEW d, ReplaySound(d, l, Len(l))
    PROVE  /\ d.started = d.ended
           /\ IsPrefix(d.launched, d.of)
           /\ d.ok => d.launched = d.of
  <1>1. PICK p \in 0..Len(l) : d.launched = SubSeq(l, 1, p) /\ (d.ok => p = Len(l))
    BY DEF ReplaySound
  <1>2. d.of = l /\ d.started = d.ended
    BY DEF ReplaySound, Replays
  <1>3. PICK s : s = SubSeq(l, 1, p)
    OBVIOUS
  <1>4. p \in Nat /\ p <= Len(l)
    OBVIOUS
  <1>5. s \in Seq(LaunchEntries) /\ Len(s) = p
    BY <1>3, <1>4
  <1>6. SubSeq(s, 1, Len(s)) = s /\ SubSeq(l, 1, Len(l)) = l
    BY <1>5
  <1>7. IsPrefix(s, l)
    BY <1>3, <1>4, <1>5, <1>6 DEF IsPrefix
  <1> QED
    BY <1>1, <1>2, <1>3, <1>6, <1>7

LEMMA LaunchInvInit == RegistryInit => LaunchInv
  <1> SUFFICES ASSUME RegistryInit PROVE LaunchInv
    OBVIOUS
  <1>1. list = <<>> /\ replayed = NoReplay(<<>>)
    BY DEF RegistryInit
  <1>2. /\ replayed.started = 0 /\ replayed.ended = 0 /\ replayed.launched = <<>>
        /\ replayed.of = <<>>
    BY <1>1 DEF NoReplay
  <1>3. IsPrefix(<<>>, <<>>)
    BY DEF IsPrefix
  <1> QED
    BY <1>1, <1>2, <1>3 DEF LaunchInv, LaunchSound

LEMMA LaunchNextKeeps ==
    ASSUME LaunchInv, LaunchNext PROVE LaunchInv'
  <1>1. CASE RecordLaunch
    <2>1. PICK entry \in LaunchEntries : list' = Append(list, entry)
      BY <1>1 DEF RecordLaunch
    <2>2. list' \in Seq(LaunchEntries)
      BY <2>1 DEF LaunchInv
    <2>3. replayed' = replayed
      BY <1>1 DEF RecordLaunch
    <2> QED
      BY <2>2, <2>3 DEF LaunchInv, LaunchSound
  <1>2. CASE ClearLaunches
    BY <1>2 DEF ClearLaunches, LaunchInv, LaunchSound
  <1>3. CASE Replay
    <2>1. PICK sink \in BOOLEAN, outs \in [DOMAIN list -> Outcomes] : replayed' = ReplayWith(sink, outs)
      BY <1>3 DEF Replay, Outcomes
    <2>2. list' = list /\ list \in Seq(LaunchEntries)
      BY <1>3 DEF Replay, LaunchInv
    <2>3. PICK l, d : l = list /\ d = ReplayWith(sink, outs)
      OBVIOUS
    <2>4. ReplaySound(d, l, Len(l))
      BY <2>2, <2>3, ReplayWithSound
    <2>5. /\ d.started = d.ended
          /\ IsPrefix(d.launched, d.of)
          /\ d.ok => d.launched = d.of
      BY <2>2, <2>3, <2>4, PrefixReplayed
    <2>6. replayed' = d
      BY <2>1, <2>3
    <2> QED
      BY <2>2, <2>5, <2>6 DEF LaunchInv, LaunchSound
  <1> QED
    BY <1>1, <1>2, <1>3 DEF LaunchNext

-------------------------------------------------------------------------------
(* The specification                                                       *)

LEMMA InvIsModulesSound == RegistryInv => ModulesSound
  <1> SUFFICES ASSUME RegistryInv PROVE ModulesSound
    OBVIOUS
  <1>1. \A m \in modules : /\ m.module.from \in BaseDirs \cup {"memory"}
                           /\ m.module.path.form \in {"inside", Absent}
    BY DEF RegistryInv, ModuleSound
  <1>2. ASSUME NEW c \in Clones, caller[c].pc = "loaded"
        PROVE  CachedModules(caller[c].variant.hash) # {}
    BY <1>2 DEF RegistryInv, CallerSound, CachedModules
  <1>3. \A m, n \in modules : m.hash = n.hash => m = n
    BY DEF RegistryInv
  <1> QED
    BY <1>1, <1>2, <1>3 DEF ModulesSound

LEMMA RegistryStep ==
    ASSUME RegistryInv, LaunchInv,
           \/ RegistryNext /\ UNCHANGED launchVars
           \/ LaunchNext /\ UNCHANGED registryVars
    PROVE  RegistryInv' /\ LaunchInv' /\ AnswersSound
  <1>1. CASE RegistryNext /\ UNCHANGED launchVars
    <2>1. RegistryInv' /\ AnswersSound
      BY <1>1, RegistryNextKeeps
    <2>2. LaunchInv'
      BY <1>1 DEF launchVars, LaunchInv, LaunchSound
    <2> QED
      BY <2>1, <2>2
  <1>2. CASE LaunchNext /\ UNCHANGED registryVars
    <2>1. LaunchInv'
      BY <1>2, LaunchNextKeeps
    <2>2. reg' = reg /\ modules' = modules /\ caller' = caller
      BY <1>2 DEF registryVars
    <2>3. \A c \in Clones : CallerSound(caller[c])'
      BY <2>2 DEF RegistryInv, CallerSound
    <2>4. RegistryInv'
      BY <2>2, <2>3 DEF RegistryInv
    <2> QED
      BY <2>1, <2>2, <2>4 DEF AnswersSound
  <1> QED
    BY <1>1, <1>2

\* Registry::resolve answers with the variant its order promises on what this
\* registry holds; load_module, whatever the interleaving of the clones that
\* share the cache, reads only from memory or from a file inside its base and
\* leaves one module per hash; LaunchList::replay launches a prefix of its
\* list, all of it when it succeeds, and ends every profile event it started.
THEOREM RegistrySoundHolds == RegistrySpec => RegistrySound
  <1>1. RegistryInit => RegistryInv /\ LaunchInv
    BY RegistryInvInit, LaunchInvInit
  <1>2. ASSUME RegistryInv, LaunchInv,
               [\/ RegistryNext /\ UNCHANGED launchVars
                \/ LaunchNext /\ UNCHANGED registryVars]_<<registryVars, launchVars>>
        PROVE  /\ RegistryInv' /\ LaunchInv'
               /\ [AnswersSound /\ ModulesSound' /\ LaunchSound']_<<registryVars, launchVars>>
    <2>1. CASE \/ RegistryNext /\ UNCHANGED launchVars
               \/ LaunchNext /\ UNCHANGED registryVars
      <3>1. RegistryInv' /\ LaunchInv' /\ AnswersSound
        BY <1>2, <2>1, RegistryStep
      <3>2. ModulesSound'
        BY <3>1, InvIsModulesSound, PTL
      <3>3. LaunchSound'
        BY <3>1 DEF LaunchInv
      <3> QED
        BY <3>1, <3>2, <3>3
    <2>2. CASE UNCHANGED <<registryVars, launchVars>>
      <3>1. /\ reg' = reg /\ modules' = modules /\ caller' = caller
            /\ list' = list /\ replayed' = replayed
        BY <2>2 DEF registryVars, launchVars
      <3>2. \A c \in Clones : CallerSound(caller[c])'
        BY <1>2, <3>1 DEF RegistryInv, CallerSound
      <3>3. RegistryInv' /\ LaunchInv'
        BY <1>2, <3>1, <3>2 DEF RegistryInv, LaunchInv, LaunchSound
      <3> QED
        BY <2>2, <3>3
    <2> QED
      BY <1>2, <2>1, <2>2
  <1> QED
    BY <1>1, <1>2, PTL DEF RegistrySpec, RegistrySound

=============================================================================
