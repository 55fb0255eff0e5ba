------------------------------- MODULE MCDevice -------------------------------
(***************************************************************************)
(* Model-checking the device side: allocations charged to the budget, the  *)
(* event chain of a step, the step device that drives it, the kernel       *)
(* registry and launch lists.  A behaviour exercises one of the parts, the *)
(* others keep their initial state.                                        *)
(***************************************************************************)
EXTENDS AllocationBudget, StepDevice, Registry

CONSTANTS a1, a2,
    ChainSteps,     \* steps of a behaviour of the event chain alone
    ChainEvents     \* events left to its counter

VARIABLE part

MCOwners == {a1, a2}

\* Two keys: k1 is warm, k2 is captured lazily and needs more workspace.
Op(sizes) == [keys |-> {"k1", "k2", "k3"}, resolves |-> TRUE, has_args |-> TRUE,
              sample |-> FALSE, workspace |-> sizes, has_slot |-> TRUE, slot |-> 0, blob |-> 16]

Needs(a, b, c) == [k \in Keys |-> IF k = "k1" THEN a ELSE IF k = "k2" THEN b ELSE c]

Sample == [Op(Needs(0, 0, 0)) EXCEPT !.sample = TRUE]

\* Programs that differ in what the lazily captured keys need.
MCPrograms ==
    {<<Op(Needs(a, b, c)), Op(Needs(1, 3, 1)), Sample>> : a \in {1}, b \in {3}, c \in {5}}
    \cup {<<Op(Needs(1, 9, 1)), Sample>>}                            \* grows past WordMax
    \cup {<<Sample, [Op(Needs(0, 2, 0)) EXCEPT !.slot = s, !.blob = 12]>> : s \in {4, 8}}
    \cup {<<[Sample EXCEPT !.keys = {"k1"}]>>,                       \* no launch for k2
          <<Sample, [Op(Needs(0, 1, 2)) EXCEPT !.keys = {"k1", "k2"}, !.has_slot = FALSE]>>,
          <<Sample, [Op(Needs(0, 1, 1)) EXCEPT !.keys = {"k2"}, !.resolves = FALSE]>>,
          <<Op(Needs(0, 0, 0))>>}

\* A chain on its own is an old one: its counter, which no step resets, has
\* ChainEvents ids left.
OldChain ==
    /\ event_counter = EventLimit - ChainEvents
    /\ current_step = None /\ records = <<>> /\ held = {}
    /\ program = <<Sample>> /\ arena = NewArena(CHOOSE c \in Capacities : TRUE)
    /\ graphs = [k \in Keys |-> NoGraph] /\ arena_generation = arena.generation
    /\ log = NewRing /\ dpc = "idle" /\ step_counter = 0 /\ key = (CHOOSE k \in Keys : TRUE)
    /\ slices = <<>> /\ completed = <<>>

\* Registry documents: two generations, an unvalidated T2 entry, an entry
\* without an op, a path through a link, and documents that are refused.
HashOf(op, arch, s, g, c) == [op |-> op, arch |-> arch, static |-> s, gen |-> g, config |-> c]
File(form, dir) == [form |-> form, dir |-> dir]
Row(k, e) == [key |-> k, entry |-> e]
Variant(tier, arch, op, s, path, ok) ==
    [tier |-> tier, arch |-> arch, op |-> op, static |-> s, path |-> path,
     validated |-> ok, launchable |-> TRUE]
ManifestDoc(g, archs, table) ==
    [fields |-> <<"gen_version", "archs", "variants">>, gen |-> g, archs |-> archs, table |-> table]
T2A(g) == Row(HashOf("matmul", "gfxA", "s1", g, "c1"),
              Variant("T2", "gfxA", "matmul", "s1", File("inside", "gfxA"), TRUE))
T1A == Row(HashOf("matmul", "gfxA", "none", 1, "t1"),
           Variant("T1", "gfxA", "matmul", "none", File("inside", "none"), TRUE))

MCManifestDocs ==
    {ManifestDoc(g, <<"gfxA">>, <<T2A(g), T1A>>) : g \in {1, 2}}
    \cup {ManifestDoc(1, <<"gfxA", "gfxB">>,
            <<[T2A(1) EXCEPT !.entry.validated = FALSE], T1A,
              Row(HashOf("norm", "gfxA", "s2", 1, "c1"),
                  Variant("T2", "gfxA", "none", "s2", File("linked", "none"), TRUE)),
              Row(HashOf("matmul", "gfxB", "s1", 1, "t1"),
                  Variant("T1", "gfxB", "matmul", "s1", File("inside", "gfxB"), FALSE))>>),
          ManifestDoc(1, <<"gfxA">>, <<[T2A(1) EXCEPT !.entry.path.dir = "gfxB"]>>),
          [ManifestDoc(1, <<"gfxA">>, <<T2A(1)>>) EXCEPT !.fields = Append(@, "archs")]}

TuneDoc(g, config, path) ==
    [fields |-> <<"arch", "gen_version", "entries">>, gen |-> g, arch |-> "gfxA",
     table |-> <<Row([op |-> "matmul", static |-> "s1"],
                     [config |-> config, path |-> path, validated |-> TRUE, launchable |-> TRUE])>>]

MCTuneDocs ==
    {TuneDoc(g, "c2", File("inside", "none")) : g \in {1, 2}}
    \cup {TuneDoc(1, "c3", NoPath), TuneDoc(1, "zero", File("inside", "none"))}

Jit(ok, origin, path, bytes) ==
    [ok |-> TRUE, validated |-> ok, origin |-> origin, path |-> path, bytes |-> bytes]

MCJitAnswers ==
    {[ok |-> FALSE], Jit(TRUE, "none", NoPath, TRUE), Jit(FALSE, "none", NoPath, TRUE),
     Jit(TRUE, "none", File("linked", "none"), FALSE), Jit(TRUE, "local", File("inside", "none"), FALSE),
     Jit(TRUE, "shipped", File("inside", "none"), FALSE)}

MCRequests ==
    [op : {"matmul"}, arch : {"gfxA", "gfxB"}, static : {"s1"}]
    \cup [op : {"norm"}, arch : {"gfxA"}, static : {"s1", "s2"}]

MCStaticOp == [s1 |-> "matmul", s2 |-> "norm"]

BudgetIdle == DeviceInit /\ program = <<[Sample EXCEPT !.keys = {"k1"}]>>

RegistryIdle == RegistryInit /\ reg[Founder] = NewRegistry(1, TRUE)

PartInit ==
    /\ BudgetInit
    /\ \/ part = "chain" /\ OldChain /\ RegistryIdle
       \/ part = "device" /\ DeviceInit /\ RegistryIdle
       \/ part \in {"budget", "launch"} /\ BudgetIdle /\ RegistryIdle
       \/ part = "registry" /\ BudgetIdle /\ RegistryInit /\ reg[Founder].gen = 1

ChainAlone == <<program, arenaVars, cacheVars, log, dpc, key, step_counter, completed>>

PartNext ==
    /\ UNCHANGED part
    /\ \/ part = "budget" /\ BudgetNext /\ UNCHANGED <<deviceVars, registryVars, launchVars>>
       \/ /\ part = "chain" /\ ChainNext /\ current_step' \in ChainSteps \cup {None}
          /\ UNCHANGED <<budgetVars, ChainAlone, registryVars, launchVars>>
       \/ part = "device" /\ DeviceNext /\ UNCHANGED <<budgetVars, registryVars, launchVars>>
       \/ part = "registry" /\ RegistryNext /\ UNCHANGED <<budgetVars, deviceVars, launchVars>>
       \/ part = "launch" /\ LaunchNext /\ UNCHANGED <<budgetVars, deviceVars, registryVars>>

PartSpec == PartInit /\ [][PartNext]_<<part, budgetVars, deviceVars, registryVars, launchVars>>
=============================================================================
