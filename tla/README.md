# TLA+ models of the R9V engine

This directory holds TLA+ specifications of the Rust engine in `crates/`: who owns
which piece of device memory and which request runs next (`r9v-state`,
`r9v-sched`, `r9v-hip`), how a step is put together and validated (`r9v-ir`,
`r9v-registry`), what is read from files (`r9v-format`), what the reference
kernels read and write (`r9v-t0`) and what text comes out (`r9v-sched`,
`r9v-loader`). TLC checks them on small instances; TLAPS proves, for every
instance, what the manager, the device memory behind it, the scheduler, the batch
and the device phase of a step, the stop tail, the streaming detokenizer, the
allocation budget and the kernel registry promise.

## 1. Inventory

R9V is two things in one repository: a Rust workspace (`crates/`) with a new
inference engine, and an overlay of a vLLM-based runtime with Python tools that
set it up. Five crates (`r9v-serve`, `r9v-spec`, `r9v-part`, `r9v-obs`,
`r9v-helper`) are empty at this commit.

| Component | State it keeps | Operations | What makes it correct |
|---|---|---|---|
| State manager, `r9v-state/src/manager.rs` | free block set per paged group, block tables, fixed slots and A/B parity, `ctx_len`, open tail, token mirror | `new_seq`, `reserve`, `write_tokens`, `compact`, `commit`, `free_seq` | every block and slot owned once; attended positions mapped; verified tokens final; a lone sequence always fits |
| Device memory behind it | KV blocks, recurrent buffers | forward pass, compaction kernel, re-run | each sequence reads back its own history |
| Batch metadata, `manager.rs`, `r9v-ir/src/batch.rs` | one reused workspace of flat buffers, a tree in two places | two fill paths, the owned builder, tree checks | a kernel reads each sequence's own slots; a refused fill changes nothing |
| Scheduler, `r9v-sched/src/scheduler.rs`, `cost.rs`, `types.rs` | queue, active and paused slot, pause report, finished map, step counter, in-flight step | `enqueue_request`, `cancel_sequence`, `step`, `abort_open_reservation`, `take_finished_result` | nothing lost, nothing committed twice, first come first served, every request finishes |
| Graph cache, arena, event chain, log, `graph.rs`, `arena.rs`, `streams.rs`, `log.rs` | captured graphs, arena capacity and generation, events of the step, ring of records | `get_or_capture`, `grow`, `allocate_slice`, `record_*`, `validate_step_chain`, `push` | graphs of one generation, disjoint slices, upload before compute before readback |
| Allocation budget, `r9v-hip/src/budget.rs` | bytes in use (atomic) | `reserve`, `release` by many threads | sum of live allocations never passes the limit |
| Detokenizers and stop tail, `r9v-sched/src/types.rs`, `r9v-loader/src/detokenizer.rs` | buffered bytes, bounded tail, byte spans, held text | `append_token`, `append_generated_token`, `push`, `finish` | incremental equals batch; cut at the match start |
| Op IR, `r9v-ir/src/op.rs`, `tensor.rs`, `sharding.rs`, `graph.rs` | a step graph of nodes, edges and views | 32 validators, sharding rules, builder and rewrites, `materialize_copies` | accepted means executable; shards are accepted; views and copies keep what an input means |
| Kernel registry, `r9v-registry` | manifests, tune entries, module cache shared by clones | load, reconfigure, resolve, load a module, launch lists | the promised variant, from inside its base; statics as the op says |
| Container format, `r9v-format` | writer, parsed file, repacked tensors | `add_kv`, `add_tensor`, `emit`, `parse`, `ShardSet::open`, repacking | no bit moves; what is emitted reads back; what is accepted is sound |
| Reference kernels, `r9v-t0` | caches, staged outputs | KV writes, attentions, matmul, gathers, MoE | every value, scale record and cache row read is the one of that token, row and column |
| Loader, models, kernel generator, configuration | static data | metadata planning, graph building, parsing | functional correctness over large data |
| vLLM overlay, Python tools | processes and files | setup, doctor, downloads | outside the engine |

How they interact: the scheduler owns the manager and calls it directly, in one
thread (`&mut self`). One `step` promotes a sequence, plans, reserves, fills the
batch, runs upload, replay and readback on the executor, then commits, finishes
and logs. Any device call may fail; `fail_step` is the common way back. A host
holding `state_manager_mut()` can own sequences the scheduler does not know,
which is the only source of memory pressure at S = 1. Kernels see the manager
only through the batch workspace: block tables, slot maps and window starts.
Graphs reach kernels through the registry, whose statics are computed from the op
and its operands. Weights reach kernels as the container laid them out.

What is hard here: a step that fails between reserve and commit; a readback or
an event id that belongs to an older step; a cancellation between a pause and
its report; windows that start inside a block; over-reserved blocks of rejected
drafts; reused blocks, slots and workspaces with the former owner's bytes in
them; an arena that grows under captured graphs; threads on one counter and one
module cache; stop strings and code points split over tokens; and the same
address arithmetic written by hand in a dozen places. `PROJECT.json` lists
these as hazards, each at its line with the properties that cover it.

## 2. Modules

| Module | What it models |
|---|---|
| `StateManager`, `MCStateManager` | `manager.rs`: one action per operation, the errors as ordered result operators |
| `StateManagerProofs` | TLAPS proofs about it: types, blocks, slots, windows and the minimum pool |
| `PagedCache`, `MCPagedCache` | `StateManager` composed with the device memory it hands out |
| `PagedCacheProofs` | TLAPS proofs about it |
| `TreeMask`, `TreeWalk` | the tree checks of `batch.rs`; every parent list through them |
| `BatchWorkspace` | `StateManager` composed with the batch metadata read from it |
| `BatchWorkspaceProofs` | TLAPS proofs about it and about `TreeWalk` |
| `KvAttention`, `MCBatch` | `BatchWorkspace` composed with the kernels of `attention.rs` that use it |
| `FifoServer` | the abstract promise of the scheduler to its clients |
| `Scheduler`, `MCScheduler` | the scheduler, which extends `StateManager` and refines `FifoServer` |
| `SchedulerProofs` | TLAPS proofs about it |
| `AtomicBudget` | the abstract promise of the allocation budget: one indivisible ledger |
| `AllocationBudget` | `budget.rs`, at the grain of one counter access or HIP call; refines `AtomicBudget` |
| `EventChain`, `StepDevice` | the event chain; the device phase of a step with graph cache, arena and log |
| `StepDeviceProofs` | TLAPS proofs about both and about `AllocationBudget` |
| `Registry`, `MCDevice` | manifests, tune files, resolution and the shared module cache |
| `RegistryProofs` | TLAPS proofs about it |
| `RecursionProofs` | induction over naturals and recursive functions, for the proofs |
| `StopTail`, `StreamDetokenizer`, `MCText` | text of the scheduler and of the loader |
| `TextProofs` | TLAPS proofs about both |
| `OpTensor`, `OpShapes`, `OpStatics`, `Sharding` | tensors, the 32 validators, the kernel statics, the sharding table |
| `OpCases` | an accepted example of every op and all nodes one edit away |
| `OpGraph`, `MCOps` | the step graph, its builder and its rewrites |
| `TileLayout`, `Repack` | block types, tiles, scale records; repacking as where each bit goes |
| `GgufReader`, `Container` | parsing; writing, editing and shard sets |
| `WeightKernels` | the kernels that decode weights laid out by `TileLayout` |
| `MoeExperts`, `MCFormat` | routing and expert layers on top of `WeightKernels` |

Several small systems share one run: an MC module with a variable `part` that is
chosen in the initial state and never changes; the next-state relation takes the
steps of that part and leaves the variables of the others at one initial value.
Such a run is the union of the runs of its parts. Properties that belong together are
conjunctions of named parts, each with its own comment in the module.

### StateManager

Each map or vector of the code is a function: `tables[s][g][i]` is the block id
at logical index `i` of group `g`, or `NoBlock` (the code stores two parallel
sorted vectors of held indices and ids). Paged pools are sets of free ids
(`BTreeSet`), allocation takes the smallest. A call that the code refuses leaves
the manager unchanged, so it is a stuttering step; `NewSeqResult`,
`ReserveResult`, `WriteResult`, `CompactResult`, `CommitResult` and
`FreeSeqResult` return the error in the order the code tests. A retention rule is
a record: `Window{w}` is a sink window with no sinks. All groups share one size,
as `blocks_per_group` does in the code.

Left out: the scan of `commit` for evicted ids that are out of range or already
free (`manager.rs:2233`; `BlockOwnership` says there are none, and it is proved),
byte offsets and budgets, statistics counters, the sortedness of the
held-index vectors, u64 overflow checks of counters, and batch metadata beyond
the slots and window starts it copies.

### PagedCache

The manager never touches device memory. This module adds it: `kv[g][b][l]`,
written through `FlattenSlot` as the forward pass does through the slot map, and
`rec[g][k]`, the A/B buffers. `log` is a history variable, the tokens the caller
believes in. Kernels are external code and are modelled from the contract of
`fill_slots`, `CompactOp` and `recurrent_buffers`: a run reads the active buffer
(zero state at an empty context) and writes the working one; a commit of tokens
follows a run over exactly those tokens; compaction reads every source before it
writes. Every draft token is distinct per sequence and position, so a mix-up
cannot hide behind equal values. A recurrent state is named by its sequence and
by how many verified tokens it is after, not by the tokens themselves: that a run
is fed the tokens later committed is part of the contract above.

### Scheduler

`pc` is the place inside one call of `step`:
`idle -> reserved -> device -> post -> (finish ->) log -> idle`. Nothing else
runs while `pc # "idle"`, since every operation needs `&mut Scheduler`. Between
the phases a failure may strike: `StepFails` (batch fill, upload, capture,
replay, readback, stale StepId, wrong `accept_len`) and `TokenRejected`
(detokenizer), both through `FailStep`. The step begins with one of five
outcomes, all with promotion included: `StepWait`, `StepReserve`, `StepPause`,
`StepPrefillBlocked`, `StepRefused`.

The cost table is the set `fits` of chunk sizes whose cost fits the room, chosen
once in the initial state: a run therefore covers every cost table over its
buckets. `accumulated_wait_ms` saturates at `max_wait_ms`, the only value it is
compared with. A sampled token is abstracted to what `append_generated_token`
makes of it: continue, end of sequence, stop string with any cut, the last token
of the budget, or a rejection. `OutsideNew`, `OutsideHold` and `OutsideFree` are
a host that uses `state_manager_mut()` for its own sequences, as the tests do to
create memory pressure.

Left out: u64 counter overflow (`step_counter`, `arrival_counter`, `wait_steps`),
errors of the cost table itself, a commit or free that the manager refuses (the
checked invariants show the manager never gives a reason to), step graphs and
events, timing fields of the record.

### FifoServer

A line of waiting requests, the one being served, and uncollected results, with a
capacity. The scheduler refines it with `waiting <- queued`, `serving <-` the
active or else the paused sequence, `results <- finished`. Steps, chunks,
failures, pauses and outside holders all map to stuttering.

### AllocationBudget and AtomicBudget

An owner is a place in some thread that allocates and drops one
`BudgetedDeviceBuffer` after another; a thread with several buffers is several
owners. `pc[a]` walks through `allocate` (`cas`, `malloc`, `held`, or `refused`)
and `drop` (`release`). A step is one access to the shared counter or one HIP call,
with the local computation that follows it: `Allocate` and `CasFails` read the
counter and decide with `Fits`; `CasSucceeds` is the exchange; `CasFails` may also
happen for no reason (`compare_exchange_weak`). `fetch_sub` wraps at the word
width. `resident` and `leaked` are the device memory, external: `hipMalloc` and
`hipFree` may fail, and since `drop` ignores a failed `hipFree`, its bytes are
released and stay on the device as `leaked`, outside every property of the
budget. The refinement maps an owner from the exchange to the release to a charge
of the ledger.

### EventChain and StepDevice

`held` is what a caller has in hand: every id `record_*` returned, with the step
that issued it. In the part "chain" any caller records, waits on any id it holds,
begins steps and clears, but records under the step it has begun: `record_*` take
any step id (`streams.rs:145`) and `validate_step_chain` compares the five with
the one it is given, so a caller that records a whole chain under another step
would be accepted for that step. In the part "step" the scheduler's device phase drives
the chain (`dpc`), captures graphs eagerly and lazily, grows the arena, takes
slices and writes the log, and each of the executor's three calls may fail.
Resolvers are pure and their answers are data of the program's operations; a
capture is total, so a resolver that answers differently after the arena has
grown (`graph.rs:426`) is not modelled.

### Registry

A manifest or tune file is a document of a small set, right or with one thing
wrong; hashes are the record of what is hashed. Clones of a registry have their
own configuration and base directory and share the module cache behind its lock;
a call of one clone is one step except that resolving and loading are separate.
A provider may answer with any path, origin, bytes and verdict, or not at all, but
for the op, architecture and hash it was asked for (`Built`).

### BatchWorkspace and KvAttention

The workspace is the flat row-major buffers a kernel receives. Both fill paths are
modelled with their capacity checks and the place each keeps its tree, beside the
owned builder they must agree with. `fill_tree` and `clear_tree` are public and
are modelled as the steps of the fills that call them, not as calls of their own.
`FillsExact` is about the slot map and the attended cells of the block table;
positions, window starts and the tree are constrained by `BatchWellFormed` and
`AttentionExact` where a kernel uses them. `KvAttention` writes and reads caches through
them. Numbers are abstracted to labels (sequence, position, part, head, column);
the cache contents before a step follow from the committed positions of each
sequence, so a run needs no history. Three paged groups (unbounded, windowed,
sinks) and one of the groups as a latent cache. A row whose numbers e4m3 cannot
encode ends a write in the middle (`attention.rs:1262`, `1579`); numbers are left
out, and with them this error.

### StopTail and StreamDetokenizer

Bytes have their real UTF-8 classes. The scheduler's byte detokenizer serves two
sequences in turn and may reject a token, which fails the step and is followed by
any other token. The loader's detokenizer receives pieces that split code points
and stop strings and holds text back. `Sanitize` is `sanitize` with its last line:
when a copied sequence is not UTF-8 after all, the whole chunk is lost. The
`clean_spaces` pass of WordPiece vocabularies at `flush` is left out.

### OpTensor, OpShapes, OpStatics, Sharding, OpCases

A validator is the conjunction of the checks of its Rust counterpart. An extent
is a positive integer, a shape symbol a negative one. `OpCases` has one state per
node: the accepted examples and all their single edits. For the accepted ones
`AcceptedIsExecutable` recomputes, from the meaning of the op, what its outputs
must be.

`from_op` never sees operands: it is handed facts, which the repository builds
only in tests. `OpCases` therefore treats facts as inputs. It offers `from_op`
the facts that describe the operands of a node, each fact changed one at a time,
and each set to zero. `StaticsFaithful` says that `from_op` accepts facts of the
op's own kind, that the registry's `validate` then agrees with the IR's but for
the checks only the registry has (`RegistryOnly`), that two attributes or facts
that differ give statics that differ, so none is dropped on the way, and that a
zero is refused. Left out: the overflow check of a receive's element count.

`ShardingSound` splits the operands and the announced shapes of a node over two
ranks by every rule `legal_layouts` returns and asks the validators about the
local node. They accept it except for the cases `TableBlind` names, where the
table and the validators disagree, and the property says that they then refuse it:
see section 6.

### OpGraph

Client ops, transposed and reshaped views, rewires and `materialize_copies`.
`value` and `want` are history variables: which element of which source an edge
means, and which value each input was asked for. A reshape to or from symbols is
trusted (`graph.rs:1396` leaves it to capture), so a view may have more elements
than its source has at run time: those are `Outside` and no input may rely on them.
Copies are not rewired by hand,
and `set_edge_strides`, offered for tests of stride tracking, is left out.

### TileLayout, Repack, GgufReader, Container

A value bit or record byte is named by the place of the wire block it is read
from; repacking must put it where the decoder of the other side looks. A file is
its table of keys, its tensor table and its length; keys are tuples and values
numbers or model strings. `emit` builds a file that `parse` then judges, as it is
or after an edit or a cut by another tool. `RangesOK` is the sort and the sweep of
`validate`; that no two accepted tensors share a byte is the property.

### WeightKernels and MoeExperts

A tensor view is its element type, scheme, layout, shape, whether bytes back it
and how many. A call is checked in the order-free conjunction of the kernel's
checks, then writes one output after another. What is computed is replaced by
what is read: every term of an output keeps the byte and nibble of the value, the
byte of its scale record, the sub-block and the activation scale. The properties
turn the addresses back into rows and columns with the inverse of the file
layout, which the kernels never use. `matmul` is modelled by its branches (A1 to
D), `embed_gather` by its four row decoders, `ngram_gather_device` by
`decode_device_entry`, `moe_ffn` by `down_weight_f32`, its runs of triples and the
addresses it gathers activations and their scales from, through the inner matmul.
`op.scale` and finiteness of scales and logits are flags of a call. Scores of
experts are levels that saturate as exponentials do, so that ties occur.

## 3. Runs

| Run | Instance | What it shows |
|---|---|---|
| `alloc` | 3 sequence ids, 2 live; blocks of 2, 3 blocks per group; an unbounded, a windowed and a sink group, a recurrent group | blocks and slots owned exactly once, attended positions mapped and evicted ones not, exact limits, a lone sequence is always served |
| `cache` | 2 sequences, windowed and recurrent group, reservations of up to 3, compaction of up to 2 | each sequence reads back its own tokens and its own verified state; mirror and device agree; drafts leave verified tokens alone |
| `scheduler` | 3 ids, 2 live, 2 blocks of 2, a chunked prompt that runs into `max_ctx`, a prompt whose decode needs a new block, one failed step, one outside holder | no sequence lost, no step committed twice, contexts and reservations agree, pauses only under an outside holder; refinement of `FifoServer` |
| `scheduler_live` | 2 ids, prompts that fit, every cost table over buckets {1, 2}, one failed step, one outside holder | every accepted request finishes; every pause that is not cancelled reaches a schedule record |
| `device` | 2 owners, sizes 0 to 4, limit 3, words up to 4; two steps of any chain caller, three steps of programs over 3 keys in an arena of 5 that grows; two clones, 4 calls | exact indivisible ledger, memory within the budget; the chain is neither lax nor strict; graphs, slices and log after growth and failures; registry promises |
| `batch` | every parent list of up to 4 tokens; 2 sequences, 4 groups, batches of up to 3 tokens, with explicit positions and trees | tree checks are exact; both fill paths and the builder agree; kernels read each sequence's own slots; attention sees exactly the retained rows |
| `text` | up to 7 sampled bytes of 8 values in 2 sequences, tail of 4 and up; up to 5 of 10 pieces | no stop string is missed or shown, the cut is where it begins, streaming shows what decoding at once shows |
| `ops` | all examples of `OpCases`; graphs of up to 4 edges, 2 nodes, 2 views and copies | accepted nodes are executable, no static loses an attribute or fact, shards are accepted where the table is not blind, views and copies keep their meaning, a pass keeps graphs valid |
| `format` | 21 ggml types on 1 and 17 rows of 1 to 3 blocks; writers with up to 2 keys and 2 tensors; 2 shards; kernel calls on 17 rows of a block or 2 rows of 2 or 3; 2 tokens of 64 columns, 3 experts, 2 slots | no bit moves; files read back; what is accepted is sound; kernels read the value and record of their row and column; experts' shares are exact |
| `cancelled_pause`, `context_full`, `stop_tail_panic` | | expected violations, see section 6 |

Bounds. Two blocks per sequence and more than one token per block are enough for
every boundary case of the arithmetic (inside a block, at its edge, across it);
`NumBlocks = MaxBlocks` is the tightest pool the constructor accepts. Two live
sequences and a third id give interference and reuse of freed blocks and slots.
The window of 1 starts inside a block at every second commit. One failure in any
phase already meets the retry of the same chunk or token; `MaxFaults`,
`Outsiders`, `MaxCalls`, `MaxEvents` only cap counters. Two owners are enough for
TLC because the budget is proved for any number. The event counter starts
`ChainEvents` ids short of its limit in the part "chain", so that running out
is reached. 17 rows are one full tile and a broken one; two superblocks, two
blocks of 128 and eight sub-blocks all differ in some address, and a record of
a wrong row, block or sub-block is never the right one. In `format`, keys are
added before tensors; two keys beyond the preamble only to native files; two
tensors, or an edit, only with at most one key: more only repeats the checks of
each. A route starts from one content of its buffers, which it overwrites. Sizes
above the limit and a sum above the word width both occur in `device`. Deadlock
checking is off: each system may come to rest (ids used up, all
requests finished, a call done).

Fairness (`SchedFairness`): weak fairness of `Step`, because the engine loop
calls `step` for as long as there is work and each call returns; weak fairness of
`OutsideFree`, without which a paused decode may rightly stall for ever. Failures
are bounded by `MaxFaults`: the code retries for ever, so it finishes if and only
if failures stop. Nothing is assumed about enqueueing, cancelling or collecting.
The other components have no duty to act; their properties are safety.

Each property has a mutant in `PROJECT.json`: a variant of one definition, placed
in front of it and marked `Mutant:`, with a bug the code could have, under which
TLC refutes the property.

## 4. Proofs

All theorems hold for every value of the constants that satisfies the named
assumptions of the modules; those say what the constructors of the code accept
(`GroupsAssumption`, `SizesAssumption`, `VersionsAssumption`,
`SchedulerAssumption`, `ChainAssumption`, `DeviceAssumption`, `BudgetAssumption`,
`DocumentsAssumption`) and which inputs are offered (`WorkspaceAssumption`,
`ArgumentsAssumption`, `TreeAssumption`, `TailAssumption`, `StopAssumption`,
`StreamAssumption`: a stop string is a Rust `String`, so it does not start inside a
character).
Every inductive invariant was checked with TLC before it was proved; the numbers
below are the distinct states of that check. An invariant is proved preserved
action by action, each in a lemma of its own, and the temporal theorem combines
`Init`, step and implication.

### The manager

`StateManagerProofs`, for all groups, retention rules, block
sizes, pool sizes and limits:

- `TypeCorrect`: `Spec => []TypeOK`. `TypeOK` is not inductive: that a new id is
  not in use needs `IdsAllocated` (live ids are below `next_seq`), that the live
  counter stays in range needs `CountExact` (it is the cardinality of `seqs`),
  that a commit stays inside `max_ctx` needs `TailFits`, and that `free_seq` puts
  slots and not `NoSlot` back needs `SlotsHeld`. Together they are `Typing`.
- `BlockOwnershipHolds`: every block is free or mapped exactly once. The inductive
  invariant `Owned` adds `DeadHoldNothing`: a sequence that is not live has an
  empty table. Reserve is the hard case: the blocks placed are distinct, come from
  the free set and leave it (`PlacementTyped`, `OwnedReserve`).
- `SlotsExactHolds`: fixed slots are owned once, and `new_seq` refuses exactly when
  none is left. `SlotsOwned` adds `SlotCount`: each group has as many
  free slots as there are sequences still to be admitted.
- `RetentionExactHolds`: attended positions are mapped, evicted ones are not. The
  argument is about block arithmetic: a window only moves forward (`WindowBounds`),
  so what a commit keeps it also kept before, and a reserve maps exactly what it
  is missing.
- `SoleHolderHolds`: with one live sequence a legal reservation never runs out of
  blocks. All blocks are then free or held by that sequence, so the blocks it
  needs are at most those the pool has (`MaxBlocks` per group).

### The device memory behind it

`PagedCacheProofs`, for all of the above and any token versions:

- `HistoryIntactHolds`: every attended position of every sequence reads back the
  token its caller put there, whatever the other sequences write, compact, free or
  reuse. `MirrorExactHolds`: the mirror agrees with the device.
  `RecurrentVerifiedHolds`: the active buffer holds the sequence's own state after
  as many tokens as it has verified.
- The inductive invariant `CacheInv` (146 516 states) joins the manager's three
  (`Owned`, `SlotsOwned`, `Kept`) with the device as each sequence sees it:
  `HistoryOf`, `MirrorOf`, `RecurrentOf`, the last also for the working buffer
  after a run. A write of one sequence leaves the others alone because their
  blocks are different (`SlotInjective`, `StoredAt`); a step that is one of the manager's
  keeps the manager's invariants (`ManagerStep`).

### The batch of a step

`BatchWorkspaceProofs`, for every manager of the above and every list of step
members:

- `FillsExactHolds`, an action property: the slot map and the attended cells of the
  block table of an accepted fill are what the manager's own tables say of the
  batch, and a refused one leaves the tensors alone. `BatchWellFormedHolds`: after any mix of
  accepted and refused fills the tokens of the batch have slots of their own, the
  tree a kernel sees is one of the tensors beside it, and the path without
  allocation accepts what the cold builder accepts.
- The inductive invariant `BatchInv` (32 005 states) is the manager's with the two
  trees the workspace keeps (both fit its capacity) and the distinctness of the
  slots written. Two arguments carry it: a flattened sequence is addressed by the
  sums of the lengths in front (`SumTo`), and a block offset is a number in mixed
  radix, so that two entries of the same block meet only if they are the same.
- The constructor accepts a manager without layer groups (`group_layer_specs` does
  not refuse an empty list). The fills serve it, the builder refuses it
  (`batch.rs:384`); that hot and cold agree is therefore stated for a manager with
  at least one group.

### The tree checks

`BatchWorkspaceProofs`, for every list of parents of every length:

- `TreeChecksExactHolds`: `check_tree_cycles` reports exactly the cycles, each once
  and by its lowest token, and what `TreeMask::new` and `validate_tree_slices` accept
  are exactly the forests. `Above` is the least set closed under parents; that a
  walk of at most as many steps as there are tokens collects it or closes a cycle
  is a pigeonhole argument. `TreeInv` says that the loop has reached `VisitsTo` of
  its place: the marks have a meaning between two walks, not inside one.

### The scheduler

`SchedulerProofs`, for all request sets, chunk sizes, cost tables, pools, limits
and numbers of failures:

- `SequenceOwnershipHolds`: every live sequence is in exactly one place (queue,
  active, paused, or an outside holder), none is lost. `SequencesAgreeHolds`: the
  scheduler's counts of tokens and its reservation agree with the manager's
  context and tail in every place of a step, failure paths included.
- `CommitsOnceHolds`: verified context grows only by the tokens of the step in
  flight, under a larger step id than any commit before.
  `PauseNeedsHolder`: a decode pauses only while somebody outside holds blocks;
  it uses `SoleHolderHolds`.
- `SchedulerIsFifo`: `SchedSpec => ImplementsFifo`, the refinement of
  `FifoServer`. Promotion is the start of service, finishing and cancelling take
  the request out, everything else stutters.
- The inductive invariant `SchedInv` (`SchedInvHolds`; 1 050 626 states) is `Owned`
  with `Placed` (who is where, without repetition), `Agrees` (records against the
  manager), `StepOwned` and `StepCounted` (what `pc` says of the open reservation
  and the in-flight step). None of the properties is inductive without `Agrees`:
  that `fail_step` restores a consistent record depends on what was reserved.

### The device phase of a step

`StepDeviceProofs`, for every program, arena, growth, alignment and ring size:

- `DeviceSoundHolds`: `DeviceSpec => []DeviceSound`. After any growth, failure and
  wrap, cached graphs belong to the arena's generation and their slices are
  disjoint and inside it, handed-out slices do not overlap, and the ring shows the
  last records in order. The inductive invariant `DeviceInv` (`ArenaSound`,
  `CacheSound`, `RingSound`) adds that a cached graph is exactly what a capture
  would give now (so recapturing after growth cannot fail: `CapturesAgain`) and
  where in the ring every completed step is (`RingHolds`).
- `ChainExactHolds`: a step whose executor calls all succeed has its chain
  accepted, whatever steps failed half-way before it, and an accepted chain orders
  upload, graph and readback by events of its own step. `ChainOrdersHolds`: the
  latter whatever a caller of the chain records under the step it has begun, waits
  for or still has in hand. Invariants:
  `ChainSound` (ids are handed out once, records carry ids of their step) and
  `PhaseSound` (each place of the device phase has recorded exactly a prefix of
  the accepted chain). All of them together: 400 920 states.
- The offsets of a graph are computed by recursion over the program. The lemmas of
  `RecursionProofs`, `SetInduction` (induction over a set of naturals, from the
  library's well-foundedness of `<`) and `RecursionExists` (a function given by a
  start and a step exists), make such recursive functions provable:
  `LaunchedTyped`, `OffsetsLaidOut`, `NoSlicesOverlap`.

### The stop tail

`TextProofs`, for all stop strings, ids, lengths and numbers of sequences:

- `StopsExactHolds`: `TailSpec => []StopsExact`. The bounded tail misses no stop
  string, however it is split over tokens and characters; the cut is at the token
  in which the match begins; the tail is a suffix of the sequence's own text, which
  comes from its own tokens only.
- The inductive invariant `TailInv` (665 036 states) relates the trimmed tail to a
  history the code does not keep: the tail is a suffix of the text, and a stop
  string that starts at a character in front of the tail would already lie in the
  text. This is why trimming to the longest stop string misses nothing
  (`MatchTransfer`): the tail starts at a character and a stop string does too. The
  spans are the characters of the text, each with the token in which the text
  reached its start. A drain that would panic is the finding `stop_tail_panic`;
  the theorem, like the run, is about sequences that did not panic.

### The streaming detokenizer

`TextProofs`, for all pieces (any bytes), stop lists, flags and numbers of tokens:

- `StreamExactHolds`: `StreamSpec => []StreamExact`. However characters and stop
  strings are split over pieces, a stop string in the text of all pieces stops the
  stream, exactly what stands in front of the first one was shown, an unstopped
  stream that is flushed adds up to the text decoded at once (nothing is said of one
  that an end-of-sequence id stopped), and what is held back is shorter than the
  longest stop string or at most three bytes.
- The inductive invariant `StreamInv` (1 010 170 states) says of an open stream that the
  text of all pieces is what was handed out followed by `pending` (`Open`), that no
  stop string has begun in front of `pending` (`PrefixHeld`), and that what was
  handed out ends at a character: `pending` does not begin with a continuation byte,
  or is empty and nothing incomplete ends the text (`Boundary`). The last part is
  what the property needs most. It makes sanitizing chunk by chunk the same as
  sanitizing the whole (`SanitizeConcat`), because `incomplete_tail_len` and
  `decode_one` agree on which sequences can still be completed (`ScalarLead`,
  `ScalarBefore`), and it is kept because a held stop prefix starts with a character
  too (`HoldIs`, `NextBoundary`). `PushStops` shows that a new stop string begins in
  `pending` or behind it, so that searching `pending` finds the first one.
- What was shown is claimed only for text without the bytes 0xF8 to 0xFC
  (`Decodable`): see section 6. When the stream stops is claimed for all text.

### The allocation budget

`StepDeviceProofs`, for every finite set of owners, limit, set of sizes and
word width:

- `LedgerExactHolds`: the counter is the number of charged bytes and within the
  limit. Sums over owners are counted as sets of bytes (`Bytes`, `Total`), so that
  the library's facts on cardinality give what a charge adds (`TotalAdd`) and a
  release removes (`TotalRemove`). The inductive invariant `BudgetIInv` adds that
  a pending exchange still fits the value it compares with, and that every
  charged request is within the limit.
- `ResidentWithinBudgetHolds`: device bytes never exceed charged bytes, since
  each owner's memory lies between its charge and its release.
- `BudgetRefinesAtomic`: `BudgetSpec => AtomicSpec`. An exchange is a grant, a
  read that does not fit is a refusal justified at that moment, a release gives
  back, and every other step is invisible.

### The kernel registry

`RegistryProofs`, for every set of clones, manifests, tune files, requests,
provider answers and launch entries. `DocumentsAssumption` only says what the
model's documents are made of (a path has one of its forms, the configuration
that stands for a provider's build is in no document); nothing is assumed of what
a provider returns beyond a path, and it may claim that its code was shipped.

- `RegistrySoundHolds`: `RegistrySpec => RegistrySound`, an action property of
  three parts. `AnswersSound`: at the step in which a resolution answers, the
  variant is the one the order of `resolve` promises on what that clone holds
  then, reconfigured or not (`ResolvedBy` says where an answer comes from and what
  was not there, `FittingFound` and `TunedFound` that the lookups miss nothing).
  `ModulesSound`: for every interleaving of lookups, loads and insertions over the
  shared cache, one module per hash, read from memory or from a file inside a
  known base, and a thread that got a module left one for the others.
  `LaunchSound`: a replay that stops at any error has launched a prefix of its list
  and ended what it started, by induction over the list (`ReplayWithSound`).
- The inductive invariant `RegistryInv` (with `LaunchInv`, 477 003 states) adds what
  the properties take for granted: a tune entry with a path has a base
  (`MergeSound`), what a thread carries between the locks came from a registry and
  from a readable place (`CallerSound`), and a thread that is not idle belongs to
  a clone that exists. The cache never forgets a hash, which keeps the threads of the other
  clones sound (`CacheKept`, `ThreadStep`).

### Model-checked only

Liveness (`scheduler_live`) needs fairness and `ENABLED`, which this prover does
not handle. Tensor, file and kernel algorithms (`OpShapes`, `Sharding`, `OpGraph`,
`Repack`, `GgufReader`, `Container`, `WeightKernels`, `MoeExperts`, `KvAttention`) are
computations over data by folds and recursion; what they compute for every input
needs an induction per operator, and TLC enumerates their inputs instead.

## 5. Plan

Done: all modules of section 2 and the theorems of section 4.

Next, in this order:

1. The executor of `r9v-t0` (`state_ordered`: tensor order plus program order per
   state handle) in `OpGraph`, `verify` of `sampling.rs` against the tree of
   `TreeMask`, the convolution and scan kernels against the recurrent buffers of
   `PagedCache`.
2. The loader's planning and budget arithmetic.

## 6. Findings

`context_full`. `specs/spec-03-sequence-state.md:166` says a running decode "fails
to reserve only when the pool is genuinely full", and `specs/spec-06-scheduler.md:124`
that on a decode reserve failure "clients see a stall, not an error".
`enqueue_request` does not relate prompt and `max_tokens` to `max_ctx`. A decode
that reaches `max_ctx` gets `ReserveTooLarge` with blocks free; `step` returns
that error, leaves the sequence active and does so again at every later call, so
the requests behind it wait until a client cancels it.

`cancelled_pause`. `scheduler.rs:585` says "A cancelled pause reports nothing on the
next record", and `cancel_sequence` clears the pending report in its paused branch.
The report outlives the pause, though: a decode that paused, was promoted by the
next `step` and came back to the active slot through `fail_step` is cancelled in
the active branch, which leaves the report. The next completed record, of another
sequence, then names the cancelled one as paused.

`stop_tail_panic`. `append_generated_token` trims its tail at the first character
that starts at or after the excess, and at the excess itself when there is none.
With stop strings shorter than the last character the excess can lie inside that
character, and `String::drain` panics on a sampled token, although
`CONVENTIONS.md:64` forbids panics on data that originates from a device.

One disagreement has no run of its own. `detokenizer.rs:176` says that `sanitize`
"Replaces every invalid UTF-8 sequence with U+FFFD (lossy but total". `decode_one`
takes 0xF8 to 0xFC for leads of four bytes, so `sanitize` copies such a sequence,
`String::from_utf8` refuses the result and `unwrap_or_default` drops the whole chunk,
the valid text in it included. The model does the same; the last of the pieces of
`text` is such a sequence. `Decodable` excludes these bytes where `StreamExact`
says what was shown.

Observations that no run states, because no document contradicts the code:

- `GgufWriter::emit` compares neither `general.alignment` with the writer's own
  alignment nor the `split.*` keys with the file; the properties about emitted
  files assume a writer whose keys agree (`Consistent`).
- `legal_layouts` returns rules under which the validators refuse the local node
  (`TableBlind`): a transposed matmul, whose weight the rules `Col(0)` and `Row(1)`
  split along the wrong axis; `quant_act` with a scale per 32 columns under
  `Col(1)`, which leaves the scales replicated; `ngram_gather` under `Row(1)` with
  `Sum`, whose output is as wide as one table, or with scales per head, which are
  replicated; `all_gather` and `reduce_scatter` along another axis than the one
  sharded. The table looks neither at attributes nor at schemes
  (`sharding.rs:678`), and nothing in the repository says that it should.
- `MoeRouteOp::validate` reads `expert_ids.shape()[1]` after it has noted a wrong
  rank (`op.rs:4194`) and panics on a rank of one; the model refuses there.
- The conv weight rule of the registry is said to mirror the IR (`types.rs`), which
  has no scheme check there.
- A registry does not check the manifest version again after `config_mut`; JIT
  for an unlisted architecture leaves `artifact_origin` empty; a shipped path is
  resolved against the current bundle directory although the module cache is
  shared between clones, and the cache is not dropped when a manifest is
  reloaded. A comment says resolution cannot fail on a supported architecture,
  but a manifest needs no T1 entry and `T1FallbackFailed` exists.
- `attention` does not compare `op.cache_dtype` with the cache's element type; only
  the first store of a mismatched call refuses.
- `moe_ffn` asks tiled down weights only for the length of row-major values: a
  short buffer is found while decoding, with nothing written. It does not
  compare the rows of `expert_ids` with the tokens: it ignores rows beyond them and
  reads ids past a view that has too few, as far as the backing goes. `moe_route` does not check the layout of the
  views it writes.
- The carrier of `i8_b128` scales with one block per row is `[entries]` for
  `ngram_gather` and `[n, 1]` for `matmul` and `embed_gather`; `ngram_gather` does
  not refuse scales that are not finite as the others do.
- `matmul` writes its output as it goes, so a value that cannot be decoded leaves it
  partly written; `moe_ffn` and `ngram_gather_device` stage theirs.

## 7. Not modelled

Tokenisation, templates, model graph builders, kernel generation, configuration
and the loader's planning are sequential computations over large static data with
no state of their own, as are the device profiles, the fusion table and the plan
descriptors of `r9v-ir`. The remaining reference kernels (elementwise, norm, rope,
convolution, scan, sampling, collectives) are numeric loops; their operand rules
are in `OpShapes`. Floating-point arithmetic is left out throughout: a property
about kernels is about which numbers are combined, never about rounding. The
HIP bindings wrap a vendor library; the vLLM overlay is a third-party engine; the
Python tools drive processes and files. u64 counters that cannot wrap in practice
are unbounded. `PROJECT.json` gives the reason for each part.
