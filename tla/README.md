# SpecBlock: a TLA+ development

SpecBlock is a speculative-decoding method. A small draft model proposes a tree
of tokens, the target model verifies it, and the draft model's cross-attention
cache is refreshed from what was verified. The repository holds the training
code (`specforge/`), a single-request Hugging Face harness (`benchmarks_hf/`) and
a fork of SGLang (`sglang-main/`) in which SpecBlock serves many requests at once.

The serving integration is where state is shared, recycled and cached, so it is
what these modules are about. Paths below are relative to
`sglang-main/python/sglang/srt/` unless they start with `benchmarks_hf/`.

## Inventory

| Part | State | Operations | What makes it correct |
|---|---|---|---|
| `SpecBlockKVPool` (`speculative/spec_kv_pool.py`) | free list, size, counters, `pool_version`, capture flag, K/V tensors | `alloc`, `free`, `_grow`, `set_kv`, `set_kv_padded`, `capture_mode`, `reset` | a slot has one owner; none is lost; slot 0 stays zero; a replaced tensor is visible |
| Worker (`speculative/specblock_worker.py`) | the pool, the graph runners, `batch.spec_info` | `forward_draft_extend`, `draft`, `_verify_and_accept`, `_refresh_draft_state` | each request's draft cache is what a single-request loop would build |
| `SpecBlockDraftInput` (`speculative/specblock_info.py`) | per-row lists and tensors of a batch | `filter_batch`, `merge_batch`, `prepare_for_decode` | row *i* belongs to `batch.reqs[i]`; dropped rows return their slots |
| Scheduler (`managers/scheduler.py`, `schedule_batch.py`, `schedule_policy.py`) | waiting queue, running batch, last batch, chunked request, `batch_is_full` | receive, merge, admit, chunk, retract, abort, flush | each request is served once and in the end finished |
| Graph runners (`speculative/specblock_{draft,refresh}_cuda_graph_runner.py`) | captured graphs, stamps, static input buffers | `resolve_buckets`, `can_run`, `capture_one`, `replay` | no stale address is replayed; no earlier batch's slot is read |
| Overlap worker and `FutureMap` (`specblock_worker_v2.py`, `managers/overlap_utils.py`) | future ring, verify windows, result queue | `forward_batch_generation`, `store_to_map`, `resolve_future`, `process_batch_result` | batch *n+1* never uses what batch *n* has not produced; each token is delivered once |
| Target KV slots (`mem_cache/allocator.py`, `mem_cache/common.py`, `spec_utils.py`) | free pages, `req_to_token`, `kv_committed_len`, `kv_allocated_len` | `alloc_extend`, `prepare_for_verify`, `prepare_for_decode`, `_free_cache`, release | the next pass attends to exactly the accepted tokens; no page is lost or shared |
| Stop conditions and streaming (`schedule_batch.py`, `scheduler_output_processor_mixin.py`) | `output_ids`, `finished_reason`, `finished_len`, send offset | `check_finished`, `_fill_requests`, `stream_output_generation` | nothing after the stop, nothing skipped, nothing sent twice |
| Host copies of a verify pass (`specblock_info.py`, `managers/utils.py`) | pinned tensors, `copy_done` | `verify`, `_fill_requests`, `_resolve_spec_overlap_token_ids` | the host reads what the device wrote |
| Tree builder and kernels (`specblock_tree_kernels.py`, `eagle_utils.cu`) | raw nodes, packed tree, links | block kernels, merge, top-k, pack, greedy verify | the budget holds the best paths; mask, positions and links are one tree |
| Refresh tensor plan | scratch tensors | a pure function | agreement with a reference definition |
| HF harness (`benchmarks_hf/algorithms/_specblock_base.py`) | one draft cache, `draft_position` | prefill, pop, update | the reference for the serving engine |
| Training, evaluation, UI, data scripts | files | offline | not state machines |

How they interact: the scheduler owns batches and calls the worker
synchronously; the worker calls the pool and the runners; a batch's `spec_info`
carries slot numbers of the pool, and its `filter_batch` calls the pool back.
The runners hold raw addresses of the pool's tensors and learn that these have
changed only from `pool_version`.

What is hard: slot numbers are recycled between requests; rows move between
batches by position alone; the pool may replace its tensors in the middle of an
iteration; static graph inputs outlive batches; `batch_is_full` is a cached
answer; and, in overlap mode, the scheduler runs one batch ahead of its results.
`PROJECT.json` lists these hazards, each at its line.

## Modules

`RowLists` — the two things the code does with lists of rows or slots: it sorts index
lists and it gathers what they name. Shared by the pool and by both loops.

`KVPoolOps` — the pool's methods as operators on a record. Everything that uses a
pool shares these definitions. `AllocRows` and `FreeRows` are the loops in which
the worker calls the pool once per row; a raise ends the loop where it happens.

`SpecBlockKVPool` — the pool with its buffers and its clients. The code has no
owner table; `held` is that table, and the arguments of `free` and of the stores
are taken from it, as the callers do. `kv[l][s]` is the request a slot's
data was computed for: enough to see foreign data and to see the sentinel change.

`PrivateSlots` — what the pool promises: every request has a memory of its own
that changes only by its own acquire, release and write.

`SpecBlockServing` — `event_loop_normal` with the SpecBlock worker. One iteration
is `Recv`/`AbortWaiting`/`Flush`, `MergeLast`, a `Pick...` action and a `Run...`
action; each is the whole handler. A batch is a record of the parallel lists the
code keeps (`reqs`, `seq_lens`, `cross_loc`, `cross_count`, `cross_position`, and
the token behind the `b0` tensors), filtered and merged as the code does. Nondeterministic, because
the model leaves out what decides it: the accepted path length, EOS and
aborts of running requests, memory pressure (`NO_TOKEN`, retraction), the order of
the waiting queue and the prefix the radix cache holds.

`SpecBlockReference` — the single-request loop of the HF harness, one copy per
request. An entry of the cache is `<<request, token index, position>>`.

`SpecBlockGraphs` — the two runners over a pool that grows. A graph is the
generation of the tensors it was captured with; its static inputs are the slot
matrix and the counts. `Prefill` and `Drop` are how a batch changes between
iterations. An exception ends the scheduler process, so `raised` is final.

`SpecBlockOverlap` — `event_loop_overlap` with the V2 worker. An iteration is
receive, `MergeLast`, a `Pick...` action, a `Launch...` action and `Process`, which
handles the result of the batch *before*. `ring` is `FutureMap`, an entry of which
is the request it was stored for and its length on the device; a batch keeps only
ring indices. `tail` says that the last kernels of the newest pass have not run; a
host read of a tensor they write gives `Unknown`. `EndPass` is the device. The segment of the
chunked request may be cut short by memory (`RemTokens`, the `min` of `add_chunked_req`); `cuts`
counts how often since the last decode pass. (`SpecBlockServing` has no ring, so its segments always
take the whole chunk budget.)

`TokenStream` — what a client of that loop is promised: tokens in order, none
twice, none missing, nothing after the end.

`TargetKV` — the target's slots: the page allocator, `req_to_token`, and what each
slot holds. An accepted path is any list of different nodes from the root on (a chain, in
their order). It need not be increasing: `DraftTree` shows that a merge can hang a node below a
winner that stands behind it in the window. A `mode` variable, chosen in `Init`, says which worker runs, whether its trees
are chains, and the page size. The prefix cache is the chunk cache
(`disable_radix_cache`).

`RequestOutput` — one request's `check_finished` and stream. The synchronous worker
checks after each token, the overlap scheduler once per path; `spec_v2`, chosen in
`Init`, says which. A token is one of six kinds: ordinary, stop token, end of a stop string,
outside the vocabulary and, for a request with a grammar, one that completes the grammar without
being a stop token or one the grammar rejects. `Advanced` and `Rejected` are `accept_token` of the xgrammar
backend; the other backends never terminate. The synchronous worker tells the grammar of a token
after the check and outside any `try`, so a rejected token ends the process (`raised`); the scheduler
catches the error and aborts the request. A finished request of the overlap loop is
visited again with its late result (`LateResult`). Stop strings are searched in the decoded tail only:
`decoded_text` is filled by the detokenizer, never in the scheduler process.

`DraftTree` — the captured draft graph, one kernel per step: first block, root
selection, second block, merge of duplicates one depth at a time, top-k, packing
with `next_token`/`next_sibling` links, and the target's walk along them. Scores are integers
and the packed 64-bit comparison key is modelled, bit pattern order included. Ties in
`topk` are broken nondeterministically, as torch does not say how. A merge without a winner
leaves children with a parent that is no node, which the next kernel reads out of bounds; the
model ends there (`InBounds`).

`HostCopy` — what the host reads of a verify pass, with the copies as items queued
on the stream and the pinned blocks reused.

`MC...` modules and `.cfg` files instantiate these for TLC. The `..._proofs` modules
hold the proofs: `RowLists_proofs` and `KVPoolOps_proofs` are lemmas about the
operators (index lists, rows one behind the other, the pool), `Output_proofs` covers
`RequestOutput` and `HostCopy`, what a request is given of a pass; the others
prove the properties of the module they are named after.

How the modules relate: `SpecBlockServing` and `SpecBlockGraphs` both use
`KVPoolOps`, the definitions `SpecBlockKVPool` is proved about. `SpecBlockServing`
implements `SpecBlockReference`, `SpecBlockKVPool` implements `PrivateSlots`,
`SpecBlockOverlap` implements `TokenStream`. `TargetKV`, `RequestOutput`,
`DraftTree` and `HostCopy` each open one thing the loops leave nondeterministic: the
slots behind a length, the stop of a request, the accepted path, the moment a
result is on the host.

## Runs

| Run | Checks | States |
|---|---|---|
| `pool` | two requests, two layers, one slot growing to three; conservation, sentinel, cap, visible replacement, refinement of `PrivateSlots` | 78,134 |
| `serving` | three requests (one longer than a chunk), batch of three; rows aligned, served once, slots accounted, where slots can be lost, refinement of `SpecBlockReference` | 303,421 |
| `serving_deep` | two requests, five new tokens, paths of 0 to 2 accepted tokens, radix hits; the same refinement, and every queued request finishes | 237,812 |
| `graphs` | up to three rows, padded capacities, three widths, a pool that grows three times; current addresses, no current graph dropped, own slots only | 175,170 |
| `overlap` | two requests, one chunked (a segment may be cut short) and one with a grammar, one result in flight, no plan stream (the default); rows find their newest ring entry, verify windows are allocated, host lengths trail the device's, released requests stay released, refinement of `TokenStream`, every queued request finishes | 214,846 |
| `target` | two requests, trees of three nodes, three modes; pages conserved, the context is the accepted tokens | 64,274 |
| `output` | both workers, with and without a grammar and streaming, paths of up to four tokens of six kinds; stream in order and finish reported once, matched token last, first stop ends the output, which stops are missed, how much is handed out behind one | 2,566,813 |
| `draft_tree` | two blocks of two slots, a budget of six, certain tokens and ties; best paths packed, mask/positions/links agree but for ties, the walk misses no child and ends | 205,677 |
| `host_copy` | two requests, three passes; each request gets its own path | 1,909 |
| `serving_leak`, `target_tree`, `host_copy_sync` | violations, below | |

Bounds. In `pool`, growth from 2 by 1 or by *n* up to 4 slots reaches both
branches of `max(n, chunk)`, the cap and a refused growth; two clients are
enough for a slot to pass from one to the other. In `serving`, three requests are
the fewest with which a middle row is dropped between two that stay (the case the
comment of `filter_batch` describes), and a chunk of two with a prompt of three
gives a chunked request next to others; the pool is large enough never to raise,
as its limits are the business of `pool`. `serving_deep` has room for a rejected
root after an accepted path and the reverse. In `graphs`, a draft capacity of two
with one or two rows gives padding after use, and three rows exceed the refresh
capacity, as 17 rows exceed 16 in the code. `MaxWork` bounds the number of
batches at seven. Symmetry is used only in `pool`, which has no liveness property.

In `overlap`, `FutureStart` puts the ring's pointer where earlier traffic may have
left it, two entries before its limit, so that the ring wraps within a run; the request with a
grammar makes the loop process a result before the next launch, which is the other order the
code has. `MaxCuts = 1` lets memory cut one segment short between two decode passes. In `target`, prompts of one and two tokens end inside a page of two and on its
boundary; `max_steps` of a mode bounds prefills and verify passes. In `output`, nine
new tokens hold the first token and two paths of four, and the searched tail has four tokens: a stop
string of two leaves it when three tokens of its path follow, and the limit, a stop token and a completed
grammar can meet in one check. In `draft_tree` two blocks are the
fewest in which two nodes spell the same path; a budget of six is less than the
nodes of most draws, and enough for a path of four tokens whose third node stands
behind its child. That takes a node which two leaves draft and which is likelier as
the alternative in one block than as the greedy token of the other: `Likely` and `Unlikely`. Draws with log probabilities of 0
give a child the score of its parent and whole paths a score of 0.0, so the run reaches nodes torn from
their parent by a tie, certain nodes that lose the merge to a duplicate or to nobody, and walks that accept a torn node. Three passes of `host_copy` let a pinned block come back with the
content of the pass before the last.

Deadlock is checked in `pool`, `serving`, `serving_deep` and `overlap`. Elsewhere the system does
stop: in `graphs` the process ends with an exception, in `output` and `draft_tree`
the request or the pass is over, in `target` and `host_copy` the bound is reached.

Fairness. `event_loop_normal` and `event_loop_overlap` are `while True` on one thread,
so their loops keep taking steps: `[]<><<Loop>>_vars` in `SpecBlockServing` (a step of
the loop is always possible there, so this is weak fairness), `WF_vars(Loop)` in
`SpecBlockOverlap`. The device completes queued work: `WF_vars(EndPass)`. Kernels run to
completion: `WF_vars(Next)` in `DraftTree`. Nothing is assumed of clients, of
acceptance or of EOS; `max_new_tokens` is what ends a request.

Each property has a mutant, a plausible slip in the mapped code that TLC finds:
among them EAGLE's `[:B]` truncation in `filter_batch`, a `_grow` that does not bump
`pool_version`, a lookup that invalidates on hits only, a refresh without
its one-token shift, a `batch_is_full` that is not cleared, an over-allocation for
one pass instead of two, a merge that does not redirect the children of a duplicate, and a scheduler
that does not wait for `copy_done`.

## What the violations show

* `serving_leak`. `ScheduleBatch.filter_batch` returns early when it keeps no
  request (`managers/schedule_batch.py:2002`), so `spec_info.filter_batch`, which
  returns dropped slots to the pool, is not called. Whenever a batch loses all its
  requests at once their slots are lost until a flush. `LeaksOnlyWhenEmptied`, which
  holds, says that this is the only way: partial filters, retraction, rollback and
  refresh return what they drop. `release_resources` would do it; nothing calls it.
* `target_tree`. With the overlap worker an accepted path is neither moved nor
  remapped (`speculative/specblock_info.py:1490`): `seq_lens` advances over the first
  slots of the window. If the path skipped a node, the next pass attends to a rejected
  token in place of an accepted one. EAGLE V2, whose pattern the comment cites, is
  restricted to chains; SpecBlock is exempted from that restriction. `target` shows that
  on chains, and with the synchronous worker on trees, the context is right.
* `host_copy_sync`. `_fill_requests` starts copies with `non_blocking=True` and reads them
  in the next statement (`speculative/specblock_info.py:1285`). `host_copy` shows that the
  overlap scheduler, which waits for an event, reads the right paths.

Seen while modelling and not the subject of a run:

* the pool's free list is a queue (`spec_kv_pool.py:268`), the comment at 151 calls it a
  stack; a growth that passes the cap is refused, not clamped (`:298`), so with the
  defaults the pool ends at 475136 of 524288 slots;
* without the plan stream, which is the default, `verify` creates no event
  (`specblock_worker_v2.py:664`) and the schedule stream reads `seq_lens` while the forward stream may
  still write them; the lengths of a merged prefill are not waited for in either case. The comments
  "Current implementation strictly synchronizes the seq_lens" (`scheduler.py:2219`) and "current batch is
  always prefill, whose seq_lens is not a future" (`schedule_batch.py:2059`) do not hold there. The run has
  this configuration: the lengths read are `Unknown`, and windows, ring entries and tokens, which count from
  `kv_committed_len` and the ring, are right all the same. What attention planning makes of a wrong
  `seq_lens_cpu` is not modelled;
* `StopsAtFirst` is stated for the synchronous worker. The overlap scheduler tests the length and the grammar
  before the stop token (`schedule_batch.py:1044`), so it hands out tokens behind a stop, against "Get the output ids
  through the stop condition" (`:792`); `OvershootBounded` says how many. It misses a stop string for good when more
  than two tokens of its path follow it (`:938`), which `StopNoticed` says is the only stop it misses;
* a grammar completed inside a path is noticed one token late by the synchronous worker
  (`specblock_info.py:1303`), at the next pass by the overlap scheduler, and both report the last token as the
  matched one (`schedule_batch.py:1053`), whichever it is. A token the grammar rejects ends the process in the
  synchronous worker;
* the comment "Top-k cumulative probability is ancestor-closed" (`specblock_tree_kernels.py:1654`) is false on ties. A
  token whose log probability rounds to 0 scores as its parent does, and top-k may keep it alone. It is then
  linked below the root, with the position of its depth and a mask without its parent, and the target's walk can accept
  it there. `TornOnlyByTies` says that nothing else tears the tree; `WalkComplete` is stated for trees that are not torn;
* the key of a score of exactly 0.0 has its sign bit set (`:1552`), so below the first depth a certain node
  loses the merge: to a less likely duplicate, or to the empty cell of its group. In the second case the node is lost
  and its children get the parent 0xFFFFFFFF, an index out of bounds. `BestPathsPacked` holds for all other paths;
* parents need not precede their children in a packed tree: raw nodes are in
  that order (`specblock_tree_kernels.py:1463`), but the merge gives the children of a
  loser to a winner which may be an alternative, and alternatives come after all
  chains. The mask, the links, the page move and `out_cache_loc[accept_index]` do not
  depend on the order. `move_kv_cache` does when it copies more than one chunk
  (`mem_cache/memory_pool.py:981`), which is not modelled;
* the overlap worker reads path lengths with `tolist()` before their copy is done
  (`specblock_worker.py:1040`);
* the refresh runner caps its capacity at 16 rows, the draft runner does not; after a
  chunked prefill or a radix hit the draft cache covers only the last extended segment
  (the reference is stated for that segment); `layers/attention/triton_backend.py:96`
  calls `is_specblock_shift()`, which is not defined.

## What is proved

`SpecBlockKVPool_proofs` proves, for every set of clients and layers and every
initial size, cap and growth chunk (`InitialPoolSize >= 2`, as `__init__` demands, and
`GrowChunk > 0`; `Zero` is no client):

| Theorem | Statement |
|---|---|
| `TypeCorrect` | `Spec => []PoolTypeOK` |
| `Conservation` | `Spec => []SlotsConserved` |
| `SentinelZero` | `Spec => []SentinelStaysZero` |
| `CapHolds` | `Spec => []CapRespected` |
| `ReplacementVisible` | `Spec => BuffersReplacedVisibly` |
| `Implementation` | `Spec => ImplementsPrivateSlots` |

The inductive invariant `PoolInv` is the conjunction of the four state
properties; none of its parts is inductive alone. That the free list has no
duplicates needs that what is freed is owned and that owned slots are not free; that
a store misses the sentinel needs that owned slots lie in `1..pool_size-1`; that
`high_water` is below the size needs the conserved counter. The argument goes
through lemmas on lists without repetition (concatenation, prefixes, suffixes),
then one lemma for growth, one for `alloc`, and one per action. The refinement
proof maps each action to one step of `PrivateSlots` under the same invariant.

`Output_proofs` proves of `RequestOutput`, for every limit, path length, stop-string tail and stream
interval (`OutputAssumption`: all of them positive), and for both workers where the
property speaks of both:

| Theorem | Statement |
|---|---|
| `OutputTypeCorrect` | `Spec => []OutputTypeOK` |
| `StreamCorrect` | `Spec => []StreamedInOrder` |
| `MatchedTokenCorrect` | `Spec => []MatchedTokenIsLast` |
| `StopNoticedHolds` | `Spec => []StopNoticed` |
| `StopsAtFirstHolds` | `Spec => []StopsAtFirst` |
| `OvershootHolds` | `Spec => []OvershootBounded` |

The inductive invariant `OutputInv` says that a request that goes on has no cut, no
EOS or NaN token and fewer than `MaxNew` tokens, so that a stop is always found among
the new tokens; that a completed grammar was completed by a token of the output; that what was sent is a
prefix that a cut never falls behind; and that `finished_output` is set exactly when the finish was reported.
`LateInv` adds what may be noticed late: for both workers how far back a stop
token, a stop string or the token that completed the grammar can be (`Bounded`), and for the synchronous worker that only
the last token can meet a stop condition and only the last two can have completed the grammar
(`StopIsLast`). It gives the last three theorems. One lemma describes `ThroughStop`, one
`Checked`, one `Accepted`, one `Streamed`; the step lemmas then have one case per action.

Of `HostCopy` it proves, for every set of requests, path length, stride and number of passes:

| Theorem | Statement |
|---|---|
| `PathsAreTaken` | `SpecV2` implies `SpecOverlap => []PathsTaken` |

Two arguments meet here. The first is about packing (`_pack_verified_ids` and the
slices the scheduler takes): the ends of the rows are running sums of the lengths
(`SumsExist`, `EndsSums`), the search among them finds for each place the row that
covers it (`RowApart`, `Covered`), so that a row's places are apart from all others (`DestinationOf`,
`PackedRows`) and the slice of a request gives back its path (`RowsRead`). The second is about time:
the pinned blocks are used again, and a result may be read long after its pass. The
inductive invariant `CopyInv` says that a pass begins with a drained stream, that only the newest
pass has copies in the queue (`StreamInv`), and that the mark of the newest result is the number of copies
that have run and of those still queued (`ResultInv`), so `CopyDone` cannot hold too early. Without
the event the theorem is false; run `host_copy_sync` shows it.

`SpecBlockGraphs_proofs` proves, for every set of capacities and widths, every pool and
every number of rows (`GraphAssumption`: buckets and the block width `K` are positive):

| Theorem | Statement |
|---|---|
| `GraphTypes` | `Spec => []GraphTypeOK` |
| `ReplaysAreCurrent` | `Spec => []ReplayCurrent` |
| `CurrentGraphsStay` | `Spec => CurrentGraphsKept` |
| `ReplaysReadOwnRows` | `Spec => ReadsOwnRows` |

The inductive invariant `GraphInv` says of each runner's cache that all its graphs
bear one stamp, that a graph stamped with the present `pool_version` holds the present
addresses, and that its static inputs have the key's shape; from the lookup to the replay every
stamp is current. That no replay reads a slot of an earlier batch needs two more parts: no
slot is in two rows or in a row and free (`SlotInv`), and the rows fit the key that was
resolved for them, including the block that the next roll-back takes off (`RowInv`).

`SpecBlockServing_proofs` proves, for every set of requests, batch size, chunk size, limit,
tree size and pool (`ServingAssumption` and the pool's own assumptions):

| Theorem | Statement |
|---|---|
| `ServingTypes` | `Spec => []ServingTypeOK` |
| `RowsStayAligned` | `Spec => []RowsAligned` |
| `RequestsServedOnce` | `Spec => []ServedOnce` |
| `SlotsStayAccounted` | `Spec => []SlotsAccounted` |
| `OnlyEmptyingLeaks` | `Spec => LeaksOnlyWhenEmptied` |
| `ReferenceImplemented` | `Spec => ImplementsReference` |

`ServingInv` adds to those properties that the segments of a prefill batch belong to active requests
outside the running batch and that exactly the chunked one stops short (`CurOK`), that the
chunked request has tokens left (`ChunkOK`), that the parallel lists of a batch have one length,
and that the slots of the running and of the last batch are disjoint, not free and inside
the pool (`SlotInv`). `OnlyEmptyingLeaks` is the positive half of the finding `serving_leak`: each
step that does not empty a batch keeps every slot free or in use.

`ReferenceImplemented` is the equivalence the worker is written for: however requests are batched,
chunked, merged, filtered and retracted, each one's draft cache goes through the states of the
single-request loop. `ServingInv` says whose slots a row has and how many tokens it stands for,
not what each slot contains, and it need not: for each action one fact describes its rows after the
step by its rows before it. `RowsMerged` and `RowsKept` say that merging and filtering only move rows, `RowsPrefilled` and
`RowsRefreshed` give the entries that a prefill or a refresh puts into new slots and say that
the slots kept from before are not written to (this is where `SlotInv` is needed). As a request has one row (`ServedOnce`),
`session` reads that row (`SessionRows`), and so a step is one move of each request's loop: it
stays, it ends, or it is prefilled, rejected or accepted. What the reference computes block by block is
compared with the flat list of the code in `PrefilledBlocks`, `RejectedBlock` and `AcceptedBlocks`. The theorem uses that one prompt is
the longest (`ServingAssumption`): `validate_input_length` bounds the prompts, and the reference
takes its bound on tokens from it.

`SpecBlockOverlap_proofs` proves, for every set of requests, batch size, chunk size, tree
size, context length and start of the ring (`OverlapAssumption`: a tree has room for the
longest accepted path, a prompt with its output fits the context, and `MaxCuts < 2 * MaxRunning`;
`FutureAssumption`):

| Theorem | Statement |
|---|---|
| `OverlapTypes` | `Spec => []OverlapTypeOK` |
| `RowsStayCurrent` | `Spec => []RowsCurrent` |
| `WindowsAllocated` | `Spec => []WindowAllocated` |
| `CommittedTrails` | `Spec => []CommittedBehindDevice` |
| `ReleasesFinal` | `Spec => ReleasedForGood` |
| `StreamImplemented` | `Spec => ImplementsTokenStream` |

`OverlapInv` has eight parts; three carry the argument.

* `RingInv`. The rows of the running batch are stored again only by a decode pass, and
  between two of these any number of prefill batches may be launched. Why does the ring
  not wrap over a row that is still needed? Each admission takes a place of the running
  batch, and a request stores at most `MaxChunks` entries for the short segments that use up the chunk
  budget and one for its last, so `MaxRunning * (MaxChunks + 1)` entries at most are stored in
  between, and one for each segment that memory cut short, `MaxCuts`. That is less than the
  limit `MaxRunning * (3 + MaxChunks)` if `MaxCuts < 2 * MaxRunning`. `Spare(m)` is
  what is left of that budget when `m` segments of the chunked request are still to
  come, cut ones included; every row's entry is at most `Spare(m)` entries old.
* `TokenInv`. For a decoding request, the tokens it has and those of the at most two results in
  flight are the device's length and one: `Context + Gain(1) + Gain(2) = dev + 1`,
  and each result starts where the one before ends. The counter `is_chunked` (`pending`) is the number
  of results in flight that belong to a segment which stops short, and these come first. A
  request that was just prefilled gets nothing from the result before (`FreshOK`): without
  that the first step of a retracted and readmitted request could be given tokens of its former pass.
* `PassInv`. The allocation of `prepare_for_decode` counts from a length that misses
  the pass in flight; as it reserves for two passes, what the next one writes is covered.

The bound on `MaxCuts` is an assumption about memory, not a check of the code: `FutureMap` sizes its ring without
counting cut segments, and nothing in `add_chunked_req` limits them. The reason to believe it is that a cut takes all of
`rem_total_tokens`; after it nothing is left, so the next segment falls back to the whole chunk budget until memory
is released. Between two decode passes memory is released only when a result is processed that finishes requests:
the decode result in flight, and results of prefills that stop at their first token, each of which takes a place
of the running batch. That is one cut at first and at most one per such result, `MaxRunning + 1`, which is within the bound from
two running requests on; with one there is no row to overwrite while another request is chunked. That the page rounding of
`add_one_req` (`schedule_policy.py:692`) shortens nothing further follows from the chunk size and all
budget updates being multiples of the page size.

`TargetKV_proofs` proves, for every set of requests, prompt lengths, tree size and depth,
page size and number of pages (`TargetKVAssumption`: the deepest path fits the window, and
`ALLOC_LEN_PER_DECODE` is at least the window):

| Theorem | Statement |
|---|---|
| `TargetTypeCorrect` | `Spec => []TargetTypeOK` |
| `PagesAreConserved` | `Spec => []PagesConserved` |
| `ContextKept` | `Spec => [](PathKept => ContextIntact)` |

`PathKept` excludes one configuration, the overlap worker on trees, for which run
`target_tree` shows that `ContextIntact` fails. `TargetInv` has three parts. `LenInv` orders
the lengths: the synchronous worker keeps nothing allocated behind `len`, the overlap
worker at most two batches' worth. `PageInv` says that a row fills one page after the other
(`RowPaged`: the offset of the slot at position *p* is that of *p*, and two positions share
a page exactly if they are in the same block), that rows share no page with each
other or the free list, and that every page is somewhere. It is needed because the code rounds
lengths up to pages in four places (the tail of the last page, the pages drawn, the
rejected tail, the over-allocated range) and rounds each of them on its own. `KvOK` types the contents.
The lemmas go from arithmetic (quotients and remainders, the number of pages of a length) to
one row (`ExtendRow`, `CutPages`, `PagedRow`, `UnitRow`), then to a batch, whose rows
draw from consecutive parts of the free list (`AllocFacts`) and give back a concatenation
(`BatchGives`), then to the contents (`PassFacts`, `MoveFacts`) and to one lemma per action.

The loops over the rows of a batch (`AllocRows`, `FreeRows`, `CanRunLists`, `Segments`) are
recursive functions on the number of rows. What they preserve is proved by `UpTo`, induction up
to `n` over a set instead of a predicate, from the well-foundedness of the naturals.

Only model-checked:

* liveness (`AllServed` of both loops, `WalkEnds`), which is out of the prover's reach;
* the invariants of `DraftTree`. The paths and ancestors of a tree
  are defined by recursion over the tree, and what such a definition computes needs induction over data.

## Not modelled

Most of the repository is a full copy of SGLang (models, kernels, other speculative
methods, servers, benchmarks) that SpecBlock does not touch; the modules cover the
SpecBlock files and the parts of SGLang they drive. Of these are left out:

* attention, sampling and the target's forward pass: numeric, and what they decide is
  nondeterministic here;
* the radix tree (its hits are nondeterministic in `serving_deep`), hybrid and
  sliding-window pools, the host cache;
* the idle path of data-parallel attention and the buffers of the captured target graph;
* the eager and single-request variants of the tree kernels, the adaptive slot modes
  (off by default) and the MetaX kernels;
* the packing of the refresh tensor plan (its effect is in `RefreshEntries`), and the
  pending and accept buckets of a graph's key;
* disaggregation, pipeline parallelism, LoRA, priority preemption, mixed chunks and
  pausing (off for SpecBlock or independent of it);
* training, evaluation, UI and data scripts: offline code without shared state.

## Plan

Done, in the order of importance: the pool, serving and its reference,
graphs, the overlap loop, the target's slots, output, the draft tree, host
copies; the proofs of the pool, of output, of graphs, of serving, of the overlap loop,
of the target's slots, of the refinement of `SpecBlockReference` and of the host copies.

Left, in this order: `BestPathsPacked` for the top-k and packing steps of `DraftTree`;
`build_specblock_refresh_tensor_plan` and `resolve_buckets` as pure algorithms against
reference definitions; the abstraction of the overlap loop to the synchronous one for
draft rows; chunked moves of the target's slots.
