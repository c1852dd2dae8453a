--------------------------- MODULE SpecBlockGraphs ---------------------------
(***************************************************************************)
(* The two CUDA graph caches of the worker, SpecBlockDraftCudaGraphRunner  *)
(* and SpecBlockRefreshCudaGraphRunner, over a pool that may replace its   *)
(* tensors under them.                                                     *)
(*                                                                         *)
(* A captured graph reads the pool through the addresses it was captured   *)
(* with, and its inputs from static buffers that earlier batches have      *)
(* used.  So a replay is right only if the addresses are those of the      *)
(* current tensors and if nothing of an earlier batch is read.             *)
(*                                                                         *)
(* A decode iteration is StartDraft, Lookup [, Capture], Replay for the    *)
(* draft graph, then StartRefresh, Lookup [, Capture], Replay for the      *)
(* refresh graph.  Prefill and Drop change the batch between iterations.   *)
(* Of a graph key the batch capacity and the cross bucket are kept; the    *)
(* pending and the accept bucket select among graphs in the same way.      *)
(***************************************************************************)
EXTENDS KVPoolOps

CONSTANTS
  DraftCapacities, RefreshCapacities,  \* capture_bs of the two runners
  DraftWidths, RefreshWidths,          \* their cross_buckets
  K,             \* slots per block
  MaxAccept,     \* bound on the accepted tokens of a row
  MaxRows,       \* bound on the batch size
  MaxPrompt,     \* bound on the length of a prefill
  MaxWork,       \* bound on the number of prefill and decode batches
  PrecaptureWidths  \* values of SPECBLOCK_REFRESH_PRECAPTURE_MAX_CROSS

ASSUME GraphAssumption ==
  /\ DraftCapacities \cup RefreshCapacities \cup DraftWidths \cup RefreshWidths
       \subseteq Nat \ {0}
  /\ K \in Nat \ {0} /\ MaxAccept \in Nat /\ MaxRows \in Nat /\ MaxPrompt \in Nat
  /\ MaxWork \in Nat /\ PrecaptureWidths \subseteq Nat

VARIABLES
  pc,      \* where the worker is; "raised" after a RuntimeError
  turn,    \* the runner in use
  key,     \* the graph key resolved for it
  rows,    \* cross_loc of the active batch
  fresh,   \* new_indices_per_req of the refresh under way
  pool,    \* the worker's spec_kv_pool
  gen,     \* which tensors are k_buffer and v_buffer now
  graphs,  \* graphs[x][k]: the tensors whose addresses graph k of runner x holds
  stamp,   \* stamp[x][k]: pool_version_per_graph
  inbuf,   \* inbuf[x][k]: cross_loc and cross_count (cross_mask) of the static inputs
  work     \* batches run so far (bounds the exploration)

vars == <<pc, turn, key, rows, fresh, pool, gen, graphs, stamp, inbuf, work>>

Runners == {"draft", "refresh"}
Capacities(x) == IF x = "draft" THEN DraftCapacities ELSE RefreshCapacities
Widths(x) == IF x = "draft" THEN DraftWidths ELSE RefreshWidths
Keys(x) == Capacities(x) \X Widths(x)
NoGraphs == [k \in {} |-> 0]
NoKey == <<0, 0>>

\* The smallest bucket that holds n, 0 when there is none.
Resolve(buckets, n) ==
  IF \E b \in buckets : b >= n
  THEN CHOOSE b \in buckets : b >= n /\ \A c \in buckets : c >= n => b <= c
  ELSE 0

\* resolve_buckets of runner x for a batch whose rows have these lengths.
ResolveKey(x, lens) ==
  LET longest == CHOOSE n \in {lens[i] : i \in DOMAIN lens} :
                   \A i \in DOMAIN lens : lens[i] <= n
  IN  <<Resolve(Capacities(x), Len(lens)), Resolve(Widths(x), longest)>>

\* The part of a row a draft graph reads: all but the block it starts from.
Persistent(row) == SubSeq(row, 1, Len(row) - K)

-----------------------------------------------------------------------------
(* Mutants. *)

\* Only a lookup of a stale key itself notices that the pool has grown.
StaleOnHitOnly(x) == key \in DOMAIN graphs[x] /\ stamp[x][key] # pool.pool_version

\* Nothing is invalidated.
NeverStale(x) == FALSE

\* Capacity padding keeps the previous batch's rows.
DraftInputsUncleared(b) ==
  [loc |-> [i \in DOMAIN b.loc |-> [j \in DOMAIN b.loc[i] |->
      IF i <= Len(rows) /\ j <= Len(rows[i]) - K THEN rows[i][j] ELSE b.loc[i][j]]],
   count |-> [i \in DOMAIN b.count |->
      IF i <= Len(rows) THEN Len(rows[i]) - K ELSE b.count[i]]]

-----------------------------------------------------------------------------
\* can_run's test: some captured graph is not stamped with the current version.
Stale(x) ==
  /\ DOMAIN graphs[x] # {}
  /\ \/ DOMAIN stamp[x] # DOMAIN graphs[x]
     \/ \E k \in DOMAIN stamp[x] : stamp[x][k] # pool.pool_version

\* The static inputs a capture allocates: zeros.
ZeroInputs(k) ==
  [loc |-> [i \in 1..k[1] |-> [j \in 1..k[2] |-> Sentinel]], count |-> [i \in 1..k[1] |-> 0]]

\* _copy_spec_into_buffers: rows beyond the batch are cleared; of an active row
\* only the persistent prefix is written, the rest keeps what it held.
DraftInputs(b) ==
  [loc |-> [i \in DOMAIN b.loc |-> [j \in DOMAIN b.loc[i] |->
      IF i > Len(rows) THEN Sentinel
      ELSE IF j <= Len(rows[i]) - K THEN rows[i][j] ELSE b.loc[i][j]]],
   count |-> [i \in DOMAIN b.count |-> IF i > Len(rows) THEN 0 ELSE Len(rows[i]) - K]]

\* _copy_inputs of the refresh runner: whole rows, padded with the sentinel.
RefreshInputs(b) ==
  [loc |-> [i \in DOMAIN b.loc |-> [j \in DOMAIN b.loc[i] |->
      IF i <= Len(rows) /\ j <= Len(rows[i]) THEN rows[i][j] ELSE Sentinel]],
   count |-> [i \in DOMAIN b.count |-> IF i <= Len(rows) THEN Len(rows[i]) ELSE 0]]

\* The slots row i of the graph gathers from the pool.
Gathered(b, i) == SubSeq(b.loc[i], 1, b.count[i])

\* alloc replaces the tensors when it grows.
GenAfter(p) == IF p.pool_size > pool.pool_size THEN gen + 1 ELSE gen

\* The worker's __init__: no request, and the refresh graphs that
\* precapture_up_to(w) captures.
Init ==
  /\ pc = "idle" /\ turn = "draft" /\ key = NoKey
  /\ rows = <<>> /\ fresh = <<>>
  /\ pool = NewPool /\ gen = 0 /\ work = 0
  /\ \E w \in PrecaptureWidths :
       LET early == [x \in Runners |-> {k \in Keys(x) : x = "refresh" /\ k[2] <= w}]
       IN  /\ graphs = [x \in Runners |-> [k \in early[x] |-> gen]]
           /\ stamp = [x \in Runners |-> [k \in early[x] |-> pool.pool_version]]
           /\ inbuf = [x \in Runners |-> [k \in early[x] |-> ZeroInputs(k)]]

\* forward_draft_extend, one row: (n + 1) blocks of K slots.
Prefill(n) ==
  /\ pc = "idle" /\ Len(rows) < MaxRows /\ work < MaxWork
  /\ LET out == AllocRows(pool, <<(n + 1) * K>>)
     IN  /\ pc' = IF out.ok THEN "idle" ELSE "raised"
         /\ rows' = rows \o out.rows
         /\ pool' = out.pool /\ gen' = GenAfter(out.pool)
  /\ work' = work + 1
  /\ UNCHANGED <<turn, key, fresh, graphs, stamp, inbuf>>

\* filter_batch drops row i; dropping the last one returns before the spec_info
\* gives its slots back.
Drop(i) ==
  /\ pc = "idle"
  /\ pool' = IF Len(rows) = 1 THEN pool ELSE FreePool(pool, rows[i])
  /\ rows' = SubSeq(rows, 1, i - 1) \o SubSeq(rows, i + 1, Len(rows))
  /\ UNCHANGED <<pc, turn, key, fresh, gen, graphs, stamp, inbuf, work>>

\* _require_draft_graph_bucket.
StartDraft ==
  /\ pc = "idle" /\ rows # <<>> /\ work < MaxWork
  /\ work' = work + 1
  /\ LET k == ResolveKey("draft", [i \in DOMAIN rows |-> Len(rows[i]) - K])
     IN  /\ key' = k
         /\ pc' = IF k \in Keys("draft") THEN "lookup" ELSE "raised"
  /\ turn' = "draft"
  /\ UNCHANGED <<rows, fresh, pool, gen, graphs, stamp, inbuf>>

\* Mutant: _invalidate_all forgets pool_version_per_graph.
LookupStampsKept ==
  /\ pc = "lookup"
  /\ LET drop == Stale(turn)
     IN  /\ graphs' = IF drop THEN [graphs EXCEPT ![turn] = NoGraphs] ELSE graphs
         /\ inbuf' = IF drop THEN [inbuf EXCEPT ![turn] = NoGraphs] ELSE inbuf
         /\ pc' = IF ~drop /\ key \in DOMAIN graphs[turn] THEN "replay" ELSE "capture"
  /\ UNCHANGED <<turn, key, rows, fresh, pool, gen, stamp, work>>

\* can_run: drop every graph when one is stale, then look for the key.
Lookup ==
  /\ pc = "lookup"
  /\ LET drop == Stale(turn)
     IN  /\ graphs' = IF drop THEN [graphs EXCEPT ![turn] = NoGraphs] ELSE graphs
         /\ stamp' = IF drop THEN [stamp EXCEPT ![turn] = NoGraphs] ELSE stamp
         /\ inbuf' = IF drop THEN [inbuf EXCEPT ![turn] = NoGraphs] ELSE inbuf
         /\ pc' = IF ~drop /\ key \in DOMAIN graphs[turn] THEN "replay" ELSE "capture"
  /\ UNCHANGED <<turn, key, rows, fresh, pool, gen, work>>

\* A cache with an entry for k: one that is there stays.
WithEntry(f, k, v) == [x \in DOMAIN f \cup {k} |-> IF x \in DOMAIN f THEN f[x] ELSE v]

\* capture_one inside capture_mode; returns at once when the key is captured.
Capture ==
  /\ pc = "capture" /\ ~pool.in_capture
  /\ graphs' = [graphs EXCEPT ![turn] = WithEntry(@, key, gen)]
  /\ stamp' = [stamp EXCEPT ![turn] = WithEntry(@, key, pool.pool_version)]
  /\ inbuf' = [inbuf EXCEPT ![turn] = WithEntry(@, key, ZeroInputs(key))]
  /\ pc' = "replay"
  /\ UNCHANGED <<turn, key, rows, fresh, pool, gen, work>>

\* replay of the draft runner: copy the inputs, run.  No check of its own.
DraftReplay ==
  /\ pc = "replay" /\ turn = "draft"
  /\ inbuf' = [inbuf EXCEPT ![turn][key] = DraftInputs(@)]
  /\ pc' = "refresh"
  /\ UNCHANGED <<turn, key, rows, fresh, pool, gen, graphs, stamp, work>>

\* _refresh_draft_state up to the lookup: rejected roots give back their block,
\* the buckets are resolved, each row gets slots for its verified tokens.
StartRefresh(acc) ==
  /\ pc = "refresh"
  /\ LET kept == [i \in DOMAIN rows |-> IF acc[i] = 0 THEN Persistent(rows[i]) ELSE rows[i]]
         dropped == [i \in DOMAIN rows |->
                       IF acc[i] = 0 THEN SubSeq(rows[i], Len(rows[i]) - K + 1, Len(rows[i]))
                       ELSE <<>>]
         k == ResolveKey("refresh", [i \in DOMAIN kept |-> Len(kept[i])])
         out == AllocRows(FreeRows(pool, dropped), [i \in DOMAIN rows |-> (acc[i] + 1) * K])
     IN  IF k \in Keys("refresh")
         THEN /\ pc' = IF out.ok THEN "lookup" ELSE "raised"
              /\ turn' = "refresh" /\ key' = k
              /\ rows' = kept /\ fresh' = out.rows
              /\ pool' = out.pool /\ gen' = GenAfter(out.pool)
         ELSE /\ pc' = "raised"
              /\ pool' = FreeRows(pool, dropped)
              /\ UNCHANGED <<turn, key, rows, fresh, gen>>
  /\ UNCHANGED <<graphs, stamp, inbuf, work>>

\* replay of the refresh runner checks the stamp once more; the new slots join
\* the rows afterwards.
RefreshReplay ==
  /\ pc = "replay" /\ turn = "refresh"
  /\ IF stamp[turn][key] = pool.pool_version
     THEN /\ inbuf' = [inbuf EXCEPT ![turn][key] = RefreshInputs(@)]
          /\ pc' = "idle" /\ turn' = "draft" /\ key' = NoKey
          /\ rows' = [i \in DOMAIN rows |-> rows[i] \o fresh[i]]
          /\ fresh' = <<>>
          /\ UNCHANGED <<graphs, stamp>>
     ELSE /\ pc' = "raised"
          /\ graphs' = [graphs EXCEPT ![turn] = NoGraphs]
          /\ stamp' = [stamp EXCEPT ![turn] = NoGraphs]
          /\ inbuf' = [inbuf EXCEPT ![turn] = NoGraphs]
          /\ UNCHANGED <<turn, key, rows, fresh>>
  /\ UNCHANGED <<pool, gen, work>>

Next ==
  \/ \E n \in 1..MaxPrompt : Prefill(n)
  \/ \E i \in DOMAIN rows : Drop(i)
  \/ StartDraft \/ Lookup \/ Capture \/ DraftReplay
  \/ \E acc \in [DOMAIN rows -> 0..MaxAccept] : StartRefresh(acc)
  \/ RefreshReplay

Spec == Init /\ [][Next]_vars

-----------------------------------------------------------------------------
(* Properties. *)

\* Type invariant: graphs, stamps and input buffers have the same keys.
GraphTypeOK ==
  /\ pc \in {"idle", "lookup", "capture", "replay", "refresh", "raised"}
  /\ turn \in Runners /\ pool \in PoolRecord /\ gen \in Nat
  /\ \A x \in Runners :
       /\ DOMAIN graphs[x] \subseteq Keys(x)
       /\ DOMAIN stamp[x] = DOMAIN graphs[x] /\ DOMAIN inbuf[x] = DOMAIN graphs[x]
  /\ pc \in {"lookup", "capture", "replay"} => key \in Keys(turn)
  /\ pc = "replay" => key \in DOMAIN graphs[turn]

\* A graph about to be replayed holds the addresses of the tensors that are the
\* pool's now, although the pool may have grown since it was captured, and again
\* between the draft graph and the refresh graph of one iteration; so the check
\* inside the refresh runner's replay never fires.
ReplayCurrent ==
  pc = "replay" => graphs[turn][key] = gen /\ stamp[turn][key] = pool.pool_version

\* "prevents a stale graph from surviving until a later lookup and clearing graphs
\* captured against the new pool": a graph that holds the current addresses is
\* never thrown away, so the pool growing once costs each key one capture.
CurrentGraphsKept ==
  [][\A x \in Runners : \A k \in DOMAIN graphs[x] :
       graphs[x][k] = gen => k \in DOMAIN graphs'[x]]_vars

\* A replay reads, for each row of the batch, exactly the slots of that row, and
\* nothing for a row of capacity padding, whatever earlier batches left in the
\* static buffers of the graph.
ReadsOwnRows ==
  [][pc = "replay" /\ pc' # "raised" =>
       \A i \in 1..key[1] :
         Gathered(inbuf'[turn][key], i) =
           IF i > Len(rows) THEN <<>>
           ELSE IF turn = "draft" THEN Persistent(rows[i]) ELSE rows[i]]_vars
=============================================================================
