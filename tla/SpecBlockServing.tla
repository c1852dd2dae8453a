-------------------------- MODULE SpecBlockServing --------------------------
(***************************************************************************)
(* SpecBlock under the synchronous scheduler loop (event_loop_normal with  *)
(* SpecBlockWorker): continuous batching, chunked prefill, retraction, and *)
(* the draft state that travels with a batch.                              *)
(*                                                                         *)
(* The draft state of a request is not stored with the request.  It is row *)
(* i of the lists and tensors of batch.spec_info, and it belongs to        *)
(* batch.reqs[i] only because every filter, merge, prefill and refresh     *)
(* keeps the rows in step.  The slots in a row come from one shared pool.  *)
(* The properties say that each request nevertheless sees the cache that   *)
(* the single-request loop of SpecBlockReference would give it.            *)
(*                                                                         *)
(* One iteration of the loop is: receive (Recv, AbortWaiting, Flush), fold *)
(* the last prefill batch into the running batch (MergeLast), choose a     *)
(* batch (PickPrefill, PickDecode, PickIdle), run it and process its       *)
(* result (RunPrefill, RunDecode).  Tokens are named by their index in     *)
(* their request; which tokens the target accepts, when a request stops    *)
(* (EOS, abort), what memory is left and what the radix cache holds are    *)
(* nondeterministic.                                                       *)
(***************************************************************************)
EXTENDS KVPoolOps

CONSTANTS
  Reqs,          \* requests
  PromptLen(_),  \* length of a request's prompt
  MaxNew,        \* max_new_tokens
  MaxAccept,     \* the deepest path of a draft tree
  K,             \* slots per block
  MaxRunning,    \* pp_max_micro_batch_size
  ChunkSize,     \* chunked_prefill_size
  MaxHit,        \* bound on the prefix the radix cache has for a request
  Zero           \* what a slot of a new buffer holds

\* There are requests, and a longest prompt: validate_input_length bounds them all.
ASSUME ServingAssumption ==
  /\ MaxNew \in Nat \ {0} /\ MaxAccept \in Nat /\ K \in Nat \ {0}
  /\ MaxRunning \in Nat \ {0} /\ ChunkSize \in Nat \ {0} /\ MaxHit \in Nat
  /\ \A r \in Reqs : PromptLen(r) \in Nat \ {0}
  /\ \E q \in Reqs : \A r \in Reqs : PromptLen(r) <= PromptLen(q)

VARIABLES
  pc,       \* where the loop is
  status,   \* of each request
  ntok,     \* ntok[r]: tokens of r known so far, prompt and output
  chunk,    \* chunked_req with the length of its prefix, or NoChunk
  cur,      \* the prefill batch about to run: segments [req, from, to]
  running,  \* running_batch
  last,     \* last_batch when it is a prefill batch, else NoBatch
  pool,     \* the worker's spec_kv_pool
  content   \* content[s]: what slot s of the buffers holds

vars == <<pc, status, ntok, chunk, cur, running, last, pool, content>>

NoChunk == [filled |-> 0]
Chunk(r, n) == [req |-> r, filled |-> n]
InChunk(r) == chunk # NoChunk /\ chunk.req = r

\* A batch: reqs and seq_lens of ScheduleBatch; of its spec_info the per-row
\* lists cross_loc, cross_count, cross_position and, for the b0 tensors, the
\* token they were drafted from (root); and batch_is_full.
EmptyBatch ==
  [reqs |-> <<>>, seq_lens |-> <<>>, loc |-> <<>>, count |-> <<>>,
   position |-> <<>>, root |-> <<>>, full |-> FALSE]
NoBatch == EmptyBatch

Waiting == {r \in Reqs : status[r] = "waiting"}
MinOf(a, b) == IF a < b THEN a ELSE b

-----------------------------------------------------------------------------
\* The buffers after rows[i] is written with the entries cells[i].
Written(c, rows, cells) ==
  [s \in DOMAIN c |->
     IF \E i \in DOMAIN rows : \E j \in DOMAIN rows[i] : rows[i][j] = s
     THEN LET i == CHOOSE i \in DOMAIN rows : \E j \in DOMAIN rows[i] : rows[i][j] = s
              j == CHOOSE j \in DOMAIN rows[i] : rows[i][j] = s
          IN  cells[i][j]
     ELSE c[s]]

\* The entries of n blocks of K slots: block b is made from token Tok(b), its
\* first slot at position base + b.
Entries(r, n, Tok(_), base) ==
  [j \in 1..(n * K) |->
     LET b == (j - 1) \div K + 1 IN <<r, Tok(b), base + b + ((j - 1) % K)>>]

-----------------------------------------------------------------------------
(* Mutants. *)

\* EAGLE's fast path: the spec_info lists are cut to [:B], not gathered.
KeptRowsTruncated(b, keep) ==
  [b EXCEPT !.reqs = Gather(@, keep), !.seq_lens = Gather(@, keep),
            !.loc = SubSeq(@, 1, Len(keep)), !.count = SubSeq(@, 1, Len(keep)),
            !.position = SubSeq(@, 1, Len(keep)), !.root = Gather(@, keep)]

\* filter_batch returns the slots of the surviving rows.
FilteredPoolOfKept(p, b, keep) == FreeRows(p, Gather(b.loc, keep))

\* The rejected block is cut from the row and its slots are forgotten.
DroppedRowsForgotten(b, acc) == <<>>

\* A zero-accept refresh advances the position like a positive one.
RefreshedPositionAlways(p, a) == p + 1 + (a + 1)


\* max_new_tokens is compared one token too late.
StopAllowedLate(r, n, stop) == (n - PromptLen(r) = MaxNew + 1) => stop

\* The refresh drafts block b from the b-th verified token, not the one after it.
RefreshEntriesUnshifted(r, n, a, p) ==
  LET Tok(b) == n + b
  IN  Entries(r, a + 1, Tok, IF a = 0 THEN p ELSE p + 1)

\* A finished prefill does not clear batch_is_full.
FullAfterMergeSticky(shrunk) == running.full

\* The chunked request is not kept out of the merge.
MergedRowChunkedToo(r) == status[r] # "finished"

-----------------------------------------------------------------------------
(* ScheduleBatch.filter_batch and merge_batch with those of the spec_info. *)

\* The rows keep of every list and tensor.
KeptRows(b, keep) ==
  [b EXCEPT !.reqs = Gather(@, keep), !.seq_lens = Gather(@, keep),
            !.loc = Gather(@, keep), !.count = Gather(@, keep),
            !.position = Gather(@, keep), !.root = Gather(@, keep)]

\* Filtering out all requests returns early: only reqs is emptied, and the
\* spec_info, with the slots it names, is not touched.
Filtered(b, keep) ==
  IF Len(keep) = 0 THEN [b EXCEPT !.reqs = <<>>]
  ELSE IF Len(keep) = Len(b.reqs) THEN b
  ELSE KeptRows(b, keep)

\* The rows that are dropped go back to the pool, in row order.
FilteredPool(p, b, keep) ==
  IF Len(keep) \in {0, Len(b.reqs)} THEN p
  ELSE FreeRows(p, Gather(b.loc, Ascending(1..Len(b.loc) \ Elements(keep))))

\* The rows of c behind those of b: the spec_info, then the batch it belongs to.
MergedSpecInfo(b, c) ==
  [b EXCEPT !.loc = @ \o c.loc, !.count = @ \o c.count,
            !.position = @ \o c.position, !.root = @ \o c.root]

Merged(b, c) ==
  [MergedSpecInfo(b, c) EXCEPT !.reqs = @ \o c.reqs, !.seq_lens = @ \o c.seq_lens]

-----------------------------------------------------------------------------
(* The scheduler. *)

Init ==
  /\ pc = "recv"
  /\ status = [r \in Reqs |-> "new"]
  /\ ntok = [r \in Reqs |-> PromptLen(r)]
  /\ chunk = NoChunk
  /\ cur = <<>>
  /\ running = EmptyBatch
  /\ last = NoBatch
  /\ pool = NewPool
  /\ content = [s \in 0..(max_pool_size - 1) |-> Zero]

\* process_input_requests: a request arrives.
Recv(r) ==
  /\ pc = "recv"
  /\ status[r] = "new"
  /\ status' = [status EXCEPT ![r] = "waiting"]
  /\ UNCHANGED <<pc, ntok, chunk, cur, running, last, pool, content>>

\* abort_request for a queued request.  A running one is marked and finishes in
\* its next forward pass, which is one of the stops RunPrefill and RunDecode allow.
AbortWaiting(r) ==
  /\ pc = "recv"
  /\ status[r] = "waiting"
  /\ status' = [status EXCEPT ![r] = "finished"]
  /\ UNCHANGED <<pc, ntok, chunk, cur, running, last, pool, content>>

\* flush_cache, refused while a batch has requests: clear_cache_pool resets the pool.
Flush ==
  /\ pc = "recv"
  /\ running.reqs = <<>> /\ last.reqs = <<>>
  /\ last' = NoBatch
  /\ pool' = ResetPool(pool)
  /\ UNCHANGED <<pc, status, ntok, chunk, cur, running, content>>

\* batch_is_full of running_batch after the last batch was filtered.
FullAfterMerge(shrunk) == running.full /\ ~shrunk

\* A row of the last batch that joins the running batch.
MergedRow(r) == status[r] # "finished" /\ ~InChunk(r)

\* get_next_batch_to_run, first part: filter the last prefill batch and let it
\* join or become the running batch.
MergeLast ==
  /\ pc = "recv"
  /\ pc' = "pick"
  /\ LET keep == Ascending({i \in 1..Len(last.reqs) : MergedRow(last.reqs[i])})
         rest == Filtered(last, keep)
         full == FullAfterMerge(Len(rest.reqs) < Len(last.reqs))
     IN  /\ pool' = FilteredPool(pool, last, keep)
         /\ running' = IF rest.reqs = <<>> THEN [running EXCEPT !.full = full]
                       ELSE IF running.reqs = <<>> THEN rest
                       ELSE [Merged(running, rest) EXCEPT !.full = full]
  /\ last' = NoBatch
  /\ UNCHANGED <<status, ntok, chunk, cur, content>>

\* get_num_allocatable_reqs less what can_run_list holds.
Allocatable(segs) == MaxRunning - Len(running.reqs) - Len(segs)

\* add_chunked_req and add_one_req: as much of the request as the chunk budget
\* allows, behind the prefix that is cached.
Segment(r, from, left) == [req |-> r, from |-> from, to |-> MinOf(ntok[r], from + left)]
Truncated(s) == s.to < ntok[s.req]

\* The PrefillAdder: can_run_list, and rem_chunk_tokens after each request it takes.
NewAdder == [segs |-> <<>>, left |-> ChunkSize]
Added(a, s) == [segs |-> Append(a.segs, s), left |-> a.left - (s.to - s.from)]
ChunkedAdder ==
  IF chunk = NoChunk THEN NewAdder
  ELSE Added(NewAdder, Segment(chunk.req, chunk.filled, ChunkSize))

\* The adders after one more waiting request, which is not yet in the list and of
\* which something is left to compute.
MayTake(a, r, hit) ==
  /\ ~running.full /\ Allocatable(a.segs) > 0 /\ a.left > 0
  /\ hit < ntok[r] /\ \A i \in DOMAIN a.segs : a.segs[i].req # r
Extended(S) ==
  S \cup {Added(x[1], Segment(x[2], x[3], x[1].left)) :
            x \in {y \in S \X Waiting \X (0..MaxHit) : MayTake(y[1], y[2], y[3])}}

\* The batches that _get_new_batch_prefill_raw can build: the chunked request
\* first, then waiting requests in any order the policy may choose.
CanRunLists ==
  LET adders[n \in 0..MaxRunning] ==
        IF n = 0 THEN {ChunkedAdder} ELSE Extended(adders[n - 1])
  IN  {a.segs : a \in adders[MaxRunning]}

\* How the loop over waiting_queue may end after segs, and batch_is_full then:
\* the batch is full or the adder said NO_TOKEN (which it does not when nothing
\* runs and nothing was taken), or the queue or a token budget was exhausted.
StopsWith(segs, full) ==
  LET rest == Waiting \ {segs[i].req : i \in DOMAIN segs}
      added == segs # ChunkedAdder.segs
  IN  IF running.full THEN full
      ELSE IF ~added /\ rest = {} THEN ~full
      ELSE IF ~added /\ Allocatable(segs) <= 0 THEN full
      ELSE segs # <<>> \/ (full /\ running.reqs # <<>>)

\* A new prefill batch.
PickPrefill(segs, full) ==
  /\ pc = "pick"
  /\ segs # <<>>
  /\ StopsWith(segs, full)
  /\ pc' = "prefill"
  /\ cur' = segs
  /\ status' = [r \in Reqs |->
       IF \E i \in DOMAIN segs : segs[i].req = r THEN "active" ELSE status[r]]
  /\ LET final == segs[Len(segs)]
     IN  chunk' = IF Truncated(final) THEN Chunk(final.req, final.to) ELSE NoChunk
  /\ running' = [running EXCEPT !.full = full]
  /\ UNCHANGED <<ntok, last, pool, content>>

\* retract_decode pops rows from the back, and always keeps one: the numbers of
\* rows it may leave of n.  (All n when memory suffices, none when none are left.)
Retractions(n) == IF n = 0 THEN {0} ELSE 1..n

\* No prefill: update_running_batch drops the finished requests and, when memory
\* is short, retracts.
PickDecode(full, kept) ==
  /\ pc = "pick"
  /\ chunk = NoChunk
  /\ StopsWith(<<>>, full)
  /\ running.reqs # <<>>
  /\ LET alive == Ascending({i \in 1..Len(running.reqs) :
                              status[running.reqs[i]] # "finished"})
         batch == Filtered(running, alive)
         front == [i \in 1..kept |-> i]
         final == Filtered(batch, front)
     IN  /\ kept \in Retractions(Len(alive))
         /\ pool' = FilteredPool(FilteredPool(pool, running, alive), batch, front)
         /\ running' = [final EXCEPT !.full = full /\ kept = Len(running.reqs)]
         /\ status' = [r \in Reqs |->
              IF \E i \in (kept + 1)..Len(alive) : batch.reqs[i] = r
              THEN "waiting" ELSE status[r]]
  /\ pc' = IF kept = 0 THEN "recv" ELSE "decode"
  /\ UNCHANGED <<ntok, chunk, cur, last, content>>

\* Nothing to run.
PickIdle ==
  /\ pc = "pick"
  /\ chunk = NoChunk
  /\ running.reqs = <<>>
  /\ \E full \in BOOLEAN : StopsWith(<<>>, full) /\ running' = [running EXCEPT !.full = full]
  /\ pc' = "recv"
  /\ UNCHANGED <<status, ntok, chunk, cur, last, pool, content>>

\* check_finished after n output tokens: max_new_tokens forces the stop, EOS and
\* abort may bring it earlier.
StopAllowed(r, n, stop) == (n - PromptLen(r) = MaxNew) => stop

\* process_batch_result_decode and _prefill: the requests that stop are released;
\* their rows stay in the batch until the next filter.
Finished(stops) == [r \in Reqs |-> IF r \in stops THEN "finished" ELSE status[r]]

-----------------------------------------------------------------------------
(* The worker. *)

\* Prefill of a row: extend_lens, and the entries prefill_and_draft makes of the
\* shifted ids, a block per token and one more from the sampled token.
ExtendLen(i) == cur[i].to - cur[i].from

PrefilledCells(i) ==
  LET Tok(b) == IF b <= ExtendLen(i) THEN cur[i].from + b + 1 ELSE cur[i].to + 1
  IN  Entries(cur[i].req, ExtendLen(i) + 1, Tok, 0)

\* forward_draft_extend: the batch with a new spec_info, whose slots are rows.
PrefilledBatch(rows) ==
  [reqs |-> [i \in DOMAIN cur |-> cur[i].req],
   seq_lens |-> [i \in DOMAIN cur |-> cur[i].to],
   loc |-> rows,
   count |-> [i \in DOMAIN cur |-> (ExtendLen(i) + 1) * K],
   position |-> [i \in DOMAIN cur |-> ExtendLen(i) + 1],
   root |-> [i \in DOMAIN cur |-> <<cur[i].req, cur[i].to + 1>>],
   full |-> FALSE]

\* process_batch_result_prefill: the requests whose prompt ends in this batch get
\* a token; one that is still being chunked (is_chunked > 0) gets none.
PromptEnds == {cur[i].req : i \in {j \in DOMAIN cur : ~Truncated(cur[j])}}

\* forward_batch_generation on an extend batch, and its result: each row's dense
\* cache is moved into fresh slots (_dense_to_paged).
RunPrefill(stops) ==
  /\ pc = "prefill"
  /\ stops \subseteq PromptEnds
  /\ \A r \in PromptEnds : StopAllowed(r, ntok[r] + 1, r \in stops)
  /\ LET out == AllocRows(pool, [i \in DOMAIN cur |-> (ExtendLen(i) + 1) * K])
     IN  /\ out.ok
         /\ pool' = out.pool
         /\ content' = Written(content, out.rows, [i \in DOMAIN cur |-> PrefilledCells(i)])
         /\ last' = PrefilledBatch(out.rows)
  /\ ntok' = [r \in Reqs |-> IF r \in PromptEnds THEN ntok[r] + 1 ELSE ntok[r]]
  /\ status' = Finished(stops)
  /\ cur' = <<>>
  /\ pc' = "recv"
  /\ UNCHANGED <<chunk, running>>

\* The row of a request with a accepted tokens once a rejected root's block is
\* dropped, and the slots that are dropped.
RolledBackLoc(loc, a) == IF a = 0 THEN SubSeq(loc, 1, Len(loc) - K) ELSE loc
DroppedLoc(loc, a) == IF a = 0 THEN SubSeq(loc, Len(loc) - K + 1, Len(loc)) ELSE <<>>

\* The dropped slots of all rows, in row order.
DroppedRows(b, acc) == [i \in DOMAIN acc |-> DroppedLoc(b.loc[i], acc[i])]

\* cross_position after a refresh.
RefreshedPosition(p, a) == IF a = 0 THEN p ELSE p + 1 + (a + 1)

\* The entries of a refresh: block b of the a + 1 verified tokens is made from
\* the token after the b-th one, the last block from the bonus token itself.
RefreshEntries(r, n, a, p) ==
  LET Tok(b) == n + MinOf(b + 1, a + 1)
  IN  Entries(r, a + 1, Tok, IF a = 0 THEN p ELSE p + 1)

\* _fill_requests: a accepted tokens and the bonus are appended to r one by one,
\* and the path is cut where the request stops.
PathCommitted(r, a, stop) ==
  /\ ntok[r] + a + 1 <= PromptLen(r) + MaxNew
  /\ StopAllowed(r, ntok[r] + a + 1, stop)

\* _verify_and_accept: a path for every row of the batch; verify then advances
\* seq_lens by the path and its bonus.
Verified(acc, stops) ==
  /\ stops \subseteq {running.reqs[i] : i \in DOMAIN acc}
  /\ \A i \in DOMAIN acc : PathCommitted(running.reqs[i], acc[i], running.reqs[i] \in stops)
VerifiedLens(lens, acc) == [i \in DOMAIN acc |-> lens[i] + acc[i] + 1]

\* The end of _refresh_draft_state: the spec_info over the rolled-back rows and
\* the new ones.
RefreshedBatch(b, acc, rows) ==
  [b EXCEPT
     !.seq_lens = VerifiedLens(@, acc),
     !.loc = [i \in DOMAIN acc |-> RolledBackLoc(@[i], acc[i]) \o rows[i]],
     !.count = [i \in DOMAIN acc |->
                 (IF acc[i] = 0 THEN @[i] - K ELSE @[i]) + (acc[i] + 1) * K],
     !.position = [i \in DOMAIN acc |-> RefreshedPosition(@[i], acc[i])],
     !.root = [i \in DOMAIN acc |->
                 <<b.reqs[i], ntok[b.reqs[i]] + acc[i] + 1>>]]

\* forward_batch_generation on a decode batch, and its result: draft, verify with
\* acc[i] accepted tokens in row i, then _refresh_draft_state over all rows,
\* stopped ones included.
RunDecode(acc, stops) ==
  /\ pc = "decode"
  /\ Verified(acc, stops)
  /\ LET b == running
         out == AllocRows(FreeRows(pool, DroppedRows(b, acc)),
                          [i \in DOMAIN acc |-> (acc[i] + 1) * K])
         cells == [i \in DOMAIN acc |->
                     RefreshEntries(b.reqs[i], ntok[b.reqs[i]], acc[i], b.position[i])]
     IN  /\ out.ok
         /\ pool' = out.pool
         /\ content' = Written(content, out.rows, cells)
         /\ running' = RefreshedBatch(b, acc, out.rows)
         /\ ntok' = [r \in Reqs |->
              IF \E i \in DOMAIN acc : b.reqs[i] = r
              THEN ntok[r] + acc[CHOOSE i \in DOMAIN acc : b.reqs[i] = r] + 1
              ELSE ntok[r]]
  /\ status' = Finished(stops)
  /\ pc' = "recv"
  /\ UNCHANGED <<chunk, cur, last>>

-----------------------------------------------------------------------------
\* The loop's own steps, as opposed to what clients send.
Loop ==
  \/ MergeLast
  \/ \E segs \in (IF pc = "pick" THEN CanRunLists ELSE {}), full \in BOOLEAN :
       PickPrefill(segs, full)
  \/ \E full \in BOOLEAN, kept \in 0..Len(running.reqs) : PickDecode(full, kept)
  \/ PickIdle
  \/ \E stops \in SUBSET Reqs : RunPrefill(stops)
  \/ \E acc \in [DOMAIN running.reqs -> 0..MaxAccept], stops \in SUBSET Reqs :
       RunDecode(acc, stops)

Next ==
  \/ \E r \in Reqs : Recv(r) \/ AbortWaiting(r)
  \/ Flush
  \/ Loop

Spec == Init /\ [][Next]_vars

\* The loop is a single thread that never waits: it keeps taking steps, with or
\* without requests.  Clients promise nothing.  (MergeLast has no guard but pc,
\* and elsewhere only the loop can move, so where there is no deadlock some step
\* of the loop is always possible and this is weak fairness.)
FairSpec == Spec /\ []<><<Loop>>_vars

-----------------------------------------------------------------------------
(* Properties. *)

\* The rows that still have an owner.
LiveRows(b) == IF b.reqs = <<>> THEN {} ELSE {b.loc[i] : i \in DOMAIN b.loc}
RowSlots(row) == {row[j] : j \in DOMAIN row}
LiveSlots(b) == UNION {RowSlots(row) : row \in LiveRows(b)}
OwnedSlots == LiveSlots(running) \cup LiveSlots(last)
FreeSlots == {pool.free[i] : i \in DOMAIN pool.free}

\* Slots that are neither free nor in the row of any batch with requests: only a
\* flush brings them back.
Leaked == 1..(pool.pool_size - 1) \ (FreeSlots \cup OwnedSlots)

\* Type invariant of the loop's state.
ServingTypeOK ==
  /\ pc \in {"recv", "pick", "prefill", "decode"}
  /\ status \in [Reqs -> {"new", "waiting", "active", "finished"}]
  /\ \A r \in Reqs : ntok[r] \in PromptLen(r)..(PromptLen(r) + MaxNew)
  /\ chunk = NoChunk \/ (/\ chunk.req \in Reqs /\ status[chunk.req] = "active"
                         /\ chunk.filled \in 1..(ntok[chunk.req] - 1))
  /\ \A i \in DOMAIN cur : status[cur[i].req] = "active"
  /\ pool \in PoolRecord /\ pool.n_alloc \in Nat

\* Row i of a batch describes request reqs[i]: the target's seq_lens, the length
\* of the slot list against cross_count, and the token the b0 tensors start from.
RowAligned(b, i) ==
  LET r == b.reqs[i]
  IN  /\ Len(b.loc[i]) = b.count[i]
      /\ b.seq_lens[i] = ntok[r] - 1
      /\ b.root[i] = <<r, ntok[r]>>
      /\ \A j \in DOMAIN b.loc[i] : content[b.loc[i][j]][1] = r

\* "in lockstep with batch.reqs": whatever filters, merges, chunks, retractions
\* and stops happened, each row of the running batch, and each row of the last
\* prefill batch that is no chunk, is the row of its request, and its slots hold
\* entries computed for that request and no other.
RowsAligned ==
  \A b \in {running, last} : \A i \in DOMAIN b.reqs :
    InChunk(b.reqs[i]) \/ RowAligned(b, i)

\* No request is in two rows, and none is in a row and in the queue: a retracted
\* or chunked request would otherwise be served twice.
InRow(b, r) == \E i \in DOMAIN b.reqs : b.reqs[i] = r
ServedOnce ==
  \A r \in Reqs :
    /\ \A b \in {running, last} : \A i, j \in DOMAIN b.reqs :
         b.reqs[i] = r /\ b.reqs[j] = r => i = j
    /\ ~(InRow(running, r) /\ InRow(last, r))
    /\ (InRow(running, r) \/ InRow(last, r)) => status[r] \in {"active", "finished"}
    /\ status[r] = "active" =>
         InRow(running, r) \/ InRow(last, r) \/ InChunk(r) \/ \E i \in DOMAIN cur : cur[i].req = r

\* No slot is at two places of the rows of b.
NamedOnce(b) ==
  b.reqs # <<>> =>
    \A i, k \in DOMAIN b.loc : \A j \in DOMAIN b.loc[i], l \in DOMAIN b.loc[k] :
      b.loc[i][j] = b.loc[k][l] => i = k /\ j = l

\* Every slot named by a live row is named once and is not free, and _n_alloc
\* counts the slots that are not free.
SlotsAccounted ==
  /\ Cardinality(FreeSlots) = Len(pool.free)
  /\ FreeSlots \cap OwnedSlots = {}
  /\ NamedOnce(running) /\ NamedOnce(last) /\ LiveSlots(running) \cap LiveSlots(last) = {}
  /\ pool.n_alloc + Len(pool.free) = pool.pool_size - 1

\* Slots are lost only by a step that empties a batch: dropping some rows of a
\* batch, retracting, rolling back and refreshing return what they drop.
LeaksOnlyWhenEmptied ==
  [][~(Leaked' \subseteq Leaked) =>
       \/ running.reqs # <<>> /\ running'.reqs = <<>>
       \/ last.reqs # <<>> /\ ~\E i \in DOMAIN last.reqs : MergedRow(last.reqs[i])]_vars

\* "release the indices for dropped reqs back to the pool": no slot is ever
\* neither free nor owned.
NothingLeaked == Leaked = {}

\* The state of r's draft loop, read from whichever batch carries its row.
Session(b, r) ==
  LET i == CHOOSE i \in DOMAIN b.reqs : b.reqs[i] = r
  IN  [n |-> ntok[r], cache |-> [j \in DOMAIN b.loc[i] |-> content[b.loc[i][j]]],
       position |-> b.position[i]]

session ==
  [r \in Reqs |->
     IF status[r] # "active" \/ InChunk(r) THEN [n |-> 0, cache |-> <<>>, position |-> 0]
     ELSE IF InRow(running, r) THEN Session(running, r)
     ELSE IF InRow(last, r) THEN Session(last, r)
     ELSE [n |-> 0, cache |-> <<>>, position |-> 0]]

MaxTokens == CHOOSE n \in {PromptLen(r) + MaxNew : r \in Reqs} :
               \A r \in Reqs : PromptLen(r) + MaxNew <= n

\* Batched, paged, chunked and retracted, each request's draft cache goes through
\* the states of the single-request loop: the same entries, in the same order, at
\* the same positions.
Reference == INSTANCE SpecBlockReference
ImplementsReference == Reference!Spec

\* Every request that reaches the queue is finished: admission, batch_is_full,
\* chunking and retraction never leave one behind.
AllServed == \A r \in Reqs : status[r] = "waiting" ~> status[r] = "finished"
=============================================================================
