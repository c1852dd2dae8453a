-------------------------- MODULE SpecBlockOverlap --------------------------
(***************************************************************************)
(* SpecBlock under the overlap loop (event_loop_overlap with               *)
(* SpecBlockWorkerV2).  The host prepares and launches batch n + 1 before  *)
(* it has processed the result of batch n: it does not know yet how many   *)
(* tokens were accepted, nor which requests are finished.                  *)
(*                                                                         *)
(* What the next forward pass needs of the last one goes through FutureMap,*)
(* a ring of per-row entries that the device writes and reads; the batch   *)
(* keeps only their indices.  The target's KV slots are allocated ahead    *)
(* from a length that is one batch old.  Draft rows (cross_loc, ttt) are   *)
(* host lists outside the ring.                                            *)
(*                                                                         *)
(* One iteration: receive, MergeLast, a Pick... action                     *)
(* (get_next_batch_to_run), Launch... (run_batch), Process (the result of  *)
(* the batch before).  The device is the forward stream: the host blocks   *)
(* inside run_batch for most of a pass, but the last kernels of the pass   *)
(* (the copy of seq_lens, the store into the ring, the copy of the result  *)
(* to the host) run on after run_batch returned; tail says they are not    *)
(* done.                                                                   *)
(***************************************************************************)
EXTENDS RowLists

CONSTANTS
  Reqs,          \* requests
  PromptLen(_),  \* length of a request's prompt
  MaxNew,        \* max_new_tokens
  MaxAccept,     \* the deepest path of a draft tree
  DraftTokens,   \* speculative_num_draft_tokens: slots a verify pass writes
  StepsTimesTopk,\* speculative_num_steps * speculative_eagle_topk
  MaxRunning,    \* max_running_requests
  ChunkSize,     \* chunked_prefill_size
  ContextLen,    \* context_len
  MaxCuts,       \* segments that memory cuts short between two decode passes
  PlanStream,    \* SGLANG_ENABLE_OVERLAP_PLAN_STREAM
  Grammar,       \* the requests with a grammar
  SyncPrefills,  \* SGLANG_DISABLE_CONSECUTIVE_PREFILL_OVERLAP
  FutureStart,   \* where earlier requests left the pointer of the ring
  Unknown        \* what is read from a tensor that is not written yet

ASSUME OverlapAssumption ==
  /\ MaxNew \in Nat \ {0} /\ MaxAccept \in Nat /\ StepsTimesTopk \in Nat
  /\ DraftTokens \in Nat /\ DraftTokens >= MaxAccept + 1
  /\ MaxRunning \in Nat \ {0} /\ ChunkSize \in Nat \ {0}
  /\ {PlanStream, SyncPrefills} \subseteq BOOLEAN /\ Grammar \subseteq Reqs
  /\ ContextLen \in Nat \ {0} /\ MaxCuts \in 0..(2 * MaxRunning - 1)
  /\ \A r \in Reqs : PromptLen(r) \in Nat \ {0} /\ PromptLen(r) + MaxNew <= ContextLen
  /\ Unknown \notin Nat

VARIABLES
  pc,         \* where the host is
  status,     \* of each request; "retracted" is waiting with is_retracted
  out,        \* out[r]: output_ids
  committed,  \* committed[r]: kv_committed_len
  allocated,  \* allocated[r]: kv_allocated_len
  freed,      \* freed[r]: kv_committed_freed and kv_overallocated_freed
  pending,    \* pending[r]: is_chunked
  chunk,      \* chunked_req with the length of its prefix, or NoChunk
  cuts,       \* segments memory has cut short since the last decode pass
  cur,        \* the batch about to be launched: kind and segments
  running,    \* running_batch
  last,       \* last_batch: kind, and the batch when it is a prefill batch
  results,    \* result_queue
  ring,       \* the buffers of the future map
  future_ct,  \* its pointer
  dev,        \* dev[r]: tokens of r whose KV the device has, for the last pass
  tail,       \* the last pass has kernels outstanding
  raised      \* an assertion failed

reqVars  == <<status, out, committed, allocated, freed, pending>>
ringVars == <<ring, future_ct>>
vars == <<pc, reqVars, chunk, cuts, cur, running, last, results, ringVars, dev, tail, raised>>

NoChunk == [filled |-> 0]
InChunk(r) == chunk # NoChunk /\ chunk.req = r
Queued(r) == status[r] \in {"waiting", "retracted"}
Waiting == {r \in Reqs : Queued(r)}
Context(r) == PromptLen(r) + Len(out[r])
MinOf(a, b) == IF a < b THEN a ELSE b
MaxOf(a, b) == IF a > b THEN a ELSE b

\* A batch: reqs and seq_lens of ScheduleBatch, batch_is_full, and of its
\* spec_info the future indices and the draft rows (request and length each
\* was computed for).
EmptyBatch == [reqs |-> <<>>, lens |-> <<>>, futures |-> <<>>, rows |-> <<>>, full |-> FALSE]
NoBatch == [kind |-> "none", batch |-> EmptyBatch]
NoSegs == [kind |-> "none", segs |-> <<>>]

RowOf(s, r) == CHOOSE i \in DOMAIN s : s[i] = r

-----------------------------------------------------------------------------
(* Mutants. *)

\* The pointer of the ring is never wrapped.
FutureCtUnwrapped(bs) == future_ct + bs

\* Every batch takes the first entries of the ring.
FutureIndicesFirst(bs) == [i \in 1..bs |-> i]

\* EAGLE's filter_batch: only the future indices are gathered.
KeptRowsFuturesOnly(b, keep) ==
  [b EXCEPT !.reqs = Gather(@, keep), !.lens = Gather(@, keep),
            !.futures = Gather(@, keep), !.rows = SubSeq(@, 1, Len(keep))]

\* The slots for one batch are allocated, not for the one in flight as well.
AllocAheadOnce(r) == committed[r] + MaxOf(StepsTimesTopk, DraftTokens)

\* Results are dropped for retracted requests only.
SkippedRetractedOnly(r) == status[r] = "retracted"

\* A request that is found finished is released, whether or not this result did it.
ReleasedAgain(res, stops) ==
  {r \in Elements(res.reqs) : r \in stops \/ status[r] = "finished"}

\* The running batch is not filtered before its slots are allocated.
KeptInDecodeAll(r) == TRUE

\* is_chunked is ignored: every prefill result carries a token.
StillChunkedNever(r) == FALSE

\* accept_lens without the bonus token.
CommittedAfterWithoutBonus(res) ==
  [r \in Reqs |-> IF r \in Elements(res.reqs) THEN committed[r] + res.rows[RowOf(res.reqs, r)].n - 1
                  ELSE committed[r]]

\* A batch that shrinks does not reset batch_is_full.
FullAfterDecodeSticky(full, kept) == full

-----------------------------------------------------------------------------
(* FutureMap. *)

\* future_limit and future_buffer_len.
MaxChunks == (ContextLen + ChunkSize - 1) \div ChunkSize
FutureLimit == MaxRunning * (3 + MaxChunks)
FutureBufferLen == FutureLimit + 2 * MaxRunning
ASSUME FutureAssumption == FutureStart \in 0..(FutureLimit - 1)
NoEntry == [len |-> 0]

\* alloc_future_indices, store_to_map, resolve_future.
FutureIndices(bs) == [i \in 1..bs |-> future_ct + i]
FutureCt(bs) == (future_ct + bs) % FutureLimit
Stored(indices, entries) ==
  [k \in DOMAIN ring |->
     IF k \in Elements(indices) THEN entries[RowOf(indices, k)] ELSE ring[k]]
Resolved(b) == [i \in DOMAIN b.futures |-> ring[b.futures[i]]]

-----------------------------------------------------------------------------
(* ScheduleBatch.filter_batch and merge_batch with those of the spec_info. *)

\* V2's filter: the future indices and the lists; the tensors are not touched.
KeptRows(b, keep) ==
  [b EXCEPT !.reqs = Gather(@, keep), !.lens = Gather(@, keep),
            !.futures = Gather(@, keep), !.rows = Gather(@, keep)]

Filtered(b, keep) ==
  IF Len(keep) = 0 THEN [b EXCEPT !.reqs = <<>>]
  ELSE IF Len(keep) = Len(b.reqs) THEN b
  ELSE KeptRows(b, keep)

Merged(b, c) ==
  [b EXCEPT !.reqs = @ \o c.reqs, !.lens = @ \o c.lens,
            !.futures = @ \o c.futures, !.rows = @ \o c.rows]

\* maybe_wait_verify_done: a decode pass leaves an event to wait for only when
\* the plan stream is on; a prefill pass leaves none.
MustWait == PlanStream /\ last.kind = "decode"

\* seq_lens as the schedule stream reads them: written by the forward stream.
ReadLens(lens) == IF tail THEN [i \in DOMAIN lens |-> Unknown] ELSE lens

-----------------------------------------------------------------------------
(* Requests. *)

\* An idle server; what earlier requests left in the ring is nobody's entry.
Init ==
  /\ pc = "recv"
  /\ status = [r \in Reqs |-> "new"]
  /\ out = [r \in Reqs |-> <<>>]
  /\ committed = [r \in Reqs |-> 0]
  /\ allocated = [r \in Reqs |-> 0]
  /\ freed = [r \in Reqs |-> FALSE]
  /\ pending = [r \in Reqs |-> 0]
  /\ chunk = NoChunk /\ cuts = 0
  /\ cur = NoSegs
  /\ running = EmptyBatch
  /\ last = NoBatch
  /\ results = <<>>
  /\ ring = [k \in 1..FutureBufferLen |-> NoEntry]
  /\ future_ct = FutureStart
  /\ dev = [r \in Reqs |-> 0]
  /\ tail = FALSE
  /\ raised = FALSE

\* process_input_requests: a request arrives, or a queued one is aborted.
Recv(r) ==
  /\ pc = "recv"
  /\ status[r] = "new"
  /\ status' = [status EXCEPT ![r] = "waiting"]
  /\ UNCHANGED <<pc, out, committed, allocated, freed, pending, chunk, cuts, cur, running,
                 last, results, ringVars, dev, tail, raised>>

AbortWaiting(r) ==
  /\ pc = "recv"
  /\ Queued(r)
  /\ status' = [status EXCEPT ![r] = "finished"]
  /\ UNCHANGED <<pc, out, committed, allocated, freed, pending, chunk, cuts, cur, running,
                 last, results, ringVars, dev, tail, raised>>

-----------------------------------------------------------------------------
(* get_next_batch_to_run. *)

\* The rows of a prefill batch that go on to decode.
MergedRow(r) == status[r] # "finished" /\ ~InChunk(r)

\* The last prefill batch without the request that is being chunked joins or
\* becomes the running batch.  Its result is still in the queue.
MergeLast ==
  /\ pc = "recv"
  /\ LET read == [last.batch EXCEPT !.lens = ReadLens(@)]
         keep == Ascending({i \in 1..Len(read.reqs) : MergedRow(read.reqs[i])})
         rest == Filtered(read, keep)
         full == running.full /\ Len(rest.reqs) = Len(read.reqs)
     IN  running' = IF rest.reqs = <<>> THEN [running EXCEPT !.full = full]
                    ELSE IF running.reqs = <<>> THEN rest
                    ELSE [Merged(running, rest) EXCEPT !.full = full]
  /\ pc' = "pick"
  /\ UNCHANGED <<reqVars, chunk, cuts, cur, last, results, ringVars, dev, tail, raised>>

Allocatable(n) == MaxRunning - Len(running.reqs) - n

\* _rem_tokens of add_chunked_req: the chunk budget, or what memory leaves when that
\* is less (the whole budget again when it leaves nothing).
RemTokens ==
  {ChunkSize} \cup
  {n \in 1..(ChunkSize - 1) :
     chunk # NoChunk /\ n < Context(chunk.req) - chunk.filled /\ cuts < MaxCuts}

\* The segments of a prefill batch over the requests in order: each takes what is
\* left of the budget behind what is already filled.
Segments(order, rem) ==
  LET From(i) == IF InChunk(order[i]) THEN chunk.filled ELSE 0
      left[i \in 0..Len(order)] ==
        IF i = 0 THEN rem
        ELSE left[i - 1] - MinOf(left[i - 1], Context(order[i]) - From(i))
  IN  [i \in DOMAIN order |->
         [req |-> order[i], from |-> From(i),
          to |-> MinOf(Context(order[i]), From(i) + left[i - 1])]]

Truncated(s) == s.to < Context(s.req)

\* can_run_list: the chunked request first, then waiting requests in any order
\* the policy may choose, while the batch is not full and budget is left.
ChunkedFirst == IF chunk = NoChunk THEN <<>> ELSE <<chunk.req>>
CanRunLists(rem) ==
  LET more == IF running.full THEN {0} ELSE 0..MaxRunning
      orders == {ChunkedFirst \o o : o \in UNION {[1..n -> Waiting] : n \in more}}
  IN  {o \in orders :
         /\ Cardinality(Elements(o)) = Len(o)
         /\ Len(o) > Len(ChunkedFirst) => Allocatable(Len(o) - 1) > 0
         /\ \A i \in DOMAIN o : Segments(o, rem)[i].from < Segments(o, rem)[i].to}

\* How the loop over waiting_queue may end after order, and batch_is_full then:
\* full or NO_TOKEN (never when nothing runs and nothing was taken), or the queue
\* or a budget is exhausted.
StopsWith(order, full) ==
  LET added == order # ChunkedFirst
  IN  IF running.full THEN full
      ELSE IF ~added /\ Waiting \subseteq Elements(order) THEN ~full
      ELSE IF ~added /\ Allocatable(Len(order)) <= 0 THEN full
      ELSE order # <<>> \/ (full /\ running.reqs # <<>>)

\* A new prefill batch: prepare_for_extend sets both KV lengths.
PickPrefill(order, rem, full) ==
  /\ pc = "pick"
  /\ order # <<>>
  /\ StopsWith(order, full)
  /\ LET segs == Segments(order, rem)
         final == segs[Len(segs)]
         Extended(f) == [r \in Reqs |->
           IF r \in Elements(order) THEN segs[RowOf(order, r)].to ELSE f[r]]
     IN  /\ cur' = [kind |-> "extend", segs |-> segs]
         /\ committed' = Extended(committed)
         /\ allocated' = Extended(allocated)
         /\ chunk' = IF Truncated(final) THEN [req |-> final.req, filled |-> final.to]
                     ELSE NoChunk
         /\ pending' = [r \in Reqs |->
              IF r = final.req /\ Truncated(final) THEN pending[r] + 1 ELSE pending[r]]
  /\ status' = [r \in Reqs |-> IF r \in Elements(order) THEN "active" ELSE status[r]]
  /\ cuts' = IF rem < ChunkSize THEN cuts + 1 ELSE cuts
  /\ running' = [running EXCEPT !.full = full]
  /\ pc' = "launch"
  /\ UNCHANGED <<out, freed, last, results, ringVars, dev, tail, raised>>

\* The rows update_running_batch keeps: the host may not know yet that a request
\* of the batch in flight is finished.
KeptInDecode(r) == status[r] # "finished"

\* retract_decode leaves a front of the n rows, and always one.
Retractions(n) == IF n = 0 THEN {0} ELSE 1..n

\* kv_allocated_len after SpecBlockDraftInput.prepare_for_decode, with
\* ALLOC_LEN_PER_DECODE as SpecBlockWorkerV2 sets it.
AllocLenPerDecode == MaxOf(StepsTimesTopk, DraftTokens)
AllocAhead(r) == committed[r] + 2 * AllocLenPerDecode

FullAfterDecode(full, kept) == full /\ kept = Len(running.reqs)

\* No prefill: update_running_batch drops what it knows is finished, retracts when
\* memory is short (release_req resets the request), and prepares the decode.
PickDecode(full, kept) ==
  /\ pc = "pick"
  /\ chunk = NoChunk
  /\ StopsWith(<<>>, full)
  /\ running.reqs # <<>>
  /\ MustWait => ~tail
  /\ LET alive == Ascending({i \in 1..Len(running.reqs) : KeptInDecode(running.reqs[i])})
         batch == Filtered([running EXCEPT !.lens = IF last.kind = "decode" THEN ReadLens(@) ELSE @],
                           alive)
         final == Filtered(batch, [i \in 1..kept |-> i])
         dropped == Elements(batch.reqs) \ Elements(final.reqs)
         Reset(f, v) == [r \in Reqs |-> IF r \in dropped THEN v ELSE f[r]]
     IN  /\ kept \in Retractions(Len(batch.reqs))
         /\ running' = [final EXCEPT !.full = FullAfterDecode(full, kept)]
         /\ raised' = (raised \/ \E r \in dropped : freed[r])
         /\ status' = Reset(status, "retracted")
         /\ committed' = Reset(committed, 0)
         /\ freed' = Reset(freed, FALSE)
         /\ pending' = Reset(pending, 0)
         /\ allocated' = [r \in Reqs |->
              IF r \in dropped THEN 0
              ELSE IF r \in Elements(final.reqs) THEN AllocAhead(r) ELSE allocated[r]]
  /\ cur' = [kind |-> IF kept = 0 THEN "none" ELSE "decode", segs |-> <<>>]
  /\ pc' = "launch"
  /\ UNCHANGED <<out, chunk, cuts, last, results, ringVars, dev, tail>>

\* Nothing to run.
PickIdle ==
  /\ pc = "pick"
  /\ chunk = NoChunk
  /\ running.reqs = <<>>
  /\ \E full \in BOOLEAN : StopsWith(<<>>, full) /\ running' = [running EXCEPT !.full = full]
  /\ cur' = NoSegs
  /\ pc' = "launch"
  /\ UNCHANGED <<reqVars, chunk, cuts, last, results, ringVars, dev, tail, raised>>

-----------------------------------------------------------------------------
(* run_batch. *)

\* is_disable_overlap_for_batch: the last result is processed before the launch.
DisableOverlap ==
  /\ results # <<>>
  /\ \/ cur.kind = "decode" /\ Elements(running.reqs) \cap Grammar # {}
     \/ SyncPrefills /\ cur.kind = "extend" /\ last.kind = "extend"

\* A row's entry in the ring, and its tokens in the result.
Entry(r, n) == [req |-> r, len |-> n]
Tokens(first, n) == [first |-> first, n |-> n]

\* The end of run_batch: the entries are stored, the batch keeps their indices.
Launched(kind, names, entries, tokens) ==
  LET bs == Len(names)
      indices == FutureIndices(bs)
  IN  /\ ring' = Stored(indices, entries)
      /\ future_ct' = FutureCt(bs)
      /\ results' = Append(results, [kind |-> kind, reqs |-> names, rows |-> tokens])
      /\ dev' = [r \in Reqs |->
           IF r \in Elements(names) THEN entries[RowOf(names, r)].len ELSE dev[r]]
      /\ tail' = TRUE
      /\ cur' = NoSegs
      /\ pc' = "drain"

\* forward_batch_generation, path 1: each row ends with the token after its
\* segment, which is sampled for a request that is still being chunked, too.
LaunchPrefill ==
  /\ pc = "launch" /\ cur.kind = "extend" /\ ~DisableOverlap
  /\ LET names == [i \in DOMAIN cur.segs |-> cur.segs[i].req]
         entries == [i \in DOMAIN names |-> Entry(names[i], cur.segs[i].to)]
         tokens == [i \in DOMAIN names |-> Tokens(cur.segs[i].to + 1, 1)]
     IN  /\ Launched("extend", names, entries, tokens)
         /\ last' = [kind |-> "extend",
                     batch |-> [reqs |-> names, lens |-> [i \in DOMAIN names |-> entries[i].len],
                                futures |-> FutureIndices(Len(names)), rows |-> entries,
                                full |-> FALSE]]
  /\ UNCHANGED <<reqVars, chunk, cuts, running, raised>>

\* Path 3: resolve_future, draft, verify with acc[i] accepted tokens in row i,
\* refresh.  The new entry belongs to the request the resolved one was for.
LaunchDecode(acc) ==
  /\ pc = "launch" /\ cur.kind = "decode" /\ ~DisableOverlap
  /\ LET old == Resolved(running)
         entries == [i \in DOMAIN acc |-> Entry(old[i].req, old[i].len + acc[i] + 1)]
         tokens == [i \in DOMAIN acc |-> Tokens(old[i].len + 2, acc[i] + 1)]
     IN  /\ Launched("decode", running.reqs, entries, tokens)
         /\ running' = [running EXCEPT !.lens = [i \in DOMAIN acc |-> entries[i].len],
                                       !.futures = FutureIndices(Len(acc)),
                                       !.rows = entries]
  /\ last' = [kind |-> "decode", batch |-> EmptyBatch]
  /\ cuts' = 0
  /\ UNCHANGED <<reqVars, chunk, raised>>

\* No batch: nothing is launched.
LaunchNothing ==
  /\ pc = "launch" /\ cur.kind = "none"
  /\ last' = NoBatch
  /\ pc' = "drain"
  /\ UNCHANGED <<reqVars, chunk, cuts, cur, running, results, ringVars, dev, tail, raised>>

\* The forward stream ends the pass: seq_lens, ring and host copies are written.
EndPass ==
  /\ tail
  /\ tail' = FALSE
  /\ UNCHANGED <<pc, reqVars, chunk, cuts, cur, running, last, results, ringVars, dev, raised>>

-----------------------------------------------------------------------------
(* process_batch_result. *)

\* Requests whose result is dropped.
Skipped(r) == status[r] \in {"finished", "retracted"}

\* A prefill result without a token.
StillChunked(r) == pending[r] > 0

\* The requests that get tokens from a result, and output_ids then.
Served(res) ==
  {r \in Elements(res.reqs) : ~Skipped(r) /\ (res.kind = "extend" => ~StillChunked(r))}
Delivered(res, r) ==
  LET row == res.rows[RowOf(res.reqs, r)]
  IN  out[r] \o [j \in 1..row.n |-> row.first + j - 1]

\* _resolve_spec_overlap_token_ids: every row advances kv_committed_len.
CommittedAfter(res) ==
  [r \in Reqs |-> IF r \in Elements(res.reqs) THEN committed[r] + res.rows[RowOf(res.reqs, r)].n
                  ELSE committed[r]]

\* check_finished: max_new_tokens forces the stop, EOS or an abort may bring it.
StopAllowed(n, stop) == n >= MaxNew => stop

\* release_kv_cache is called for the requests that stop.
Released(res, stops) == stops

\* process_batch_result_decode and _prefill on the oldest result, once its copy is
\* complete (copy_done.synchronize()): a request that stops is released.
Apply(stops) ==
  LET res == Head(results)
  IN  /\ Len(results) = 1 => ~tail
      /\ stops \subseteq Served(res)
      /\ \A r \in Served(res) : StopAllowed(Len(Delivered(res, r)), r \in stops)
      /\ out' = [r \in Reqs |-> IF r \in Served(res) THEN Delivered(res, r) ELSE out[r]]
      /\ committed' = IF res.kind = "decode" THEN CommittedAfter(res) ELSE committed
      /\ pending' = [r \in Reqs |->
           IF res.kind = "extend" /\ r \in Elements(res.reqs) \ Served(res) /\ ~Skipped(r)
           THEN pending[r] - 1 ELSE pending[r]]
      /\ status' = [r \in Reqs |-> IF r \in stops THEN "finished" ELSE status[r]]
      /\ raised' = (raised \/ \E r \in Released(res, stops) : freed[r])
      /\ freed' = [r \in Reqs |-> freed[r] \/ r \in Released(res, stops)]
      /\ results' = Tail(results)

\* pop_and_process before the launch.
ProcessFirst(stops) ==
  /\ pc = "launch" /\ DisableOverlap
  /\ Apply(stops)
  /\ UNCHANGED <<pc, allocated, chunk, cuts, cur, running, last, ringVars, dev, tail>>

\* pop_and_process after the launch: the result of the batch before this one.
Behind == Len(results) = 2 \/ (Len(results) = 1 /\ last.kind = "none")

Process(stops) ==
  /\ pc = "drain" /\ Behind
  /\ Apply(stops)
  /\ pc' = "recv"
  /\ UNCHANGED <<allocated, chunk, cuts, cur, running, last, ringVars, dev, tail>>

\* No last batch, or its result was processed before the launch.
ProcessNothing ==
  /\ pc = "drain" /\ ~Behind
  /\ pc' = "recv"
  /\ UNCHANGED <<reqVars, chunk, cuts, cur, running, last, results, ringVars, dev, tail, raised>>

-----------------------------------------------------------------------------
Loop ==
  \/ MergeLast
  \/ pc = "pick" /\ \E rem \in RemTokens : \E order \in CanRunLists(rem), full \in BOOLEAN :
       PickPrefill(order, rem, full)
  \/ \E full \in BOOLEAN, kept \in 0..Len(running.reqs) : PickDecode(full, kept)
  \/ PickIdle
  \/ LaunchPrefill
  \/ \E acc \in [DOMAIN running.reqs -> 0..MaxAccept] : LaunchDecode(acc)
  \/ LaunchNothing
  \/ \E stops \in SUBSET Reqs : ProcessFirst(stops) \/ Process(stops)
  \/ ProcessNothing

Next ==
  \/ \E r \in Reqs : Recv(r) \/ AbortWaiting(r)
  \/ Loop
  \/ EndPass

Spec == Init /\ [][Next]_vars

\* The loop is one thread that goes on while it can, and the device ends the
\* passes it was given.  Clients promise nothing.
FairSpec == Spec /\ WF_vars(Loop) /\ WF_vars(EndPass)

-----------------------------------------------------------------------------
(* Properties. *)

\* Type invariant of the loop's state; a result queue of at most two, and none
\* left where the code pops from it.
OverlapTypeOK ==
  /\ pc \in {"recv", "pick", "launch", "drain"}
  /\ status \in [Reqs -> {"new", "waiting", "retracted", "active", "finished"}]
  /\ future_ct \in 0..(FutureLimit - 1)
  /\ DOMAIN ring = 1..FutureBufferLen
  /\ Len(results) <= 2
  /\ pc # "drain" => (Len(results) = 1) = (last.kind # "none") \/ (pc = "launch" /\ results = <<>>)
  /\ \A r \in Reqs : pending[r] \in 0..(MaxChunks + 1)
  /\ cuts \in 0..MaxCuts

\* "for all future tensors, we shall always read from future map": however many
\* prefill batches and chunks were launched since, the ring entry and the draft
\* row of every row of the running batch are that request's own and its newest.
RowsCurrent ==
  \A i \in DOMAIN running.reqs :
    LET r == running.reqs[i]
    IN  status[r] = "active" =>
          /\ ring[running.futures[i]] = Entry(r, dev[r])
          /\ running.rows[i] = Entry(r, dev[r])

\* The slots a verify pass writes, seq_len to seq_len + draft_token_num of every
\* row, were allocated, although the allocation counts from a length that misses
\* the batch in flight.
WindowAllocated ==
  pc = "launch" /\ cur.kind = "decode" =>
    \A i \in DOMAIN running.reqs :
      LET r == running.reqs[i]
      IN  status[r] = "active" => dev[r] + DraftTokens <= allocated[r]

\* Accepted tokens the host has not counted yet, in the at most two results.
Accepted(k, r) ==
  IF k <= Len(results) /\ results[k].kind = "decode" /\ r \in Elements(results[k].reqs)
  THEN results[k].rows[RowOf(results[k].reqs, r)].n ELSE 0
InFlight(r) == Accepted(1, r) + Accepted(2, r)

\* kv_committed_len is the device's length less what is in flight: when a request
\* is released, what goes to the radix cache ends where the pass that is still
\* running starts to write.
CommittedBehindDevice ==
  \A r \in Reqs :
    status[r] = "active" /\ ~InChunk(r) /\ dev[r] > 0 /\ cur.kind # "extend"
      => committed[r] + InFlight(r) = dev[r]

\* A release is final: no request's KV cache is released twice ("already freed"),
\* and after its release a request is given no more slots, which would never
\* return, although its row may still be in the batch that is prepared next.
ReleasedForGood ==
  [][/\ ~raised'
     /\ \A r \in Reqs : freed[r] /\ freed'[r] => allocated'[r] = allocated[r]]_vars

done == [r \in Reqs |-> status[r] = "finished"]
Stream == INSTANCE TokenStream

\* Whatever is in flight, retracted or dropped, clients see the stream of
\* TokenStream: each token once, in order, and none after the end.
ImplementsTokenStream == Stream!Spec

\* Every request that reaches the queue is finished.
AllServed == \A r \in Reqs : Queued(r) ~> status[r] = "finished"
=============================================================================
