------------------------------ MODULE TargetKV ------------------------------
(***************************************************************************)
(* The target model's KV slots across verify passes.                       *)
(*                                                                         *)
(* A verify pass writes one slot per node of the draft tree, and only the  *)
(* nodes on the accepted path belong to the request's context.  A path of  *)
(* a tree is not a run of consecutive nodes, so after the pass the accepted*)
(* slots have to become the slots of the next positions of the request and *)
(* the others have to go back to the allocator, a page at a time.          *)
(*                                                                         *)
(* The synchronous worker allocates for one pass and gives back the rest   *)
(* (prepare_for_verify, _free_cache).  The overlap worker allocates ahead  *)
(* (prepare_for_decode), takes the window behind seq_lens and gives        *)
(* nothing back before the request ends.                                   *)
(*                                                                         *)
(* kv[s] is what slot s holds: the entry of one position of one request,   *)
(* or Junk.  The slots of page g are g * PageSize and following; page 0 is *)
(* the allocator's dummy.  The prefix cache is ChunkCache                  *)
(* (disable_radix_cache): nothing outlives its request.                    *)
(***************************************************************************)
EXTENDS RowLists, SequencesExt

CONSTANTS
  Reqs,
  Prompt(_),    \* length of a request's prompt
  D,            \* draft_token_num
  MaxDepth,     \* tree_max_depth
  AllocLen,     \* ALLOC_LEN_PER_DECODE
  Modes         \* the configurations to run: which worker (v2), whether its draft
                \* trees are chains, the page size, the pages of the allocator and
                \* the bound on prefills and verify passes

ASSUME TargetKVAssumption ==
  /\ D \in Nat \ {0}
  /\ MaxDepth \in Nat /\ MaxDepth + 1 <= D
  /\ AllocLen \in Nat /\ AllocLen >= D
  /\ Modes \subseteq [v2 : BOOLEAN, chain : BOOLEAN, page_size : Nat \ {0},
                      pages : Nat \ {0}, max_steps : Nat]
  /\ \A r \in Reqs : Prompt(r) \in Nat \ {0}

VARIABLES
  mode,       \* the configuration the server was started with
  batch,      \* the requests of the running batch, in order
  len,        \* len[r]: seq_lens, the positions with KV on the device
  committed,  \* kv_committed_len
  allocated,  \* kv_allocated_len
  late,       \* late[r]: accepted by the pass whose result is not processed
  table,      \* table[r]: the row of req_to_token
  free,       \* free_pages
  kv,         \* contents of the slots
  steps       \* prefills and verify passes so far

vars == <<mode, batch, len, committed, allocated, late, table, free, kv, steps>>

SpecV2 == mode.v2
Chain == mode.chain
PageSize == mode.page_size
NumPages == mode.pages

Slots == PageSize..((NumPages + 1) * PageSize - 1)
Junk == <<>>
PageOf(s) == s \div PageSize
MinOf(a, b) == IF a < b THEN a ELSE b

\* ceil_align.
CeilAlign(n) == ((n + PageSize - 1) \div PageSize) * PageSize

-----------------------------------------------------------------------------
(* Mutants. *)

\* The accepted slots are handed over in the wrong order.
AcceptedLocsBackwards(row, path) == [j \in DOMAIN path |-> row[path[Len(path) + 1 - j] + 1]]

\* Everything behind the first nodes of the tree counts as rejected.
RejectedTail(row, path) == SubSeq(row, Len(path) + 1, Len(row))

\* The slots for one batch are allocated, not for the one in flight as well.
PreparedToOnce(r) == committed[r] + AllocLen

\* The rejected tail is freed from the first rejected slot, not from the page.
KeepLenUnaligned(seq, n) == seq + n

\* The over-allocated range starts behind the committed length, not behind its page.
OverallocatedUnaligned(r) == SubSeq(table[r], committed[r] + 1, allocated[r])

\* The window starts behind what the host has processed.
WindowFromCommitted(row, r) == [i \in 1..D |-> row[committed[r] + i]]

\* Sources and targets are exchanged.
MovedBackwards(before, tgt, src) ==
  [s \in Slots |-> IF \E i \in DOMAIN src : src[i] = s
                   THEN before[tgt[CHOOSE i \in DOMAIN src : src[i] = s]] ELSE before[s]]

-----------------------------------------------------------------------------
(* The allocators. *)

NumNewPages(pre, post) == (CeilAlign(post) - CeilAlign(pre)) \div PageSize

\* The slots of the positions pre..post-1 of a row (alloc_extend_kernel): the
\* rest of the page of the last slot, then the pages behind the first ones of
\* the free list, which went to the rows before.
ExtendedSlots(row, pre, post, first) ==
  LET last_loc == IF pre = 0 THEN -1 ELSE row[pre]
      Loc(p) == IF p < CeilAlign(pre) THEN last_loc + 1 + (p - pre)
                ELSE LET q == p - CeilAlign(pre)
                     IN  free[first + q \div PageSize + 1] * PageSize + (q % PageSize)
  IN  [i \in 1..(post - pre) |-> Loc(pre + i - 1)]

\* Pages drawn by the first k rows of the batch, growing from pre[r] to post[r].
PagesBefore(pre, post) ==
  LET sum[k \in 0..Len(batch)] ==
        IF k = 0 THEN 0 ELSE sum[k - 1] + NumNewPages(pre[batch[k]], post[batch[k]])
  IN  sum

BatchReqs == Elements(batch)
RowIndex(r) == CHOOSE k \in DOMAIN batch : batch[k] = r

\* alloc_token_slots or alloc_paged_token_slots_extend for the batch, with the
\* assignment to req_to_token.
AllocFits(pre, post) == PagesBefore(pre, post)[Len(batch)] <= Len(free)
ExtendedTable(pre, post) ==
  [r \in Reqs |->
     IF r \in BatchReqs
     THEN SubSeq(table[r], 1, pre[r]) \o
          ExtendedSlots(table[r], pre[r], post[r], PagesBefore(pre, post)[RowIndex(r) - 1])
     ELSE table[r]]
FreeAfterExtend(pre, post) == SubSeq(free, PagesBefore(pre, post)[Len(batch)] + 1, Len(free))

\* free: token slots go to the back of the list, pages, each once and sorted
\* (torch.unique), to its front.
Freed(list, slots) ==
  IF slots = <<>> THEN list
  ELSE IF PageSize = 1 THEN list \o slots
  ELSE Ascending({PageOf(slots[i]) : i \in DOMAIN slots}) \o list

\* A slot that is free holds nothing anyone may rely on.
Scrubbed(contents, list) ==
  [s \in Slots |-> IF PageOf(s) \in Elements(list) THEN Junk ELSE contents[s]]

-----------------------------------------------------------------------------
(* A verify pass. *)

\* Paths a target may accept: from the root down.  In a tree a parent may stand
\* behind its child, since a merged node's children hang below the winner
\* (_dedup_tree_rows_by_depth_kernel); a chain is in the order of its nodes.
Paths ==
  {p \in UNION {[1..n -> 0..(D - 1)] : n \in 1..(MaxDepth + 1)} :
     /\ p[1] = 0
     /\ \A i, j \in DOMAIN p : i # j => p[i] # p[j]
     /\ Chain => \A i \in DOMAIN p : p[i] = i - 1}

\* The pass writes the slots of each row: the entries of the path's nodes, and
\* entries that belong to no position of the context.
Written(rows, paths) ==
  [s \in Slots |->
     LET owners == {r \in BatchReqs : \E i \in 1..D : rows[r][i] = s}
     IN  IF owners = {} THEN kv[s]
         ELSE LET r == CHOOSE o \in owners : TRUE
                  node == (CHOOSE i \in 1..D : rows[r][i] = s) - 1
                  depths == {j \in DOMAIN paths[r] : paths[r][j] = node}
              IN  IF depths = {} THEN Junk
                  ELSE <<r, len[r] + (CHOOSE j \in depths : TRUE)>>]

\* _free_cache, page_size 1: out_cache_loc[accept_index], and the others.
AcceptedLocs(row, path) == [j \in DOMAIN path |-> row[path[j] + 1]]
Rejected(row, path) ==
  Gather(row, Ascending({i \in DOMAIN row : \A j \in DOMAIN path : path[j] + 1 # i}))

\* _free_cache, page_size > 1 (get_src_tgt_cache_loc, get_target_cache_loc): the
\* row is kept up to the page the path ends in, and the path moves to its front.
KeepLen(seq, n) == MinOf(CeilAlign(seq + n), seq + D)
ToFree(row, seq, n) == SubSeq(row, KeepLen(seq, n) - seq + 1, D)
TargetLocs(row, path) == SubSeq(row, 1, Len(path))

\* move_kv_cache reads all sources before it writes.
Moved(before, tgt, src) ==
  [s \in Slots |-> IF \E i \in DOMAIN tgt : tgt[i] = s
                   THEN before[src[CHOOSE i \in DOMAIN tgt : tgt[i] = s]] ELSE before[s]]

Flat(rows) == FlattenSeq([k \in DOMAIN batch |-> rows[batch[k]]])
Advance(f, paths) == [r \in Reqs |-> IF r \in BatchReqs THEN f[r] + Len(paths[r]) ELSE f[r]]

-----------------------------------------------------------------------------
(* Actions. *)

Init ==
  /\ mode \in Modes
  /\ batch = <<>>
  /\ len = [r \in Reqs |-> 0]
  /\ committed = [r \in Reqs |-> 0]
  /\ allocated = [r \in Reqs |-> 0]
  /\ late = [r \in Reqs |-> 0]
  /\ table = [r \in Reqs |-> <<>>]
  /\ free = [i \in 1..NumPages |-> i]
  /\ kv = [s \in Slots |-> Junk]
  /\ steps = 0

\* A prompt is prefilled and the request joins the batch.
Extend(r) ==
  /\ r \notin BatchReqs
  /\ steps < mode.max_steps /\ steps' = steps + 1
  /\ NumNewPages(0, Prompt(r)) <= Len(free)
  /\ LET row == ExtendedSlots(<<>>, 0, Prompt(r), 0)
     IN  /\ table' = [table EXCEPT ![r] = row]
         /\ kv' = [s \in Slots |-> IF \E p \in DOMAIN row : row[p] = s
                                   THEN <<r, CHOOSE p \in DOMAIN row : row[p] = s>> ELSE kv[s]]
  /\ free' = SubSeq(free, NumNewPages(0, Prompt(r)) + 1, Len(free))
  /\ batch' = Append(batch, r)
  /\ len' = [len EXCEPT ![r] = Prompt(r)]
  /\ committed' = [committed EXCEPT ![r] = Prompt(r)]
  /\ allocated' = [allocated EXCEPT ![r] = Prompt(r)]
  /\ late' = [late EXCEPT ![r] = 0]
  /\ UNCHANGED mode

\* One pass of the synchronous worker: prepare_for_verify, the pass, _free_cache.
DecodeV1(paths) ==
  LET wide == [r \in Reqs |-> len[r] + D]
      all == ExtendedTable(len, wide)
      rows == [r \in BatchReqs |-> SubSeq(all[r], len[r] + 1, len[r] + D)]
      written == Written(rows, paths)
      kept == [r \in BatchReqs |-> IF PageSize = 1 THEN AcceptedLocs(rows[r], paths[r])
                                   ELSE TargetLocs(rows[r], paths[r])]
      gone == [r \in BatchReqs |-> IF PageSize = 1 THEN Rejected(rows[r], paths[r])
                                   ELSE ToFree(rows[r], len[r], Len(paths[r]))]
      left == Freed(FreeAfterExtend(len, wide), Flat(gone))
      src == [r \in BatchReqs |-> AcceptedLocs(rows[r], paths[r])]
      moved == IF PageSize = 1 THEN written ELSE Moved(written, Flat(kept), Flat(src))
  IN  /\ ~SpecV2
      /\ batch # <<>>
      /\ AllocFits(len, wide)
      /\ free' = left
      /\ kv' = Scrubbed(moved, left)
      /\ table' = [r \in Reqs |-> IF r \in BatchReqs
                                  THEN SubSeq(table[r], 1, len[r]) \o kept[r] ELSE table[r]]
      /\ len' = Advance(len, paths)
      /\ committed' = Advance(committed, paths)
      /\ allocated' = Advance(committed, paths)
      /\ UNCHANGED <<batch, late>>

\* The slots the overlap worker's pass writes (assign_extend_cache_locs over
\* req_to_token, which is 0 where nothing was assigned).
Window(row, r) ==
  [i \in 1..D |-> IF len[r] + i <= Len(row) THEN row[len[r] + i] ELSE 0]

\* One iteration of the overlap loop: prepare_for_decode, the pass over the
\* window behind seq_lens, and the result of the pass before.
PreparedTo(r) == committed[r] + 2 * AllocLen
DecodeV2(paths) ==
  LET pre == allocated
      post == [r \in Reqs |-> PreparedTo(r)]
      all == ExtendedTable(pre, post)
      rows == [r \in BatchReqs |-> Window(all[r], r)]
  IN  /\ SpecV2
      /\ batch # <<>>
      /\ AllocFits(pre, post)
      /\ free' = FreeAfterExtend(pre, post)
      /\ table' = all
      /\ kv' = Written(rows, paths)
      /\ allocated' = [r \in Reqs |-> IF r \in BatchReqs THEN post[r] ELSE allocated[r]]
      /\ len' = Advance(len, paths)
      /\ committed' = [r \in Reqs |-> IF r \in BatchReqs THEN committed[r] + late[r] ELSE committed[r]]
      /\ late' = [r \in Reqs |-> IF r \in BatchReqs THEN Len(paths[r]) ELSE late[r]]
      /\ UNCHANGED batch

\* release_kv_cache: cache_finished_req frees the committed slots, then the
\* over-allocated ones go, from the next page on.
Overallocated(r) == SubSeq(table[r], CeilAlign(committed[r]) + 1, allocated[r])
Released(r, left) ==
  /\ free' = left
  /\ kv' = Scrubbed(kv, left)
  /\ batch' = Gather(batch, Ascending({k \in DOMAIN batch : batch[k] # r}))
  /\ table' = [table EXCEPT ![r] = <<>>]
  /\ len' = [len EXCEPT ![r] = 0]
  /\ committed' = [committed EXCEPT ![r] = 0]
  /\ allocated' = [allocated EXCEPT ![r] = 0]
  /\ late' = [late EXCEPT ![r] = 0]
  /\ UNCHANGED <<mode, steps>>

\* A request is found finished while results are processed: both parts are
\* collected and freed together (free_group_begin, free_group_end).
Finish(r) ==
  /\ r \in BatchReqs
  /\ Released(r, Freed(free, SubSeq(table[r], 1, committed[r]) \o Overallocated(r)))

\* retract_decode takes requests from the back, never the last one left; the two
\* parts are freed one after the other.
Retract ==
  /\ Len(batch) > 1
  /\ LET r == batch[Len(batch)]
     IN  Released(r, Freed(Freed(free, SubSeq(table[r], 1, committed[r])), Overallocated(r)))

Decode ==
  /\ steps < mode.max_steps /\ steps' = steps + 1
  /\ UNCHANGED mode
  /\ \E paths \in [BatchReqs -> Paths] : DecodeV1(paths) \/ DecodeV2(paths)

Next == Decode \/ Retract \/ \E r \in Reqs : Extend(r) \/ Finish(r)

Spec == Init /\ [][Next]_vars

-----------------------------------------------------------------------------
(* Properties. *)

\* Types: lengths are ordered as the code relies on, and a row names slots.
TargetTypeOK ==
  /\ BatchReqs \subseteq Reqs /\ Cardinality(BatchReqs) = Len(batch)
  /\ \A r \in Reqs :
       /\ committed[r] \in Nat /\ allocated[r] \in Nat /\ late[r] \in Nat
       /\ Len(table[r]) = allocated[r]
       /\ \A p \in DOMAIN table[r] : table[r][p] \in Slots
       /\ len[r] = committed[r] + late[r] /\ len[r] <= allocated[r]
  /\ \A s \in Slots : kv[s] = Junk \/ kv[s] \in Reqs \X Nat

\* Whatever tree paths were accepted before, position p of a request's row holds
\* the entry of position p of that request: the context the next verify pass
\* attends to is the sequence that was generated (_free_cache remaps or moves the
\* accepted path; specblock_info.py:1351).
ContextIntact ==
  \A r \in BatchReqs : \A p \in 1..len[r] : kv[table[r][p]] = <<r, p>>

\* Every page is on the free list once or belongs to one request, never both:
\* rejected tails, over-allocation and release work at page granularity while
\* lengths do not (get_src_tgt_cache_loc, release_kv_cache).
PagesConserved ==
  LET Owned(r) == {PageOf(table[r][p]) : p \in 1..allocated[r]}
      freePages == Elements(free)
  IN  /\ Cardinality(freePages) = Len(free)
      /\ \A r \in Reqs : Owned(r) \cap freePages = {}
      /\ \A q, r \in Reqs : q # r => Owned(q) \cap Owned(r) = {}
      /\ (UNION {Owned(r) : r \in Reqs}) \cup freePages = 1..NumPages

=============================================================================
