----------------------- MODULE SpecBlockServing_proofs -----------------------
(***************************************************************************)
(* Proofs about SpecBlockServing, for any number of requests, any prompts, *)
(* block width, batch and chunk size, and any pool.                        *)
(*                                                                         *)
(* The properties of the loop rest on each other: that a row is the row of *)
(* its request needs that its slots are its own (a write for one row must  *)
(* not reach another), that slots are accounted for needs that the lists   *)
(* of a batch have one length, and both need to know which requests are in *)
(* a batch, in the chunk and in the queue at each point of the loop.  The  *)
(* inductive invariant ServingInv is the conjunction.                      *)
(*                                                                         *)
(* The refinement of SpecBlockReference needs the contents of the rows.    *)
(* The lemma of each action therefore also says what its rows are after    *)
(* the step in terms of the rows before it (RowsMerged, RowsKept,          *)
(* RowsPrefilled, RowsRefreshed).                                          *)
(***************************************************************************)
EXTENDS SpecBlockServing, KVPoolOps_proofs

BatchType ==
  [reqs : Seq(Reqs), seq_lens : Seq(Nat), loc : Seq(Seq(Positive)), count : Seq(Nat),
   position : Seq(Nat), root : Seq(Reqs \X Nat), full : BOOLEAN]

\* The lists of a batch with requests are in step, no request is in two rows, and
\* each row has a block to roll back.
InStep(b) ==
  /\ Len(b.seq_lens) = Len(b.reqs) /\ Len(b.loc) = Len(b.reqs) /\ Len(b.count) = Len(b.reqs)
  /\ Len(b.position) = Len(b.reqs) /\ Len(b.root) = Len(b.reqs)
  /\ RowsOK(b.loc)
  /\ \A i \in 1..Len(b.reqs) : Len(b.loc[i]) >= K
  /\ \A i, j \in 1..Len(b.reqs) : b.reqs[i] = b.reqs[j] => i = j
BatchOK(b) == b \in BatchType /\ (b.reqs # <<>> => InStep(b))

\* The slots of a batch that still have an owner.
Live(b) == IF b.reqs = <<>> THEN {} ELSE SlotsOf(b.loc)

\* The loop: a prefill batch lives from its run to the next merge, and a request
\* that has all its tokens is finished.
LoopInv ==
  /\ pc \in {"recv", "pick", "prefill", "decode"}
  /\ status \in [Reqs -> {"new", "waiting", "active", "finished"}]
  /\ ntok \in [Reqs -> Nat]
  /\ \A r \in Reqs : /\ PromptLen(r) <= ntok[r] /\ ntok[r] <= PromptLen(r) + MaxNew
                     /\ status[r] # "finished" => ntok[r] < PromptLen(r) + MaxNew
  /\ last.reqs # <<>> => pc = "recv"
  /\ cur # <<>> => pc = "prefill"
  /\ pc = "decode" => running.reqs # <<>>

\* A chunked request has tokens left, and is not in the running batch.
ChunkOK ==
  chunk # NoChunk =>
    /\ chunk = Chunk(chunk.req, chunk.filled) /\ chunk.req \in Reqs /\ chunk.filled \in Nat
    /\ status[chunk.req] = "active"
    /\ 1 <= chunk.filled /\ chunk.filled < ntok[chunk.req]
    /\ ~InRow(running, chunk.req)

\* The segments of a prefill batch: only the chunked request stops short.
SegmentType == [req : Reqs, from : Nat, to : Nat]
SegsOK(segs) ==
  /\ segs \in Seq(SegmentType)
  /\ \A i \in 1..Len(segs) : segs[i].from < segs[i].to /\ segs[i].to <= ntok[segs[i].req]
  /\ \A i, j \in 1..Len(segs) : segs[i].req = segs[j].req => i = j
CurOK ==
  /\ SegsOK(cur)
  /\ \A i \in 1..Len(cur) : /\ status[cur[i].req] = "active"
                            /\ ~InRow(running, cur[i].req)
                            /\ Truncated(cur[i]) <=> InChunk(cur[i].req)

\* Slots: free ones, those of the running batch and those of the last one.
SlotInv ==
  /\ pool \in PoolRecord /\ FreeListOK(pool)
  /\ pool.pool_size <= max_pool_size
  /\ pool.n_alloc + Len(pool.free) = pool.pool_size - 1
  /\ Live(running) \cap Live(last) = {}
  /\ (Live(running) \cup Live(last)) \cap Elements(pool.free) = {}
  /\ Live(running) \cup Live(last) \subseteq 1..(pool.pool_size - 1)
  /\ DOMAIN content = 0..(max_pool_size - 1)

ServingInv ==
  /\ LoopInv /\ ChunkOK /\ CurOK
  /\ BatchOK(running) /\ BatchOK(last)
  /\ ServedOnce /\ SlotInv /\ RowsAligned

\* A step loses no slot: what is free or in use stays so, and what the pool grew by is.
SlotsKept ==
  /\ pool.pool_size <= pool'.pool_size
  /\ Live(running) \cup Live(last) \cup Elements(pool.free)
       \cup pool.pool_size..(pool'.pool_size - 1)
     \subseteq Live(running') \cup Live(last') \cup Elements(pool'.free)

-----------------------------------------------------------------------------
(* Lists and rows. *)

\* Row j of c is row k of b.
SameRow(c, j, b, k) ==
  /\ c.reqs[j] = b.reqs[k] /\ c.seq_lens[j] = b.seq_lens[k] /\ c.loc[j] = b.loc[k]
  /\ c.count[j] = b.count[k] /\ c.position[j] = b.position[k] /\ c.root[j] = b.root[k]

\* The entries of row i of b, and the state of its request's draft loop.
Cache(b, i) == [j \in DOMAIN b.loc[i] |-> content[b.loc[i][j]]]
RowState(b, i) == [n |-> ntok[b.reqs[i]], cache |-> Cache(b, i), position |-> b.position[i]]

\* What the steps of the loop do to the rows: the merged batch has rows of both, a
\* filtered batch keeps some of its own.
RowsMerged ==
  \A j \in 1..Len(running'.reqs) :
    \/ \E k \in 1..Len(running.reqs) : SameRow(running', j, running, k)
    \/ \E k \in 1..Len(last.reqs) : MergedRow(last.reqs[k]) /\ SameRow(running', j, last, k)
RowsKept ==
  \A j \in 1..Len(running'.reqs) : \E k \in 1..Len(running.reqs) : SameRow(running', j, running, k)

\* A prefill leaves the rows of the running batch as they are, and gives each of its
\* requests a row with the entries of its segment.
RowsPrefilled ==
  /\ running' = running /\ chunk' = chunk
  /\ \A i \in 1..Len(running.reqs) : RowState(running, i)' = RowState(running, i)
  /\ Len(last'.reqs) = Len(cur)
  /\ \A i \in 1..Len(cur) :
       /\ last'.reqs[i] = cur[i].req /\ last'.position[i] = ExtendLen(i) + 1
       /\ Cache(last, i)' = PrefilledCells(i)
       /\ ~InChunk(cur[i].req) => ntok[cur[i].req] = cur[i].to /\ ntok'[cur[i].req] = cur[i].to + 1

\* A decode appends the entries of each path to its row, without the block of a
\* rejected root.
KeptCache(c, a) == IF a = 0 THEN SubSeq(c, 1, Len(c) - K) ELSE c
RowsRefreshed(acc) ==
  /\ running'.reqs = running.reqs
  /\ \A i \in 1..Len(running.reqs) :
       /\ ntok'[running.reqs[i]] = ntok[running.reqs[i]] + acc[i] + 1
       /\ running'.position[i] = RefreshedPosition(running.position[i], acc[i])
       /\ Cache(running, i)' =
            KeptCache(Cache(running, i), acc[i])
              \o RefreshEntries(running.reqs[i], ntok[running.reqs[i]], acc[i], running.position[i])

LEMMA AlignedSame ==
  ASSUME NEW c, NEW j, NEW b, NEW k, SameRow(c, j, b, k), RowAligned(b, k)
  PROVE  RowAligned(c, j)
BY DEF SameRow, RowAligned

\* The types of a batch's lists.
LEMMA BatchTypes ==
  ASSUME NEW b \in BatchType
  PROVE  /\ b.reqs \in Seq(Reqs) /\ b.seq_lens \in Seq(Nat) /\ b.loc \in Seq(Seq(Positive))
         /\ b.count \in Seq(Nat) /\ b.position \in Seq(Nat) /\ b.root \in Seq(Reqs \X Nat)
         /\ b.full \in BOOLEAN
         /\ Len(b.reqs) \in Nat /\ DOMAIN b.reqs = 1..Len(b.reqs)
         /\ \A i \in 1..Len(b.reqs) : b.reqs[i] \in Reqs
         /\ b.reqs # <<>> <=> Len(b.reqs) # 0
<1>1. /\ b.reqs \in Seq(Reqs) /\ b.seq_lens \in Seq(Nat) /\ b.loc \in Seq(Seq(Positive))
      /\ b.count \in Seq(Nat) /\ b.position \in Seq(Nat) /\ b.root \in Seq(Reqs \X Nat)
      /\ b.full \in BOOLEAN
  BY DEF BatchType
<1>2. Len(b.reqs) \in Nat /\ DOMAIN b.reqs = 1..Len(b.reqs)
  BY <1>1, LenProperties
<1>3. \A i \in 1..Len(b.reqs) : b.reqs[i] \in Reqs
  BY <1>1, ElementOfSeq
<1>4. b.reqs # <<>> => Len(b.reqs) # 0
  BY <1>1, EmptySeq
<1>5. b.reqs = <<>> => Len(b.reqs) = 0
  BY EmptySeq
<1> QED BY <1>1, <1>2, <1>3, <1>4, <1>5

-----------------------------------------------------------------------------
(* Filtering a batch. *)

\* q is p with slots returned: same size, counter and free list agree.
PoolKept(p, q) ==
  /\ q \in PoolRecord /\ FreeListOK(q) /\ q.pool_size = p.pool_size
  /\ q.n_alloc + Len(q.free) = p.n_alloc + Len(p.free)

\* Filtering b down to the rows in keep made it c, and the pool p became q.
FilterDone(b, keep, c, p, q) ==
  /\ BatchOK(c) /\ Len(c.reqs) = Len(keep)
  /\ \A j \in 1..Len(c.reqs) : \E k \in Elements(keep) : SameRow(c, j, b, k)
  /\ \A k \in Elements(keep) : \E j \in 1..Len(c.reqs) : SameRow(c, j, b, k)
  /\ PoolKept(p, q)
  /\ Live(c) \subseteq Live(b) /\ Live(c) \cap Elements(q.free) = {}
  /\ Elements(q.free) \subseteq Elements(p.free) \cup Live(b)
  /\ Len(keep) # 0 => Live(c) \cup Elements(q.free) = Live(b) \cup Elements(p.free)

\* The lists of the kept rows.
LEMMA KeptLists ==
  ASSUME NEW b, BatchOK(b), b.reqs # <<>>, NEW keep, KeepOK(keep, Len(b.reqs)),
         NEW c, c = KeptRows(b, keep)
  PROVE  /\ c \in BatchType /\ c.loc = Gather(b.loc, keep) /\ c.full = b.full
         /\ Len(c.reqs) = Len(keep) /\ Len(c.seq_lens) = Len(keep) /\ Len(c.loc) = Len(keep)
         /\ Len(c.count) = Len(keep) /\ Len(c.position) = Len(keep) /\ Len(c.root) = Len(keep)
         /\ \A j \in 1..Len(keep) : SameRow(c, j, b, keep[j])
<1>1. /\ b \in BatchType
      /\ Len(b.seq_lens) = Len(b.reqs) /\ Len(b.loc) = Len(b.reqs) /\ Len(b.count) = Len(b.reqs)
      /\ Len(b.position) = Len(b.reqs) /\ Len(b.root) = Len(b.reqs)
  BY DEF BatchOK, InStep
<1>2. /\ b.reqs \in Seq(Reqs) /\ b.seq_lens \in Seq(Nat) /\ b.loc \in Seq(Seq(Positive))
      /\ b.count \in Seq(Nat) /\ b.position \in Seq(Nat) /\ b.root \in Seq(Reqs \X Nat)
      /\ b.full \in BOOLEAN
  BY <1>1, BatchTypes
<1>0. /\ KeepOK(keep, Len(b.seq_lens)) /\ KeepOK(keep, Len(b.loc)) /\ KeepOK(keep, Len(b.count))
      /\ KeepOK(keep, Len(b.position)) /\ KeepOK(keep, Len(b.root))
  BY <1>1
<1>3. /\ c = [reqs |-> Gather(b.reqs, keep), seq_lens |-> Gather(b.seq_lens, keep),
              loc |-> Gather(b.loc, keep), count |-> Gather(b.count, keep),
              position |-> Gather(b.position, keep), root |-> Gather(b.root, keep),
              full |-> b.full]
  BY <1>1 DEF KeptRows, BatchType
<1>4. Gathers(Reqs, b.reqs, keep, Gather(b.reqs, keep))
  BY <1>0, <1>1, <1>2, GatherFacts
<1>5. Gathers(Nat, b.seq_lens, keep, Gather(b.seq_lens, keep))
  BY <1>0, <1>1, <1>2, GatherFacts
<1>6. Gathers(Seq(Positive), b.loc, keep, Gather(b.loc, keep))
  BY <1>0, <1>1, <1>2, GatherFacts
<1>7. Gathers(Nat, b.count, keep, Gather(b.count, keep))
  BY <1>0, <1>1, <1>2, GatherFacts
<1>8. Gathers(Nat, b.position, keep, Gather(b.position, keep))
  BY <1>0, <1>1, <1>2, GatherFacts
<1>9. Gathers(Reqs \X Nat, b.root, keep, Gather(b.root, keep))
  BY <1>0, <1>1, <1>2, GatherFacts
<1>10. c \in BatchType
  BY <1>2, <1>3, <1>4, <1>5, <1>6, <1>7, <1>8, <1>9 DEF BatchType, Gathers
<1>11. /\ c.reqs = Gather(b.reqs, keep) /\ c.seq_lens = Gather(b.seq_lens, keep)
       /\ c.loc = Gather(b.loc, keep) /\ c.count = Gather(b.count, keep)
       /\ c.position = Gather(b.position, keep) /\ c.root = Gather(b.root, keep)
       /\ c.full = b.full
  BY <1>3
<1>12. \A j \in 1..Len(keep) : SameRow(c, j, b, keep[j])
  BY <1>4, <1>5, <1>6, <1>7, <1>8, <1>9, <1>11 DEF SameRow, Gathers
<1> QED BY <1>4, <1>5, <1>6, <1>7, <1>8, <1>9, <1>10, <1>11, <1>12 DEF Gathers

\* The slots of some rows.
LEMMA KeptSlots ==
  ASSUME NEW rows, RowsOK(rows), NEW keep, KeepOK(keep, Len(rows))
  PROVE  /\ RowsOK(Gather(rows, keep))
         /\ SlotsOf(Gather(rows, keep)) = UNION {Elements(rows[k]) : k \in Elements(keep)}
         /\ SlotsOf(Gather(rows, keep)) \subseteq SlotsOf(rows)
<1> DEFINE g == Gather(rows, keep)
           m == Len(keep)
<1>1. rows \in Seq(Seq(Positive)) /\ keep \in Seq(1..Len(rows)) /\ Unique(keep)
  BY DEF RowsOK, KeepOK
<1>2. /\ g \in Seq(Seq(Positive)) /\ Len(g) = m
      /\ \A j \in 1..m : g[j] = rows[keep[j]]
  BY <1>1, GatherFacts DEF Gathers
<1>3. m \in Nat /\ keep \in [1..m -> 1..Len(rows)] /\ DOMAIN keep = 1..m
  BY <1>1, LenProperties
<1>4. \A i, j \in 1..m : keep[i] = keep[j] => i = j
  BY <1>1 DEF Unique
<1> HIDE DEF g, m
<1>5. PickedOK(rows, keep, m, g)
  BY <1>2, <1>3, <1>4, PickRows
<1>6. RowsOK(g) /\ SlotsOf(g) = Picked(rows, keep, m) /\ SlotsOf(g) \subseteq SlotsOf(rows)
  BY <1>5 DEF PickedOK
<1>7. Picked(rows, keep, m) = UNION {Elements(rows[k]) : k \in Elements(keep)}
  <2>1. Elements(keep) = {keep[i] : i \in 1..m}
    BY <1>3 DEF Elements
  <2>2. {Elements(rows[k]) : k \in Elements(keep)} = {Elements(rows[keep[i]]) : i \in 1..m}
    BY <2>1
  <2> QED BY <2>2 DEF Picked
<1> QED BY <1>6, <1>7 DEF g

\* filter_batch, whatever rows it keeps.
LEMMA FilterFacts ==
  ASSUME NEW b, BatchOK(b), NEW keep, KeepOK(keep, Len(b.reqs)),
         NEW p \in PoolRecord, FreeListOK(p), Live(b) \cap Elements(p.free) = {},
         Live(b) \subseteq 1..(p.pool_size - 1)
  PROVE  FilterDone(b, keep, Filtered(b, keep), p, FilteredPool(p, b, keep))
<1> DEFINE n == Len(b.reqs)
           m == Len(keep)
           c == Filtered(b, keep)
           q == FilteredPool(p, b, keep)
<1>1. b \in BatchType /\ keep \in Seq(1..n) /\ Unique(keep)
  BY DEF BatchOK, KeepOK
<1>2. /\ b.reqs \in Seq(Reqs) /\ n \in Nat /\ (b.reqs # <<>> <=> n # 0)
  BY <1>1, BatchTypes
<1>3. m \in Nat /\ DOMAIN keep = 1..m /\ \A j \in 1..m : keep[j] \in 1..n
  BY <1>1, LenProperties, ElementOfSeq
<1>4. PoolKept(p, p)
  BY DEF PoolKept
<1>5. CASE m = 0
  <2>1. c = [b EXCEPT !.reqs = <<>>] /\ q = p
    BY <1>5 DEF Filtered, FilteredPool
  <2>2. c \in BatchType /\ c.reqs = <<>>
    <3>1. <<>> \in Seq(Reqs)
      BY EmptySeq
    <3> QED BY <1>1, <2>1, <3>1 DEF BatchType
  <2>3. Elements(keep) = {} /\ Len(c.reqs) = 0
    BY <1>3, <1>5, <2>2, EmptySeq DEF Elements
  <2>4. Live(c) = {}
    BY <2>2 DEF Live
  <2>5. BatchOK(c)
    BY <2>2 DEF BatchOK
  <2> HIDE DEF c, q
  <2>6. 1..Len(c.reqs) = {}
    BY <2>3
  <2> QED BY <1>4, <1>5, <2>1, <2>3, <2>4, <2>5, <2>6 DEF FilterDone, c, q
<1>6. CASE m # 0 /\ m = n
  <2>1. c = b /\ q = p
    BY <1>6 DEF Filtered, FilteredPool
  <2>2. Elements(keep) = 1..n
    BY <1>2, <1>6, KeepsAll
  <2>3. \A j \in 1..n : SameRow(b, j, b, j)
    BY DEF SameRow
  <2> HIDE DEF c, q
  <2>4. FilterDone(b, keep, b, p, p)
    BY <1>4, <1>6, <2>2, <2>3 DEF FilterDone
  <2> QED BY <2>1, <2>4 DEF c, q
<1>7. CASE m # 0 /\ m # n
  <2> DEFINE drop == Ascending(1..Len(b.loc) \ Elements(keep))
  <2>1. n # 0
    BY <1>2, <1>3, <1>7
  <2>2. InStep(b)
    BY <1>2, <2>1 DEF BatchOK
  <2>3. Len(b.loc) = n /\ RowsOK(b.loc)
    BY <2>2 DEF InStep
  <2>4. Live(b) = SlotsOf(b.loc)
    BY <1>2, <2>1 DEF Live
  <2>5. c = KeptRows(b, keep) /\ q = FreeRows(p, Gather(b.loc, drop))
    BY <1>7 DEF Filtered, FilteredPool
  <2>6. KeepOK(drop, n) /\ Elements(drop) = 1..n \ Elements(keep)
    BY <1>2, <2>3, KeepRows
  <2> HIDE DEF c, q, drop
  <2>7. /\ c \in BatchType /\ c.loc = Gather(b.loc, keep)
        /\ Len(c.reqs) = m /\ Len(c.seq_lens) = m /\ Len(c.loc) = m
        /\ Len(c.count) = m /\ Len(c.position) = m /\ Len(c.root) = m
        /\ \A j \in 1..m : SameRow(c, j, b, keep[j])
    BY <1>2, <2>1, <2>5, KeptLists
  <2>8. /\ RowsOK(c.loc) /\ SlotsOf(c.loc) \subseteq SlotsOf(b.loc)
        /\ SlotsOf(c.loc) = UNION {Elements(b.loc[k]) : k \in Elements(keep)}
    BY <2>3, <2>7, KeptSlots
  <2> DEFINE D == Gather(b.loc, drop)
  <2>9. /\ RowsOK(D) /\ SlotsOf(D) \subseteq SlotsOf(b.loc)
        /\ SlotsOf(D) = UNION {Elements(b.loc[k]) : k \in Elements(drop)}
    BY <2>3, <2>6, KeptSlots
  <2> HIDE DEF D
  <2>10. Elements(keep) \cup Elements(drop) = 1..n /\ Elements(keep) \cap Elements(drop) = {}
    BY <2>6 DEF KeepOK
  <2>11. SlotsOf(c.loc) \cap SlotsOf(D) = {}
    <3>1. \A k \in Elements(keep) : \A l \in Elements(drop) :
            Elements(b.loc[k]) \cap Elements(b.loc[l]) = {}
      BY <2>3, <2>10 DEF RowsOK
    <3> SUFFICES ASSUME NEW s \in SlotsOf(c.loc), s \in SlotsOf(D) PROVE FALSE
      OBVIOUS
    <3>2. PICK k \in Elements(keep) : s \in Elements(b.loc[k])
      BY <2>8
    <3>3. PICK l \in Elements(drop) : s \in Elements(b.loc[l])
      BY <2>9
    <3> QED BY <3>1, <3>2, <3>3
  <2>12. SlotsOf(c.loc) \cup SlotsOf(D) = SlotsOf(b.loc)
    <3>1. SlotsOf(b.loc) = UNION {Elements(b.loc[k]) : k \in 1..n}
      BY <2>3 DEF SlotsOf, SlotsUpTo
    <3> QED BY <2>8, <2>9, <2>10, <3>1
  <2>13. Returned(p, SlotsOf(D), q)
    BY <2>4, <2>5, <2>9, FreeRowsFacts DEF D
  <2>14. /\ PoolKept(p, q) /\ Elements(q.free) = Elements(p.free) \cup SlotsOf(D)
    BY <2>13 DEF Returned, PoolKept
  <2>15. c.reqs # <<>> /\ Live(c) = SlotsOf(c.loc)
    <3>1. c.reqs # <<>>
      BY <1>7, <2>7, EmptySeq
    <3> QED BY <3>1 DEF Live
  <2>16. BatchOK(c)
    <3>1. \A i \in 1..m : c.loc[i] = b.loc[keep[i]] /\ c.reqs[i] = b.reqs[keep[i]]
      BY <2>7 DEF SameRow
    <3>2. \A i \in 1..m : Len(c.loc[i]) >= K
      BY <1>3, <2>2, <3>1 DEF InStep
    <3>3. \A i, j \in 1..m : c.reqs[i] = c.reqs[j] => i = j
      <4> SUFFICES ASSUME NEW i \in 1..m, NEW j \in 1..m, c.reqs[i] = c.reqs[j] PROVE i = j
        OBVIOUS
      <4>1. keep[i] = keep[j]
        BY <1>3, <2>2, <3>1, SMTT(30) DEF InStep
      <4> QED BY <1>1, <4>1 DEF Unique
    <3> QED BY <2>7, <2>8, <3>2, <3>3 DEF BatchOK, InStep
  <2>17. \A j \in 1..m : keep[j] \in Elements(keep)
    BY <1>3 DEF Elements
  <2>18. \A k \in Elements(keep) : \E j \in 1..m : SameRow(c, j, b, k)
    BY <1>3, <2>7 DEF Elements
  <2>19. \A j \in 1..m : \E k \in Elements(keep) : SameRow(c, j, b, k)
    BY <2>7, <2>17
  <2>20. /\ Live(c) \subseteq Live(b) /\ Live(c) \cap Elements(q.free) = {}
         /\ Elements(q.free) \subseteq Elements(p.free) \cup Live(b)
         /\ Live(c) \cup Elements(q.free) = Live(b) \cup Elements(p.free)
    <3> DEFINE A == SlotsOf(c.loc)
               B == SlotsOf(D)
               F == Elements(p.free)
    <3>1. Live(c) = A /\ Live(b) = A \cup B /\ Elements(q.free) = F \cup B
      BY <2>4, <2>12, <2>14, <2>15
    <3>2. A \cap B = {} /\ (A \cup B) \cap F = {}
      BY <2>11, <3>1
    <3> HIDE DEF A, B, F
    <3>3. A \subseteq A \cup B /\ A \cap (F \cup B) = {} /\ F \cup B \subseteq F \cup (A \cup B)
          /\ A \cup (F \cup B) = (A \cup B) \cup F
      BY <3>2
    <3> QED BY <3>1, <3>3, Zenon DEF F
  <2> QED BY <2>7, <2>14, <2>16, <2>18, <2>19, <2>20 DEF FilterDone, c, q
<1> QED BY <1>5, <1>6, <1>7

-----------------------------------------------------------------------------
(* Merging batches. *)

\* c and b differ at most in batch_is_full.
SameLists(c, b) ==
  /\ c.reqs = b.reqs /\ c.seq_lens = b.seq_lens /\ c.loc = b.loc
  /\ c.count = b.count /\ c.position = b.position /\ c.root = b.root

LEMMA FullChanged ==
  ASSUME NEW b, BatchOK(b), NEW f \in BOOLEAN
  PROVE  /\ BatchOK([b EXCEPT !.full = f]) /\ SameLists([b EXCEPT !.full = f], b)
         /\ Live([b EXCEPT !.full = f]) = Live(b)
<1> DEFINE c == [b EXCEPT !.full = f]
<1>1. b \in BatchType
  BY DEF BatchOK
<1>2. c \in BatchType
  BY <1>1 DEF BatchType
<1>3. SameLists(c, b)
  BY <1>1 DEF BatchType, SameLists
<1> HIDE DEF c
<1>4. BatchOK(c) /\ Live(c) = Live(b)
  BY <1>2, <1>3 DEF BatchOK, InStep, SameLists, Live
<1> QED BY <1>3, <1>4 DEF c

\* d has the rows of b, then those of c.
MergeDone(b, c, d) ==
  /\ BatchOK(d) /\ Len(d.reqs) = Len(b.reqs) + Len(c.reqs)
  /\ \A j \in 1..Len(b.reqs) : SameRow(d, j, b, j)
  /\ \A j \in 1..Len(c.reqs) : SameRow(d, Len(b.reqs) + j, c, j)
  /\ Live(d) = Live(b) \cup Live(c)

LEMMA MergeFacts ==
  ASSUME NEW b, NEW c, BatchOK(b), BatchOK(c), b.reqs # <<>>, c.reqs # <<>>,
         Live(b) \cap Live(c) = {},
         \A i \in 1..Len(b.reqs) : \A j \in 1..Len(c.reqs) : b.reqs[i] # c.reqs[j]
  PROVE  MergeDone(b, c, Merged(b, c))
<1> DEFINE d == Merged(b, c)
           n == Len(b.reqs)
           m == Len(c.reqs)
<1>1. b \in BatchType /\ c \in BatchType /\ InStep(b) /\ InStep(c)
  BY DEF BatchOK
<1>2. /\ b.reqs \in Seq(Reqs) /\ b.seq_lens \in Seq(Nat) /\ b.loc \in Seq(Seq(Positive))
      /\ b.count \in Seq(Nat) /\ b.position \in Seq(Nat) /\ b.root \in Seq(Reqs \X Nat)
      /\ n \in Nat /\ b.full \in BOOLEAN /\ n # 0
  BY <1>1, BatchTypes
<1>3. /\ c.reqs \in Seq(Reqs) /\ c.seq_lens \in Seq(Nat) /\ c.loc \in Seq(Seq(Positive))
      /\ c.count \in Seq(Nat) /\ c.position \in Seq(Nat) /\ c.root \in Seq(Reqs \X Nat)
      /\ m \in Nat /\ m # 0
  BY <1>1, BatchTypes
<1> DEFINE e == MergedSpecInfo(b, c)
           Fields == {"reqs", "seq_lens", "loc", "count", "position", "root", "full"}
<1>4. /\ e = [x \in Fields |-> e[x]] /\ d = [x \in Fields |-> d[x]]
      /\ d.loc = e.loc /\ d.count = e.count /\ d.position = e.position /\ d.root = e.root
      /\ e.reqs = b.reqs /\ e.seq_lens = b.seq_lens /\ d.full = b.full
  <2>1. b = [x \in Fields |-> b[x]]
    BY <1>1 DEF BatchType
  <2>2. e = [x \in Fields |-> e[x]]
    BY <2>1 DEF MergedSpecInfo
  <2>3. e.reqs = b.reqs /\ e.seq_lens = b.seq_lens /\ e.full = b.full
    BY <2>1 DEF MergedSpecInfo
  <2>4. d = [e EXCEPT !.reqs = @ \o c.reqs, !.seq_lens = @ \o c.seq_lens]
    BY DEF Merged
  <2> HIDE DEF e, d
  <2> QED BY <2>2, <2>3, <2>4
<1>5. /\ d.reqs = b.reqs \o c.reqs /\ d.seq_lens = b.seq_lens \o c.seq_lens
      /\ d.loc = b.loc \o c.loc /\ d.count = b.count \o c.count
      /\ d.position = b.position \o c.position /\ d.root = b.root \o c.root /\ d.full = b.full
  <2>1. b = [x \in Fields |-> b[x]]
    BY <1>1 DEF BatchType
  <2>2. e.loc = b.loc \o c.loc
    BY <2>1 DEF MergedSpecInfo
  <2>3. e.count = b.count \o c.count
    BY <2>1 DEF MergedSpecInfo
  <2>4. e.position = b.position \o c.position
    BY <2>1 DEF MergedSpecInfo
  <2>5. e.root = b.root \o c.root
    BY <2>1 DEF MergedSpecInfo
  <2>6. d = [e EXCEPT !.reqs = @ \o c.reqs, !.seq_lens = @ \o c.seq_lens]
    BY DEF Merged
  <2> HIDE DEF e, d
  <2>7. d.reqs = e.reqs \o c.reqs
    BY <1>4, <2>6
  <2>8. d.seq_lens = e.seq_lens \o c.seq_lens
    BY <1>4, <2>6
  <2> QED BY <1>4, <2>2, <2>3, <2>4, <2>5, <2>7, <2>8, Zenon
<1>6. /\ Len(b.seq_lens) = n /\ Len(b.loc) = n /\ Len(b.count) = n /\ Len(b.position) = n
      /\ Len(b.root) = n
      /\ Len(c.seq_lens) = m /\ Len(c.loc) = m /\ Len(c.count) = m /\ Len(c.position) = m
      /\ Len(c.root) = m
  BY <1>1 DEF InStep
<1> HIDE DEF d, e
<1>7. Joined(Reqs, b.reqs, c.reqs, d.reqs)
  BY <1>2, <1>3, <1>5, ConcatJoins
<1>8. Joined(Nat, b.seq_lens, c.seq_lens, d.seq_lens)
  BY <1>2, <1>3, <1>5, ConcatJoins
<1>9. Joined(Seq(Positive), b.loc, c.loc, d.loc)
  BY <1>2, <1>3, <1>5, ConcatJoins
<1>10. Joined(Nat, b.count, c.count, d.count)
  BY <1>2, <1>3, <1>5, ConcatJoins
<1>11. Joined(Nat, b.position, c.position, d.position)
  BY <1>2, <1>3, <1>5, ConcatJoins
<1>12. Joined(Reqs \X Nat, b.root, c.root, d.root)
  BY <1>2, <1>3, <1>5, ConcatJoins
<1>13. d \in BatchType
  <2>1. /\ d.reqs \in Seq(Reqs) /\ d.seq_lens \in Seq(Nat) /\ d.loc \in Seq(Seq(Positive))
        /\ d.count \in Seq(Nat) /\ d.position \in Seq(Nat) /\ d.root \in Seq(Reqs \X Nat)
        /\ d.full \in BOOLEAN
    BY <1>2, <1>5, <1>7, <1>8, <1>9, <1>10, <1>11, <1>12 DEF Joined
  <2>2. d = [reqs |-> d.reqs, seq_lens |-> d.seq_lens, loc |-> d.loc, count |-> d.count,
             position |-> d.position, root |-> d.root, full |-> d.full]
    BY <1>4
  <2> QED BY <2>1, <2>2 DEF BatchType
<1>14. /\ Len(d.reqs) = n + m /\ Len(d.seq_lens) = n + m /\ Len(d.loc) = n + m
       /\ Len(d.count) = n + m /\ Len(d.position) = n + m /\ Len(d.root) = n + m
  BY <1>6, <1>7, <1>8, <1>9, <1>10, <1>11, <1>12 DEF Joined
<1>15. \A j \in 1..n : SameRow(d, j, b, j)
  BY <1>6, <1>7, <1>8, <1>9, <1>10, <1>11, <1>12 DEF Joined, SameRow
<1>16. \A j \in 1..m : SameRow(d, n + j, c, j)
  BY <1>6, <1>7, <1>8, <1>9, <1>10, <1>11, <1>12 DEF Joined, SameRow
<1>17. /\ RowsOK(b.loc) /\ RowsOK(c.loc) /\ Live(b) = SlotsOf(b.loc) /\ Live(c) = SlotsOf(c.loc)
  BY <1>1 DEF InStep, Live
<1>18. RowsOK(d.loc) /\ SlotsOf(d.loc) = SlotsOf(b.loc) \cup SlotsOf(c.loc)
  BY <1>5, <1>17, ConcatRows
<1>19. \A j \in 1..(n + m) : j \in 1..n \/ (j - n \in 1..m /\ j = n + (j - n))
  <2> HIDE DEF n, m
  <2> QED BY <1>2, <1>3
<1>20. \A j \in 1..(n + m) : Len(d.loc[j]) >= K
  <2> SUFFICES ASSUME NEW j \in 1..(n + m) PROVE Len(d.loc[j]) >= K
    OBVIOUS
  <2>1. CASE j \in 1..n
    BY <1>1, <1>15, <2>1 DEF SameRow, InStep
  <2>2. CASE j - n \in 1..m /\ j = n + (j - n)
    <3>1. PICK i \in 1..m : j = n + i
      BY <2>2
    <3> QED BY <1>1, <1>16, <3>1 DEF SameRow, InStep
  <2> QED BY <1>19, <2>1, <2>2
<1>21. \A i, j \in 1..(n + m) : d.reqs[i] = d.reqs[j] => i = j
  <2> SUFFICES ASSUME NEW i \in 1..(n + m), NEW j \in 1..(n + m), d.reqs[i] = d.reqs[j]
               PROVE  i = j
    OBVIOUS
  <2>1. \A k \in 1..n : d.reqs[k] = b.reqs[k]
    BY <1>15 DEF SameRow
  <2>2. \A k \in 1..m : d.reqs[n + k] = c.reqs[k]
    BY <1>16 DEF SameRow
  <2>3. CASE i \in 1..n /\ j \in 1..n
    BY <1>1, <2>1, <2>3 DEF InStep
  <2>4. CASE i \in 1..n /\ j \notin 1..n
    <3>1. PICK k \in 1..m : j = n + k
      BY <1>19, <2>4
    <3> QED BY <2>1, <2>2, <2>4, <3>1
  <2>5. CASE i \notin 1..n /\ j \in 1..n
    <3>1. PICK k \in 1..m : i = n + k
      BY <1>19, <2>5
    <3> QED BY <2>1, <2>2, <2>5, <3>1
  <2>6. CASE i \notin 1..n /\ j \notin 1..n
    <3>1. PICK k \in 1..m : i = n + k
      BY <1>19, <2>6
    <3>2. PICK l \in 1..m : j = n + l
      BY <1>19, <2>6
    <3>3. k = l
      BY <1>1, <2>2, <3>1, <3>2 DEF InStep
    <3> QED BY <3>1, <3>2, <3>3
  <2> QED BY <2>3, <2>4, <2>5, <2>6
<1>22. BatchOK(d)
  BY <1>13, <1>14, <1>18, <1>20, <1>21 DEF BatchOK, InStep
<1>23. Live(d) = Live(b) \cup Live(c)
  <2>1. d.reqs # <<>>
    <3>1. n + m # 0
      <4> HIDE DEF n, m
      <4> QED BY <1>2, <1>3
    <3> QED BY <1>14, <3>1, EmptySeq
  <2> QED BY <1>17, <1>18, <2>1 DEF Live
<1> QED BY <1>14, <1>15, <1>16, <1>22, <1>23 DEF MergeDone, d

-----------------------------------------------------------------------------
(* The prefill batches that can be chosen. *)

\* What holds of an adder as it takes requests: when budget is left, no request in
\* the list was cut short, so only the last one ever is.
AdderOK(a) ==
  /\ a \in [segs : Seq(SegmentType), left : Int]
  /\ SegsOK(a.segs)
  /\ \A i \in 1..Len(a.segs) : /\ Truncated(a.segs[i]) => i = Len(a.segs)
                               /\ a.left > 0 => ~Truncated(a.segs[i])
                               /\ status[a.segs[i].req] = "waiting" \/ InChunk(a.segs[i].req)
HasChunk(a) == chunk # NoChunk => \E i \in 1..Len(a.segs) : a.segs[i].req = chunk.req

LEMMA AddFacts ==
  ASSUME LoopInv, NEW a, AdderOK(a), a.left > 0, NEW r \in Reqs, NEW from \in Nat,
         from < ntok[r], \A i \in 1..Len(a.segs) : a.segs[i].req # r,
         status[r] = "waiting" \/ InChunk(r)
  PROVE  /\ AdderOK(Added(a, Segment(r, from, a.left)))
         /\ HasChunk(a) => HasChunk(Added(a, Segment(r, from, a.left)))
         /\ chunk # NoChunk /\ chunk.req = r => HasChunk(Added(a, Segment(r, from, a.left)))
<1> DEFINE s == Segment(r, from, a.left)
           c == Added(a, s)
           n == Len(a.segs)
<1>1. a.segs \in Seq(SegmentType) /\ a.left \in Int /\ n \in Nat
  BY LenProperties DEF AdderOK
<1>2. ntok[r] \in Nat
  BY DEF LoopInv
<1>3. s = [req |-> r, from |-> from, to |-> MinOf(ntok[r], from + a.left)]
  BY DEF Segment
<1>4. /\ s.req = r /\ s.from = from /\ s.to \in Nat /\ from < s.to /\ s.to <= ntok[r]
      /\ s.to < ntok[r] => s.to = from + a.left
      /\ s \in SegmentType
  <2>1. PICK l \in Int : l = a.left /\ l > 0
    BY <1>1
  <2>2. PICK t \in Nat : t = ntok[r]
    BY <1>2
  <2>3. /\ MinOf(t, from + l) \in Nat /\ from < MinOf(t, from + l) /\ MinOf(t, from + l) <= t
        /\ MinOf(t, from + l) < t => MinOf(t, from + l) = from + l
    BY <2>1, <2>2 DEF MinOf
  <2>4. s.req = r /\ s.from = from /\ s.to = MinOf(t, from + l)
    BY <1>3, <2>1, <2>2
  <2>5. s \in SegmentType
    BY <1>3, <2>1, <2>2, <2>3 DEF SegmentType
  <2> HIDE DEF s
  <2> QED BY <2>1, <2>2, <2>3, <2>4, <2>5
<1> HIDE DEF s
<1>5. c = [segs |-> Append(a.segs, s), left |-> a.left - (s.to - s.from)]
  BY DEF Added
<1>6. c.segs = Append(a.segs, s) /\ c.left = a.left - (s.to - s.from)
  BY <1>5
<1>7. /\ c.segs \in Seq(SegmentType) /\ Len(c.segs) = n + 1
      /\ \A i \in 1..n : c.segs[i] = a.segs[i]
      /\ c.segs[n + 1] = s
  BY <1>1, <1>4, <1>6, AppendProperties
<1>8. c.left \in Int /\ (s.to < ntok[r] => c.left = 0)
  <2>1. PICK l \in Int : l = a.left
    BY <1>1
  <2>2. PICK t \in Nat : t = s.to
    BY <1>4
  <2>3. l - (t - from) \in Int /\ (t = from + l => l - (t - from) = 0)
    BY <2>1, <2>2
  <2>4. c.left = l - (t - from)
    BY <1>4, <1>6, <2>1, <2>2, Zenon
  <2> QED BY <1>4, <2>1, <2>2, <2>3, <2>4
<1>9. c \in [segs : Seq(SegmentType), left : Int]
  BY <1>5, <1>6, <1>7, <1>8
<1> HIDE DEF c
<1>10. \A i \in 1..(n + 1) : i \in 1..n \/ i = n + 1
  BY <1>1
<1>11. /\ SegsOK(a.segs)
       /\ \A i \in 1..n : /\ Truncated(a.segs[i]) => i = n
                          /\ a.left > 0 => ~Truncated(a.segs[i])
                          /\ status[a.segs[i].req] = "waiting" \/ InChunk(a.segs[i].req)
  BY DEF AdderOK
<1>12. \A i \in 1..(n + 1) : c.segs[i].from < c.segs[i].to /\ c.segs[i].to <= ntok[c.segs[i].req]
  BY <1>4, <1>7, <1>10, <1>11 DEF SegsOK
<1>13. \A i, j \in 1..(n + 1) : c.segs[i].req = c.segs[j].req => i = j
  BY <1>4, <1>7, <1>10, <1>11 DEF SegsOK
<1>14. SegsOK(c.segs)
  BY <1>7, <1>12, <1>13 DEF SegsOK
<1>15. ASSUME NEW i \in 1..(n + 1)
       PROVE  /\ Truncated(c.segs[i]) => i = n + 1
              /\ c.left > 0 => ~Truncated(c.segs[i])
              /\ status[c.segs[i].req] = "waiting" \/ InChunk(c.segs[i].req)
  <2>1. CASE i \in 1..n
    <3>1. c.segs[i] = a.segs[i] /\ ~Truncated(a.segs[i])
      BY <1>7, <1>11, <2>1
    <3> QED BY <1>11, <2>1, <3>1
  <2>2. CASE i = n + 1
    <3>1. c.segs[i] = s /\ (Truncated(s) => c.left = 0)
      BY <1>4, <1>7, <1>8, <2>2 DEF Truncated
    <3> QED BY <1>4, <2>2, <3>1
  <2> QED BY <1>10, <2>1, <2>2
<1>16. AdderOK(c)
  BY <1>7, <1>9, <1>14, <1>15 DEF AdderOK
<1>17. HasChunk(a) => HasChunk(c)
  <2> SUFFICES ASSUME HasChunk(a), chunk # NoChunk
               PROVE  \E i \in 1..Len(c.segs) : c.segs[i].req = chunk.req
    BY DEF HasChunk
  <2>1. PICK i \in 1..n : a.segs[i].req = chunk.req
    BY DEF HasChunk
  <2>2. i \in 1..(n + 1) /\ c.segs[i].req = chunk.req
    BY <1>1, <1>7, <2>1
  <2> QED BY <1>7, <2>2
<1>18. chunk # NoChunk /\ chunk.req = r => HasChunk(c)
  <2>1. n + 1 \in 1..(n + 1)
    BY <1>1
  <2> QED BY <1>4, <1>7, <2>1 DEF HasChunk
<1> QED BY <1>16, <1>17, <1>18 DEF c, s

LEMMA ChunkedAdderOK ==
  ASSUME LoopInv, ChunkOK
  PROVE  AdderOK(ChunkedAdder) /\ HasChunk(ChunkedAdder)
<1>1. NewAdder.segs = <<>> /\ NewAdder.left = ChunkSize /\ ChunkSize \in Nat /\ ChunkSize > 0
  BY ServingAssumption DEF NewAdder
<1>2. <<>> \in Seq(SegmentType) /\ Len(<<>>) = 0 /\ 1..0 = {}
  BY EmptySeq
<1>3. AdderOK(NewAdder)
  <2>1. NewAdder \in [segs : Seq(SegmentType), left : Int]
    BY <1>1, <1>2 DEF NewAdder
  <2> QED BY <1>1, <1>2, <2>1 DEF AdderOK, SegsOK
<1>4. CASE chunk = NoChunk
  BY <1>3, <1>4 DEF ChunkedAdder, HasChunk
<1>5. CASE chunk # NoChunk
  <2>1. /\ chunk.req \in Reqs /\ chunk.filled \in Nat /\ chunk.filled < ntok[chunk.req]
        /\ InChunk(chunk.req)
    BY <1>5 DEF ChunkOK, InChunk
  <2>2. \A i \in 1..Len(NewAdder.segs) : NewAdder.segs[i].req # chunk.req
    BY <1>1, <1>2
  <2>3. ChunkedAdder = Added(NewAdder, Segment(chunk.req, chunk.filled, NewAdder.left))
    BY <1>1, <1>5 DEF ChunkedAdder
  <2> QED BY <1>1, <1>3, <1>5, <2>1, <2>2, <2>3, AddFacts
<1> QED BY <1>4, <1>5

\* The loop over the queue, turn by turn.
LEMMA CanRunLoop ==
  ASSUME NEW n \in Nat, n = MaxRunning
  PROVE  \E g : /\ \A i \in 0..n : g[i] = IF i = 0 THEN {ChunkedAdder} ELSE Extended(g[i - 1])
                /\ CanRunLists = {a.segs : a \in g[n]}
<1> DEFINE base == {ChunkedAdder}
           Turns(g, k) == g = [i \in 0..k |-> IF i = 0 THEN base ELSE Extended(g[i - 1])]
           S == {k \in 0..n : \E g : Turns(g, k)}
           f == CHOOSE g : Turns(g, n)
<1>0. CanRunLists = {a.segs : a \in f[n]}
  BY DEF CanRunLists
<1> HIDE DEF base, f
<1>1. 0 \in S
  <2> DEFINE g == [i \in 0..0 |-> base]
  <2>1. \A i \in 0..0 : i = 0
    OBVIOUS
  <2>2. Turns(g, 0)
    BY <2>1
  <2>3. \E h : Turns(h, 0)
    BY <2>2
  <2> HIDE DEF Turns
  <2> QED BY <2>3
<1>2. ASSUME NEW k \in 0..(n - 1), k \in S PROVE k + 1 \in S
  <2>1. PICK g : Turns(g, k)
    BY <1>2
  <2> DEFINE h == [i \in 0..(k + 1) |-> IF i = k + 1 THEN Extended(g[k]) ELSE g[i]]
  <2>2. ASSUME NEW i \in 0..(k + 1)
        PROVE  h[i] = IF i = 0 THEN base ELSE Extended(h[i - 1])
    <3>1. CASE i = k + 1
      <4>1. i # 0 /\ i - 1 = k /\ k \in 0..(k + 1) /\ k # k + 1
        BY <3>1
      <4>2. h[i] = Extended(g[k]) /\ h[i - 1] = g[k]
        BY <3>1, <4>1
      <4> HIDE DEF h
      <4> QED BY <3>1, <4>1, <4>2
    <3>2. CASE i # k + 1
      <4>1. i \in 0..k /\ h[i] = g[i]
        BY <3>2
      <4>2. i # 0 => i - 1 \in 0..(k + 1) /\ i - 1 # k + 1 /\ h[i - 1] = g[i - 1]
        BY <3>2
      <4>3. g[i] = IF i = 0 THEN base ELSE Extended(g[i - 1])
        BY <2>1, <4>1
      <4> HIDE DEF h, Turns
      <4> QED BY <4>1, <4>2, <4>3
    <3> QED BY <3>1, <3>2
  <2>3. h = [i \in 0..(k + 1) |-> h[i]]
    OBVIOUS
  <2> HIDE DEF h
  <2>4. Turns(h, k + 1)
    BY <2>2, <2>3
  <2>5. k + 1 \in 0..n
    OBVIOUS
  <2> QED BY <2>4, <2>5
<1> HIDE DEF S
<1>3. n \in S
  <2>1. 0..n \subseteq S
    BY <1>1, <1>2, UpTo
  <2> QED BY <2>1
<1>4. \E g : Turns(g, n)
  BY <1>3 DEF S
<1>5. Turns(f, n)
  <2> HIDE DEF Turns
  <2> QED BY <1>4 DEF f
<1>6. \A i \in 0..n : f[i] = IF i = 0 THEN base ELSE Extended(f[i - 1])
  BY <1>5
<1> QED BY <1>0, <1>6 DEF base

\* A list that can run, with what the adder knew of it.
ListOK(segs) == \E a : AdderOK(a) /\ HasChunk(a) /\ segs = a.segs

\* Every list the loop can build.
LEMMA CanRunFacts ==
  ASSUME LoopInv, ChunkOK, NEW segs \in CanRunLists
  PROVE  ListOK(segs)
<1> DEFINE n == MaxRunning
<1>1. n \in Nat
  BY ServingAssumption
<1>2. PICK g : /\ \A i \in 0..n : g[i] = IF i = 0 THEN {ChunkedAdder} ELSE Extended(g[i - 1])
               /\ CanRunLists = {a.segs : a \in g[n]}
  BY <1>1, CanRunLoop
<1> DEFINE Good(a) == AdderOK(a) /\ HasChunk(a)
           S == {k \in 0..n : \A a \in g[k] : Good(a)}
<1>3. 0 \in S
  <2>1. 0 \in 0..n
    BY <1>1
  <2>2. g[0] = {ChunkedAdder}
    BY <1>2, <2>1
  <2>3. Good(ChunkedAdder)
    BY ChunkedAdderOK
  <2> HIDE DEF Good
  <2> QED BY <2>1, <2>2, <2>3
<1>4. ASSUME NEW k \in 0..(n - 1), k \in S PROVE k + 1 \in S
  <2>1. k + 1 \in 0..n /\ k + 1 # 0 /\ (k + 1) - 1 = k
    BY <1>1
  <2>2. g[k + 1] = Extended(g[k])
    BY <1>2, <2>1
  <2>3. ASSUME NEW c \in Extended(g[k]) PROVE Good(c)
    <3>1. CASE c \in g[k]
      BY <1>4, <3>1
    <3>2. CASE c \notin g[k]
      <4>1. PICK x \in {y \in g[k] \X Waiting \X (0..MaxHit) : MayTake(y[1], y[2], y[3])} :
              c = Added(x[1], Segment(x[2], x[3], x[1].left))
        BY <2>3, <3>2 DEF Extended
      <4>2. /\ x[1] \in g[k] /\ x[2] \in Waiting /\ x[3] \in 0..MaxHit
            /\ MayTake(x[1], x[2], x[3])
        OBVIOUS
      <4>3. Good(x[1])
        BY <1>4, <4>2
      <4>4. x[2] \in Reqs /\ status[x[2]] = "waiting" /\ x[3] \in Nat
        BY <4>2 DEF Waiting
      <4>5. x[1].left > 0 /\ x[3] < ntok[x[2]]
        BY <4>2 DEF MayTake
      <4>6. \A i \in 1..Len(x[1].segs) : x[1].segs[i].req # x[2]
        <5>1. x[1].segs \in Seq(SegmentType)
          BY <4>3 DEF AdderOK
        <5>2. DOMAIN x[1].segs = 1..Len(x[1].segs)
          BY <5>1, LenProperties
        <5> QED BY <4>2, <5>2 DEF MayTake
      <4> DEFINE a == x[1]
                 r == x[2]
                 h == x[3]
      <4>7. /\ AdderOK(a) /\ HasChunk(a) /\ a.left > 0 /\ r \in Reqs /\ h \in Nat
            /\ h < ntok[r] /\ status[r] = "waiting"
            /\ \A i \in 1..Len(a.segs) : a.segs[i].req # r
        BY <4>3, <4>4, <4>5, <4>6
      <4>8. c = Added(a, Segment(r, h, a.left))
        BY <4>1
      <4> HIDE DEF a, r, h
      <4>9. AdderOK(c) /\ HasChunk(c)
        BY <4>7, <4>8, AddFacts
      <4> QED BY <4>9
    <3> QED BY <3>1, <3>2
  <2> HIDE DEF Good
  <2> QED BY <2>1, <2>2, <2>3
<1> HIDE DEF S
<1>5. n \in S
  <2>1. 0..n \subseteq S
    BY <1>1, <1>3, <1>4, UpTo
  <2> QED BY <1>1, <2>1
<1>6. PICK a \in g[n] : segs = a.segs
  BY <1>2
<1>7. Good(a)
  BY <1>5 DEF S
<1> QED BY <1>6, <1>7 DEF ListOK

-----------------------------------------------------------------------------
(* The invariant, action by action. *)

LEMMA EmptyBatchFacts ==
  BatchOK(EmptyBatch) /\ EmptyBatch.reqs = <<>> /\ Live(EmptyBatch) = {}
<1>1. \A S : <<>> \in Seq(S)
  BY EmptySeq
<1>2. EmptyBatch \in BatchType /\ EmptyBatch.reqs = <<>>
  BY <1>1 DEF EmptyBatch, BatchType
<1> QED BY <1>2 DEF BatchOK, Live

LEMMA EmptyList ==
  /\ \A S : <<>> \in Seq(S)
  /\ Len(<<>>) = 0 /\ DOMAIN <<>> = {} /\ 1..0 = {}
BY EmptySeq

LEMMA InitInv == Init => ServingInv
<1> SUFFICES ASSUME Init PROVE ServingInv
  OBVIOUS
<1>1. /\ pc = "recv" /\ status = [r \in Reqs |-> "new"] /\ ntok = [r \in Reqs |-> PromptLen(r)]
      /\ chunk = NoChunk /\ cur = <<>> /\ running = EmptyBatch /\ last = EmptyBatch
      /\ pool = NewPool /\ content = [s \in 0..(max_pool_size - 1) |-> Zero]
  BY DEF Init, NoBatch
<1>2. LoopInv
  BY <1>1, ServingAssumption, EmptyBatchFacts DEF LoopInv
<1>3. ChunkOK
  BY <1>1 DEF ChunkOK
<1>4. CurOK
  BY <1>1, EmptyList DEF CurOK, SegsOK
<1>5. BatchOK(running) /\ BatchOK(last)
  BY <1>1, EmptyBatchFacts
<1>6. ServedOnce
  BY <1>1, EmptyBatchFacts, EmptyList DEF ServedOnce, InRow
<1>7. SlotInv
  <2>1. /\ pool \in PoolRecord /\ FreeListOK(pool) /\ pool.n_alloc = 0
        /\ pool.pool_size = InitialPoolSize /\ Len(pool.free) = InitialPoolSize - 1
    BY <1>1, NewPoolFacts
  <2>2. InitialPoolSize \in Nat /\ InitialPoolSize <= max_pool_size
    BY PoolAssumption DEF max_pool_size
  <2>3. pool.n_alloc + Len(pool.free) = pool.pool_size - 1
    BY <2>1, <2>2
  <2>4. Live(running) = {} /\ Live(last) = {}
    BY <1>1, EmptyBatchFacts
  <2> QED BY <1>1, <2>1, <2>2, <2>3, <2>4 DEF SlotInv
<1>8. RowsAligned
  BY <1>1, EmptyBatchFacts, EmptyList DEF RowsAligned
<1> QED BY <1>2, <1>3, <1>4, <1>5, <1>6, <1>7, <1>8 DEF ServingInv

\* A request that is not in any batch changes its status.
LEMMA StatusInv ==
  ASSUME ServingInv, NEW r \in Reqs, status[r] \in {"new", "waiting"},
         NEW st \in {"waiting", "finished"}, status' = [status EXCEPT ![r] = st],
         UNCHANGED <<pc, ntok, chunk, cur, running, last, pool, content>>
  PROVE  ServingInv'
<1>1. /\ status \in [Reqs -> {"new", "waiting", "active", "finished"}]
      /\ \A x \in Reqs : status'[x] = IF x = r THEN st ELSE status[x]
      /\ status' \in [Reqs -> {"new", "waiting", "active", "finished"}]
  BY DEF ServingInv, LoopInv
<1>2. \A x \in Reqs : status[x] = "active" => status'[x] = "active"
  BY <1>1
<1>3. LoopInv'
  BY <1>1 DEF ServingInv, LoopInv
<1>4. ChunkOK'
  BY <1>2 DEF ServingInv, ChunkOK, InRow
<1>5. CurOK'
  <2>1. cur \in Seq(SegmentType) /\ \A i \in 1..Len(cur) : cur[i] \in SegmentType
    BY ElementOfSeq DEF ServingInv, CurOK, SegsOK
  <2>2. \A i \in 1..Len(cur) : status'[cur[i].req] = "active"
    BY <1>2, <2>1 DEF ServingInv, CurOK, SegmentType
  <2> QED BY <2>2 DEF ServingInv, CurOK, SegsOK, InRow, InChunk, Truncated
<1>6. ServedOnce'
  <2>1. ServedOnce
    BY DEF ServingInv
  <2>2. ~InRow(running, r) /\ ~InRow(last, r)
    BY <2>1 DEF ServedOnce
  <2>3. \A x \in Reqs : (InRow(running, x) \/ InRow(last, x)) => status'[x] = status[x]
    BY <1>1, <2>2
  <2>4. \A x \in Reqs : status'[x] = "active" => status[x] = "active"
    BY <1>1
  <2> QED BY <2>1, <2>3, <2>4 DEF ServedOnce, InRow, InChunk
<1>7. SlotInv' /\ RowsAligned' /\ BatchOK(running)' /\ BatchOK(last)'
  BY DEF ServingInv, SlotInv, RowsAligned, RowAligned, InChunk
<1> QED BY <1>3, <1>4, <1>5, <1>6, <1>7 DEF ServingInv

LEMMA RecvInv ==
  ASSUME ServingInv, NEW r \in Reqs, Recv(r)
  PROVE  ServingInv'
BY StatusInv DEF Recv

LEMMA AbortInv ==
  ASSUME ServingInv, NEW r \in Reqs, AbortWaiting(r)
  PROVE  ServingInv'
BY StatusInv DEF AbortWaiting

\* No batch has requests, so no slot is in use.
LEMMA FlushInv ==
  ASSUME ServingInv, Flush
  PROVE  ServingInv'
<1>1. /\ running.reqs = <<>> /\ last' = EmptyBatch /\ pool' = ResetPool(pool)
      /\ UNCHANGED <<pc, status, ntok, chunk, cur, running, content>> /\ last.reqs = <<>>
  BY DEF Flush, NoBatch
<1>2. LoopInv' /\ ChunkOK' /\ CurOK'
  BY <1>1, EmptyBatchFacts
     DEF ServingInv, LoopInv, ChunkOK, CurOK, SegsOK, InRow, InChunk, Truncated
<1>3. BatchOK(running)' /\ BatchOK(last)' /\ last'.reqs = <<>>
  BY <1>1, EmptyBatchFacts DEF ServingInv
<1>4. ServedOnce' /\ RowsAligned'
  <2>1. ServedOnce /\ RowsAligned
    BY DEF ServingInv
  <2> QED BY <1>1, <1>3, <2>1, EmptyList DEF ServedOnce, RowsAligned, RowAligned, InRow, InChunk
<1>5. SlotInv'
  <2>1. pool \in PoolRecord /\ pool.pool_size <= max_pool_size
        /\ DOMAIN content = 0..(max_pool_size - 1)
    BY DEF ServingInv, SlotInv
  <2>2. /\ pool' \in PoolRecord /\ FreeListOK(pool') /\ pool'.pool_size = pool.pool_size
        /\ pool'.n_alloc + Len(pool'.free) = pool'.pool_size - 1
    <3>1. /\ pool' \in PoolRecord /\ FreeListOK(pool') /\ pool'.pool_size = pool.pool_size
          /\ pool'.n_alloc = 0 /\ Len(pool'.free) = pool'.pool_size - 1
      BY <1>1, <2>1, ResetPoolFacts
    <3>2. PICK z \in Nat : z = pool'.pool_size
      BY <3>1 DEF PoolRecord
    <3>3. 0 + (z - 1) = z - 1
      OBVIOUS
    <3> QED BY <3>1, <3>2, <3>3
  <2>3. Live(running') = {} /\ Live(last') = {}
    BY <1>1, EmptyBatchFacts DEF Live
  <2> QED BY <1>1, <2>1, <2>2, <2>3 DEF SlotInv
<1> QED BY <1>2, <1>3, <1>4, <1>5 DEF ServingInv

\* Only batch_is_full of the running batch changes, and where the loop is.
LEMMA PickIdleInv ==
  ASSUME ServingInv, PickIdle
  PROVE  ServingInv'
<1>1. PICK full \in BOOLEAN : running' = [running EXCEPT !.full = full]
  BY DEF PickIdle
<1>2. /\ pc = "pick" /\ pc' = "recv" /\ UNCHANGED <<status, ntok, chunk, cur, last, pool, content>>
  BY DEF PickIdle
<1>3. BatchOK(running') /\ SameLists(running', running) /\ Live(running') = Live(running)
  BY <1>1, FullChanged DEF ServingInv
<1>4. LoopInv'
  BY <1>2 DEF ServingInv, LoopInv
<1>5. ChunkOK' /\ CurOK'
  BY <1>2, <1>3
     DEF ServingInv, LoopInv, ChunkOK, CurOK, SegsOK, InRow, InChunk, Truncated, SameLists
<1>6. ServedOnce' /\ RowsAligned'
  <2>1. ServedOnce /\ RowsAligned
    BY DEF ServingInv
  <2> QED BY <1>2, <1>3, <2>1
          DEF ServedOnce, RowsAligned, RowAligned, InRow, InChunk, SameLists
<1>7. SlotInv'
  BY <1>2, <1>3 DEF ServingInv, SlotInv
<1>8. BatchOK(last)'
  BY <1>2 DEF ServingInv
<1> QED BY <1>3, <1>4, <1>5, <1>6, <1>7, <1>8 DEF ServingInv

\* What the invariant says of a batch's rows.
LEMMA RunningAligned ==
  ASSUME ServingInv, NEW i \in 1..Len(running.reqs)
  PROVE  /\ running.reqs[i] \in Reqs /\ InRow(running, running.reqs[i])
         /\ ~InChunk(running.reqs[i]) /\ RowAligned(running, i)
<1>1. DOMAIN running.reqs = 1..Len(running.reqs) /\ running.reqs[i] \in Reqs
  BY BatchTypes DEF ServingInv, BatchOK
<1>2. InRow(running, running.reqs[i])
  BY <1>1 DEF InRow
<1>3. ~InChunk(running.reqs[i])
  BY <1>2 DEF ServingInv, ChunkOK, InChunk
<1> QED BY <1>1, <1>2, <1>3 DEF ServingInv, RowsAligned

\* The requests of a new prefill batch leave the queue, at most the last one of
\* them as the chunked request.
LEMMA PickPrefillInv ==
  ASSUME ServingInv, pc = "pick", NEW segs \in CanRunLists, NEW full \in BOOLEAN,
         PickPrefill(segs, full)
  PROVE  ServingInv'
<1> DEFINE n == Len(segs)
           final == segs[n]
<1>1. /\ segs # <<>> /\ pc' = "prefill" /\ cur' = segs
      /\ status' = [r \in Reqs |-> IF \E i \in DOMAIN segs : segs[i].req = r
                                   THEN "active" ELSE status[r]]
      /\ chunk' = (IF Truncated(final) THEN Chunk(final.req, final.to) ELSE NoChunk)
      /\ running' = [running EXCEPT !.full = full]
      /\ UNCHANGED <<ntok, last, pool, content>>
  BY DEF PickPrefill
<1>2. /\ LoopInv /\ ChunkOK /\ ServedOnce /\ last.reqs = <<>> /\ cur = <<>>
      /\ BatchOK(running) /\ BatchOK(last)
  BY DEF ServingInv, LoopInv
<1>3. PICK a : AdderOK(a) /\ HasChunk(a) /\ segs = a.segs
  BY <1>2, CanRunFacts DEF ListOK
<1>4. /\ SegsOK(segs) /\ segs \in Seq(SegmentType)
      /\ \A i \in 1..n : /\ Truncated(segs[i]) => i = n
                         /\ status[segs[i].req] = "waiting" \/ InChunk(segs[i].req)
      /\ chunk # NoChunk => \E i \in 1..n : segs[i].req = chunk.req
  BY <1>3 DEF AdderOK, HasChunk, SegsOK
<1>5. n \in Nat /\ DOMAIN segs = 1..n /\ n \in 1..n
  <2>1. n \in Nat /\ DOMAIN segs = 1..n
    BY <1>4, LenProperties
  <2>2. n # 0
    BY <1>1, <1>4, EmptySeq
  <2> HIDE DEF n
  <2> QED BY <2>1, <2>2
<1>6. \A i \in 1..n : /\ segs[i].req \in Reqs /\ segs[i].from \in Nat /\ segs[i].to \in Nat
                      /\ segs[i].from < segs[i].to /\ segs[i].to <= ntok[segs[i].req]
  <2>1. \A i \in 1..n : segs[i] \in SegmentType
    BY <1>4, ElementOfSeq
  <2> QED BY <1>4, <2>1 DEF SegsOK, SegmentType
<1>7. \A i \in 1..n : /\ status[segs[i].req] \in {"waiting", "active"}
                      /\ ~InRow(running, segs[i].req)
  <2> SUFFICES ASSUME NEW i \in 1..n
               PROVE  /\ status[segs[i].req] \in {"waiting", "active"}
                      /\ ~InRow(running, segs[i].req)
    OBVIOUS
  <2>1. CASE status[segs[i].req] = "waiting"
    BY <1>2, <1>6, <2>1 DEF ServedOnce
  <2>2. CASE InChunk(segs[i].req)
    BY <1>2, <2>2 DEF ChunkOK, InChunk
  <2> QED BY <1>4, <2>1, <2>2
<1>8. /\ \A i \in 1..n : status'[segs[i].req] = "active"
      /\ \A r \in Reqs : status'[r] = status[r] \/ \E i \in 1..n : segs[i].req = r /\ status'[r] = "active"
      /\ status' \in [Reqs -> {"new", "waiting", "active", "finished"}]
  BY <1>1, <1>2, <1>5, <1>6 DEF LoopInv
<1>9. BatchOK(running') /\ SameLists(running', running) /\ Live(running') = Live(running)
  BY <1>1, <1>2, FullChanged
<1>10. \A r : InRow(running', r) <=> InRow(running, r)
  BY <1>9 DEF InRow, SameLists
<1>11. chunk' # NoChunk <=> Truncated(final)
  <2>1. final.to \in Nat /\ final.to # 0
    BY <1>5, <1>6
  <2>2. Chunk(final.req, final.to).filled = final.to /\ NoChunk.filled = 0
    BY DEF Chunk, NoChunk
  <2> QED BY <1>1, <2>1, <2>2
<1>12. Truncated(final) => chunk'.req = final.req /\ chunk'.filled = final.to
                           /\ chunk' = Chunk(final.req, final.to)
  BY <1>1 DEF Chunk
<1>13. LoopInv'
  <2>1. ASSUME NEW r \in Reqs, status'[r] # "finished" PROVE ntok[r] < PromptLen(r) + MaxNew
    BY <1>2, <1>7, <1>8, <2>1 DEF LoopInv
  <2> QED BY <1>1, <1>2, <1>8, <2>1 DEF LoopInv
<1>14. ChunkOK'
  <2> SUFFICES ASSUME chunk' # NoChunk
               PROVE  /\ chunk' = Chunk(chunk'.req, chunk'.filled) /\ chunk'.req \in Reqs
                      /\ chunk'.filled \in Nat /\ status'[chunk'.req] = "active"
                      /\ 1 <= chunk'.filled /\ chunk'.filled < ntok'[chunk'.req]
                      /\ ~InRow(running', chunk'.req)
    BY DEF ChunkOK
  <2>1. chunk'.req = final.req /\ chunk'.filled = final.to /\ chunk' = Chunk(final.req, final.to)
        /\ final.to < ntok[final.req]
    BY <1>11, <1>12 DEF Truncated
  <2>2. /\ final.req \in Reqs /\ final.to \in Nat /\ final.from \in Nat /\ final.from < final.to
        /\ status'[final.req] = "active" /\ ~InRow(running, final.req)
    BY <1>5, <1>6, <1>7, <1>8
  <2>3. 1 <= final.to
    BY <2>2
  <2> QED BY <1>1, <1>10, <2>1, <2>2, <2>3
<1>15. CurOK'
  <2>1. SegsOK(cur)'
    BY <1>1, <1>4 DEF SegsOK
  <2>2. ASSUME NEW i \in 1..n
        PROVE  (segs[i].to < ntok[segs[i].req]) <=> (chunk' # NoChunk /\ chunk'.req = segs[i].req)
    <3>1. ASSUME segs[i].to < ntok[segs[i].req]
          PROVE  chunk' # NoChunk /\ chunk'.req = segs[i].req
      <4>1. Truncated(segs[i])
        BY <3>1 DEF Truncated
      <4>2. segs[i] = final
        BY <1>4, <4>1
      <4> QED BY <1>11, <1>12, <4>1, <4>2, Zenon
    <3>2. ASSUME chunk' # NoChunk, chunk'.req = segs[i].req
          PROVE  segs[i].to < ntok[segs[i].req]
      <4>1. Truncated(final) /\ final.req = segs[i].req
        BY <1>11, <1>12, <3>2
      <4>2. i = n
        BY <1>4, <1>5, <4>1 DEF SegsOK
      <4> QED BY <4>1, <4>2 DEF Truncated
    <3> QED BY <3>1, <3>2
  <2> QED BY <1>1, <1>7, <1>8, <1>10, <2>1, <2>2 DEF CurOK, Truncated, InChunk
<1>16. ServedOnce'
  <2>1. last'.reqs = <<>> /\ last' = last /\ \A r : ~InRow(last, r)
    BY <1>1, <1>2, EmptyList DEF InRow
  <2>2. ASSUME NEW r \in Reqs, InRow(running, r) PROVE status'[r] \in {"active", "finished"}
    BY <1>2, <1>7, <1>8, <2>2 DEF ServedOnce
  <2>3. ASSUME NEW r \in Reqs, status'[r] = "active"
        PROVE  InRow(running, r) \/ \E i \in 1..n : segs[i].req = r
    <3>1. CASE \E i \in 1..n : segs[i].req = r
      BY <3>1
    <3>2. CASE status[r] = "active"
      <4>1. InRow(running, r) \/ InChunk(r)
        BY <1>2, <2>1, <3>2, EmptyList DEF ServedOnce
      <4> QED BY <1>4, <4>1 DEF InChunk
    <3> QED BY <1>8, <2>3, <3>1, <3>2
  <2>4. ASSUME NEW r \in Reqs, NEW i \in DOMAIN running'.reqs, NEW j \in DOMAIN running'.reqs,
               running'.reqs[i] = r, running'.reqs[j] = r
        PROVE  i = j
    BY <1>2, <1>9, <2>4 DEF ServedOnce, SameLists
  <2> QED BY <1>1, <1>2, <1>5, <1>10, <2>1, <2>2, <2>3, <2>4 DEF ServedOnce
<1>17. SlotInv'
  BY <1>1, <1>9 DEF ServingInv, SlotInv
<1>18. RowsAligned'
  <2>1. ASSUME NEW i \in DOMAIN running'.reqs PROVE RowAligned(running, i)'
    <3>1. i \in 1..Len(running.reqs)
      BY <1>2, <1>9, BatchTypes DEF SameLists, BatchOK
    <3>2. RowAligned(running, i)
      BY <3>1, RunningAligned
    <3> QED BY <1>1, <1>9, <3>2 DEF RowAligned, SameLists
  <2>2. last'.reqs = <<>>
    BY <1>1, <1>2
  <2> QED BY <2>1, <2>2, EmptyList DEF RowsAligned
<1>19. BatchOK(last)'
  BY <1>1, <1>2
<1> QED BY <1>9, <1>13, <1>14, <1>15, <1>16, <1>17, <1>18, <1>19 DEF ServingInv

\* d has the rows of b and those of c.
BothRows(d, b, c) ==
  /\ BatchOK(d) /\ Live(d) = Live(b) \cup Live(c)
  /\ \A j \in 1..Len(d.reqs) : \/ \E k \in 1..Len(b.reqs) : SameRow(d, j, b, k)
                               \/ \E k \in 1..Len(c.reqs) : SameRow(d, j, c, k)
  /\ \A k \in 1..Len(b.reqs) : \E j \in 1..Len(d.reqs) : SameRow(d, j, b, k)
  /\ \A k \in 1..Len(c.reqs) : \E j \in 1..Len(d.reqs) : SameRow(d, j, c, k)

\* The running batch after the rows of c joined it, with batch_is_full f.
LEMMA JoinRunning ==
  ASSUME NEW b, NEW c, BatchOK(b), BatchOK(c), NEW f \in BOOLEAN, Live(b) \cap Live(c) = {},
         \A i \in 1..Len(b.reqs) : \A j \in 1..Len(c.reqs) : b.reqs[i] # c.reqs[j]
  PROVE  BothRows(IF c.reqs = <<>> THEN [b EXCEPT !.full = f]
                  ELSE IF b.reqs = <<>> THEN c ELSE [Merged(b, c) EXCEPT !.full = f], b, c)
<1>1. \A x : \A j : SameRow(x, j, x, j)
  BY DEF SameRow
<1>2. CASE c.reqs = <<>>
  <2> DEFINE d == [b EXCEPT !.full = f]
  <2>1. BatchOK(d) /\ SameLists(d, b) /\ Live(d) = Live(b)
    BY FullChanged
  <2> HIDE DEF d
  <2>2. Len(d.reqs) = Len(b.reqs) /\ \A j : SameRow(d, j, b, j)
    BY <2>1 DEF SameLists, SameRow
  <2>3. Live(c) = {} /\ 1..Len(c.reqs) = {}
    BY <1>2, EmptyList DEF Live
  <2>4. BothRows(d, b, c)
    BY <2>1, <2>2, <2>3 DEF BothRows
  <2> QED BY <1>2, <2>4 DEF d
<1>3. CASE c.reqs # <<>> /\ b.reqs = <<>>
  <2>1. Live(b) = {} /\ 1..Len(b.reqs) = {}
    BY <1>3, EmptyList DEF Live
  <2>2. BothRows(c, b, c)
    BY <1>1, <2>1 DEF BothRows
  <2> QED BY <1>3, <2>2
<1>4. CASE c.reqs # <<>> /\ b.reqs # <<>>
  <2> DEFINE e == Merged(b, c)
             d == [e EXCEPT !.full = f]
             n == Len(b.reqs)
             m == Len(c.reqs)
  <2>1. MergeDone(b, c, e)
    BY <1>4, MergeFacts
  <2>2. BatchOK(e)
    BY <2>1 DEF MergeDone
  <2> HIDE DEF e
  <2>3. BatchOK(d) /\ SameLists(d, e) /\ Live(d) = Live(e)
    BY <2>2, FullChanged
  <2> HIDE DEF d
  <2>4. n \in Nat /\ m \in Nat
    BY BatchTypes DEF BatchOK
  <2>5. /\ Len(d.reqs) = n + m /\ Live(d) = Live(b) \cup Live(c)
        /\ \A j \in 1..n : SameRow(d, j, b, j)
        /\ \A j \in 1..m : SameRow(d, n + j, c, j)
    <3>1. /\ Len(e.reqs) = n + m /\ Live(e) = Live(b) \cup Live(c)
          /\ \A j \in 1..n : SameRow(e, j, b, j)
          /\ \A j \in 1..m : SameRow(e, n + j, c, j)
      BY <2>1 DEF MergeDone
    <3>2. \A i, x, j : SameRow(e, i, x, j) => SameRow(d, i, x, j)
      BY <2>3 DEF SameLists, SameRow
    <3>3. d.reqs = e.reqs
      BY <2>3 DEF SameLists
    <3> HIDE DEF n, m
    <3> QED BY <2>3, <3>1, <3>2, <3>3
  <2> HIDE DEF n, m
  <2>6. \A j \in 1..n : j \in 1..(n + m)
    BY <2>4
  <2>7. \A j \in 1..m : n + j \in 1..(n + m)
    BY <2>4
  <2>8. \A j \in 1..(n + m) : j \in 1..n \/ \E i \in 1..m : j = n + i
    <3> SUFFICES ASSUME NEW j \in 1..(n + m), j \notin 1..n PROVE \E i \in 1..m : j = n + i
      OBVIOUS
    <3>1. j - n \in 1..m /\ j = n + (j - n)
      BY <2>4
    <3> QED BY <3>1
  <2>9. \A j \in 1..(n + m) : \/ \E k \in 1..n : SameRow(d, j, b, k)
                              \/ \E k \in 1..m : SameRow(d, j, c, k)
    BY <2>5, <2>8
  <2>10. \A k \in 1..n : \E j \in 1..(n + m) : SameRow(d, j, b, k)
    BY <2>5, <2>6
  <2>11. \A k \in 1..m : \E j \in 1..(n + m) : SameRow(d, j, c, k)
    BY <2>5, <2>7
  <2>12. BothRows(d, b, c)
    BY <2>3, <2>5, <2>9, <2>10, <2>11 DEF BothRows, n, m
  <2> QED BY <1>4, <2>12 DEF d, e
<1> QED BY <1>2, <1>3, <1>4

\* The unfinished rows of the last prefill batch join the running batch, all but the
\* chunked request's.
LEMMA MergeLastInv ==
  ASSUME ServingInv, MergeLast
  PROVE  /\ ServingInv' /\ RowsMerged
         /\ last.reqs = <<>> \/ (\E i \in DOMAIN last.reqs : MergedRow(last.reqs[i])) => SlotsKept
<1> DEFINE S == {i \in 1..Len(last.reqs) : MergedRow(last.reqs[i])}
           keep == Ascending(S)
           rest == Filtered(last, keep)
           full == FullAfterMerge(Len(rest.reqs) < Len(last.reqs))
<1>1. /\ pc = "recv" /\ pc' = "pick" /\ last' = EmptyBatch
      /\ pool' = FilteredPool(pool, last, keep)
      /\ running' = IF rest.reqs = <<>> THEN [running EXCEPT !.full = full]
                    ELSE IF running.reqs = <<>> THEN rest
                    ELSE [Merged(running, rest) EXCEPT !.full = full]
      /\ UNCHANGED <<status, ntok, chunk, cur, content>>
  BY DEF MergeLast, NoBatch
<1>2. /\ LoopInv /\ ChunkOK /\ CurOK /\ ServedOnce /\ SlotInv /\ cur = <<>>
      /\ BatchOK(running) /\ BatchOK(last)
  BY <1>1 DEF ServingInv, LoopInv
<1>3. /\ running \in BatchType /\ last \in BatchType
      /\ Len(last.reqs) \in Nat /\ DOMAIN last.reqs = 1..Len(last.reqs)
      /\ DOMAIN running.reqs = 1..Len(running.reqs)
      /\ \A i \in 1..Len(last.reqs) : last.reqs[i] \in Reqs
      /\ \A i \in 1..Len(running.reqs) : running.reqs[i] \in Reqs
      /\ running.full \in BOOLEAN
  BY <1>2, BatchTypes DEF BatchOK
<1>4. KeepOK(keep, Len(last.reqs)) /\ Elements(keep) = S
  BY <1>3, KeepRows
<1>5. /\ pool \in PoolRecord /\ FreeListOK(pool) /\ pool.pool_size <= max_pool_size
      /\ pool.n_alloc + Len(pool.free) = pool.pool_size - 1
      /\ Live(running) \cap Live(last) = {}
      /\ Live(running) \cap Elements(pool.free) = {} /\ Live(last) \cap Elements(pool.free) = {}
      /\ Live(running) \subseteq 1..(pool.pool_size - 1)
      /\ Live(last) \subseteq 1..(pool.pool_size - 1)
      /\ DOMAIN content = 0..(max_pool_size - 1)
  BY <1>2 DEF SlotInv
<1> HIDE DEF keep
<1>6. FilterDone(last, keep, rest, pool, pool')
  BY <1>1, <1>2, <1>4, <1>5, FilterFacts
<1>7. full \in BOOLEAN
  BY <1>3 DEF FullAfterMerge
<1> HIDE DEF rest, full
<1>8. /\ BatchOK(rest) /\ PoolKept(pool, pool')
      /\ Live(rest) \subseteq Live(last) /\ Live(rest) \cap Elements(pool'.free) = {}
      /\ Elements(pool'.free) \subseteq Elements(pool.free) \cup Live(last)
  BY <1>6 DEF FilterDone
<1>9. /\ \A j \in 1..Len(rest.reqs) : \E k \in S : SameRow(rest, j, last, k)
      /\ \A k \in S : \E j \in 1..Len(rest.reqs) : SameRow(rest, j, last, k)
  BY <1>4, <1>6 DEF FilterDone
<1>10. BothRows(running', running, rest)
  <2>1. \A i \in 1..Len(running.reqs) : \A j \in 1..Len(rest.reqs) :
          running.reqs[i] # rest.reqs[j]
    <3> SUFFICES ASSUME NEW i \in 1..Len(running.reqs), NEW j \in 1..Len(rest.reqs),
                        running.reqs[i] = rest.reqs[j]
                 PROVE  FALSE
      OBVIOUS
    <3>1. PICK k \in S : rest.reqs[j] = last.reqs[k]
      BY <1>9 DEF SameRow
    <3>2. InRow(running, running.reqs[i]) /\ InRow(last, running.reqs[i])
      BY <1>3, <3>1 DEF InRow
    <3> QED BY <1>2, <1>3, <3>2 DEF ServedOnce
  <2>2. Live(running) \cap Live(rest) = {}
    BY <1>5, <1>8
  <2> QED BY <1>1, <1>2, <1>7, <1>8, <2>1, <2>2, JoinRunning
<1>11. /\ BatchOK(running') /\ Live(running') = Live(running) \cup Live(rest)
       /\ running' \in BatchType
  BY <1>10 DEF BothRows, BatchOK
<1>12. DOMAIN running'.reqs = 1..Len(running'.reqs) /\ (running'.reqs = <<>> => Len(running'.reqs) = 0)
  BY <1>11, BatchTypes
<1>13. \A j \in 1..Len(running'.reqs) :
         \/ \E k \in 1..Len(running.reqs) : SameRow(running', j, running, k)
         \/ \E k \in S : SameRow(running', j, last, k)
  <2> SUFFICES ASSUME NEW j \in 1..Len(running'.reqs),
                      NEW l \in 1..Len(rest.reqs), SameRow(running', j, rest, l)
               PROVE  \E k \in S : SameRow(running', j, last, k)
    BY <1>10 DEF BothRows
  <2>1. PICK k \in S : SameRow(rest, l, last, k)
    BY <1>9
  <2>2. SameRow(running', j, last, k)
    BY <2>1 DEF SameRow
  <2> QED BY <2>2
<1>14. /\ \A k \in 1..Len(running.reqs) : InRow(running', running.reqs[k])
       /\ \A k \in S : InRow(running', last.reqs[k])
  <2>1. ASSUME NEW k \in 1..Len(running.reqs) PROVE InRow(running', running.reqs[k])
    <3>1. PICK j \in 1..Len(running'.reqs) : SameRow(running', j, running, k)
      BY <1>10 DEF BothRows
    <3> QED BY <1>12, <3>1 DEF InRow, SameRow
  <2>2. ASSUME NEW k \in S PROVE InRow(running', last.reqs[k])
    <3>1. PICK l \in 1..Len(rest.reqs) : SameRow(rest, l, last, k)
      BY <1>9
    <3>2. PICK j \in 1..Len(running'.reqs) : SameRow(running', j, rest, l)
      BY <1>10 DEF BothRows
    <3> QED BY <1>12, <3>1, <3>2 DEF InRow, SameRow
  <2> QED BY <2>1, <2>2
<1>15. ASSUME NEW r, InRow(running', r)
       PROVE  InRow(running, r) \/ \E k \in S : last.reqs[k] = r
  <2>1. PICK j \in 1..Len(running'.reqs) : running'.reqs[j] = r
    BY <1>12, <1>15 DEF InRow
  <2>2. \/ \E k \in 1..Len(running.reqs) : SameRow(running', j, running, k)
        \/ \E k \in S : SameRow(running', j, last, k)
    BY <1>13
  <2> QED BY <1>3, <2>1, <2>2 DEF InRow, SameRow
<1>16. last'.reqs = <<>> /\ Live(last') = {} /\ BatchOK(last') /\ \A r : ~InRow(last', r)
  <2>1. last'.reqs = <<>> /\ Live(last') = {} /\ BatchOK(last')
    BY <1>1, EmptyBatchFacts
  <2> QED BY <2>1, EmptyList DEF InRow
<1>17. LoopInv'
  BY <1>1, <1>2, <1>16 DEF LoopInv
<1>18. ChunkOK'
  <2> SUFFICES ASSUME chunk # NoChunk PROVE ~InRow(running', chunk.req)
    BY <1>1, <1>2 DEF ChunkOK
  <2>1. ~InRow(running, chunk.req)
    BY <1>2 DEF ChunkOK
  <2>2. \A k \in S : last.reqs[k] # chunk.req
    BY DEF MergedRow, InChunk
  <2> QED BY <1>15, <2>1, <2>2
<1>19. CurOK'
  BY <1>1, <1>2, EmptyList DEF CurOK, SegsOK
<1>20. ServedOnce'
  <2> SUFFICES ASSUME NEW r \in Reqs
               PROVE  /\ \A i, j \in DOMAIN running'.reqs :
                           running'.reqs[i] = r /\ running'.reqs[j] = r => i = j
                      /\ InRow(running', r) => status[r] \in {"active", "finished"}
                      /\ status[r] = "active" => InRow(running', r) \/ InChunk(r)
    BY <1>1, <1>16, EmptyList DEF ServedOnce, InChunk, InRow
  <2>1. \A i, j \in DOMAIN running'.reqs : running'.reqs[i] = r /\ running'.reqs[j] = r => i = j
    <3>1. CASE running'.reqs = <<>>
      BY <1>12, <3>1, EmptyList
    <3>2. CASE running'.reqs # <<>>
      BY <1>11, <1>12, <3>2 DEF BatchOK, InStep
    <3> QED BY <3>1, <3>2
  <2>2. ASSUME InRow(running', r) PROVE status[r] \in {"active", "finished"}
    <3>1. InRow(running, r) \/ InRow(last, r)
      BY <1>3, <1>15, <2>2 DEF InRow
    <3> QED BY <1>2, <3>1 DEF ServedOnce
  <2>3. ASSUME status[r] = "active" PROVE InRow(running', r) \/ InChunk(r)
    <3>1. InRow(running, r) \/ InRow(last, r) \/ InChunk(r)
      BY <1>2, <2>3, EmptyList DEF ServedOnce
    <3>2. CASE InRow(running, r)
      BY <1>3, <1>14, <3>2 DEF InRow
    <3>3. CASE InRow(last, r) /\ ~InChunk(r)
      <4>1. PICK k \in 1..Len(last.reqs) : last.reqs[k] = r
        BY <1>3, <3>3 DEF InRow
      <4>2. k \in S
        BY <2>3, <3>3, <4>1 DEF MergedRow
      <4> QED BY <1>14, <4>1, <4>2
    <3> QED BY <3>1, <3>2, <3>3
  <2> QED BY <2>1, <2>2, <2>3
<1>21. SlotInv'
  <2>1. /\ pool' \in PoolRecord /\ FreeListOK(pool') /\ pool'.pool_size = pool.pool_size
        /\ pool'.n_alloc + Len(pool'.free) = pool.n_alloc + Len(pool.free)
    BY <1>8 DEF PoolKept
  <2>2. Live(running') \cap Elements(pool'.free) = {}
    BY <1>5, <1>8, <1>11
  <2>3. Live(running') \subseteq 1..(pool.pool_size - 1)
    BY <1>5, <1>8, <1>11
  <2> QED BY <1>1, <1>5, <1>16, <2>1, <2>2, <2>3 DEF SlotInv
<1>22. RowsAligned'
  <2>1. ASSUME NEW j \in DOMAIN running'.reqs PROVE RowAligned(running', j)
    <3>1. CASE \E k \in 1..Len(running.reqs) : SameRow(running', j, running, k)
      <4>1. PICK k \in 1..Len(running.reqs) : SameRow(running', j, running, k)
        BY <3>1
      <4>2. RowAligned(running, k)
        BY RunningAligned
      <4> QED BY <4>1, <4>2, AlignedSame
    <3>2. CASE \E k \in S : SameRow(running', j, last, k)
      <4>1. PICK k \in S : SameRow(running', j, last, k)
        BY <3>2
      <4>2. RowAligned(last, k)
        BY <1>3 DEF ServingInv, RowsAligned, MergedRow
      <4> QED BY <4>1, <4>2, AlignedSame
    <3> QED BY <1>12, <1>13, <3>1, <3>2
  <2>2. \A j \in DOMAIN running'.reqs : RowAligned(running, j)'
    BY <1>1, <2>1 DEF RowAligned
  <2> QED BY <1>16, <2>2, EmptyList DEF RowsAligned
<1>23. ASSUME last.reqs = <<>> \/ \E i \in DOMAIN last.reqs : MergedRow(last.reqs[i])
       PROVE  SlotsKept
  <2>1. pool'.pool_size = pool.pool_size /\ pool.pool_size \in Nat
    BY <1>5, <1>8 DEF PoolKept, PoolRecord
  <2>2. pool.pool_size <= pool'.pool_size /\ pool.pool_size..(pool'.pool_size - 1) = {}
    BY <2>1
  <2>3. Live(last) \cup Elements(pool.free) \subseteq Live(rest) \cup Elements(pool'.free)
    <3>1. CASE last.reqs = <<>>
      <4>1. Len(last.reqs) = 0 /\ Live(last) = {} /\ S = {}
        BY <3>1, EmptyList DEF Live
      <4>2. Len(keep) = 0
        <5>1. keep \in Seq(1..Len(last.reqs)) /\ Elements(keep) = {}
          BY <1>4, <4>1 DEF KeepOK
        <5>2. Len(keep) \in Nat /\ DOMAIN keep = 1..Len(keep)
          BY <5>1, LenProperties
        <5>3. 1..Len(keep) = {}
          BY <5>1, <5>2 DEF Elements
        <5> QED BY <5>2, <5>3
      <4>3. pool' = pool
        BY <1>1, <4>2 DEF FilteredPool
      <4> QED BY <4>1, <4>3
    <3>2. CASE \E i \in DOMAIN last.reqs : MergedRow(last.reqs[i])
      <4>1. S # {}
        BY <1>3, <3>2
      <4>2. Len(rest.reqs) # 0 /\ Len(rest.reqs) = Len(keep)
        BY <1>6, <1>9, <4>1 DEF FilterDone
      <4> QED BY <1>6, <4>2 DEF FilterDone
    <3> QED BY <1>23, <3>1, <3>2
  <2>4. Live(running') = Live(running) \cup Live(rest)
    BY <1>11
  <2> QED BY <2>2, <2>3, <2>4 DEF SlotsKept
<1>24. RowsMerged
  BY <1>13 DEF RowsMerged
<1> QED BY <1>11, <1>16, <1>17, <1>18, <1>19, <1>20, <1>21, <1>22, <1>23, <1>24 DEF ServingInv

\* Finished requests leave the running batch and return their slots; retracted ones
\* leave it from the back, return theirs, and are queued again.
LEMMA PickDecodeInv ==
  ASSUME ServingInv, NEW full \in BOOLEAN, NEW kept \in Nat, PickDecode(full, kept)
  PROVE  ServingInv' /\ RowsKept /\ (running'.reqs # <<>> => SlotsKept)
<1> DEFINE A == {i \in 1..Len(running.reqs) : status[running.reqs[i]] # "finished"}
           alive == Ascending(A)
           batch == Filtered(running, alive)
           mid == FilteredPool(pool, running, alive)
           front == [i \in 1..kept |-> i]
           final == Filtered(batch, front)
           f == full /\ kept = Len(running.reqs)
           m == Len(alive)
           Back(r) == \E i \in (kept + 1)..m : batch.reqs[i] = r
<1>1. /\ pc = "pick" /\ chunk = NoChunk /\ kept \in Retractions(m)
      /\ pool' = FilteredPool(mid, batch, front)
      /\ running' = [final EXCEPT !.full = f]
      /\ status' = [r \in Reqs |-> IF Back(r) THEN "waiting" ELSE status[r]]
      /\ pc' = (IF kept = 0 THEN "recv" ELSE "decode")
      /\ UNCHANGED <<ntok, chunk, cur, last, content>>
  BY DEF PickDecode
<1>2. /\ LoopInv /\ ServedOnce /\ SlotInv /\ cur = <<>> /\ last.reqs = <<>>
      /\ BatchOK(running) /\ BatchOK(last)
  BY <1>1 DEF ServingInv, LoopInv
<1>3. /\ running \in BatchType /\ Len(running.reqs) \in Nat
      /\ DOMAIN running.reqs = 1..Len(running.reqs)
      /\ \A i \in 1..Len(running.reqs) : running.reqs[i] \in Reqs
  BY <1>2, BatchTypes DEF BatchOK
<1>4. KeepOK(alive, Len(running.reqs)) /\ Elements(alive) = A /\ m \in Nat
  BY <1>3, KeepRows
<1>5. /\ pool \in PoolRecord /\ FreeListOK(pool) /\ pool.pool_size <= max_pool_size
      /\ pool.n_alloc + Len(pool.free) = pool.pool_size - 1
      /\ Live(running) \cap Elements(pool.free) = {}
      /\ Live(running) \subseteq 1..(pool.pool_size - 1)
      /\ DOMAIN content = 0..(max_pool_size - 1)
  BY <1>2 DEF SlotInv
<1> HIDE DEF alive
<1>6. FilterDone(running, alive, batch, pool, mid)
  BY <1>2, <1>4, <1>5, FilterFacts
<1> HIDE DEF batch, mid
<1>7. /\ BatchOK(batch) /\ PoolKept(pool, mid) /\ Len(batch.reqs) = m
      /\ Live(batch) \subseteq Live(running) /\ Live(batch) \cap Elements(mid.free) = {}
      /\ \A j \in 1..m : \E k \in A : SameRow(batch, j, running, k)
      /\ \A k \in A : \E j \in 1..m : SameRow(batch, j, running, k)
  BY <1>4, <1>6 DEF FilterDone
<1> HIDE DEF m
<1>8. kept \in 0..m
  BY <1>1, <1>4 DEF Retractions
<1>9. KeepOK(front, Len(batch.reqs)) /\ Elements(front) = 1..kept /\ Len(front) = kept
  BY <1>4, <1>7, <1>8, FrontRows
<1> HIDE DEF front
<1>10. FilterDone(batch, front, final, mid, pool')
  <2>1. mid \in PoolRecord /\ FreeListOK(mid) /\ mid.pool_size = pool.pool_size
    BY <1>7 DEF PoolKept
  <2>2. Live(batch) \subseteq 1..(mid.pool_size - 1)
    BY <1>5, <1>7, <2>1
  <2> QED BY <1>1, <1>7, <1>9, <2>1, <2>2, FilterFacts
<1> HIDE DEF final
<1>11. /\ BatchOK(final) /\ PoolKept(mid, pool') /\ Len(final.reqs) = kept
       /\ Live(final) \subseteq Live(batch) /\ Live(final) \cap Elements(pool'.free) = {}
       /\ \A j \in 1..kept : \E k \in 1..kept : SameRow(final, j, batch, k)
       /\ \A k \in 1..kept : \E j \in 1..kept : SameRow(final, j, batch, k)
  BY <1>9, <1>10 DEF FilterDone
<1>12. BatchOK(running') /\ SameLists(running', final) /\ Live(running') = Live(final)
  <2>1. f \in BOOLEAN
    OBVIOUS
  <2> HIDE DEF f
  <2> QED BY <1>1, <1>11, <2>1, FullChanged
<1>13. Len(running'.reqs) = kept /\ DOMAIN running'.reqs = 1..kept
  <2>1. Len(running'.reqs) = kept /\ running' \in BatchType
    BY <1>11, <1>12 DEF SameLists, BatchOK
  <2> QED BY <2>1, BatchTypes
<1>14. \A j \in 1..kept : \E k \in 1..kept : \E a \in A :
         SameRow(batch, k, running, a) /\ SameRow(running', j, batch, k)
                                       /\ SameRow(running', j, running, a)
  <2> SUFFICES ASSUME NEW j \in 1..kept
               PROVE  \E k \in 1..kept : \E a \in A :
                        SameRow(batch, k, running, a) /\ SameRow(running', j, batch, k)
                                                      /\ SameRow(running', j, running, a)
    OBVIOUS
  <2>1. PICK k \in 1..kept : SameRow(final, j, batch, k)
    BY <1>11
  <2>2. k \in 1..m
    BY <1>4, <1>8
  <2>3. PICK a \in A : SameRow(batch, k, running, a)
    BY <1>7, <2>2
  <2>4. SameRow(running', j, batch, k)
    BY <1>12, <2>1 DEF SameRow, SameLists
  <2>5. SameRow(running', j, running, a)
    BY <2>3, <2>4 DEF SameRow
  <2> QED BY <2>3, <2>4, <2>5
<1>15. \A i, j \in 1..m : batch.reqs[i] = batch.reqs[j] => i = j
  <2>1. CASE batch.reqs = <<>>
    BY <1>7, <2>1, EmptyList
  <2>2. CASE batch.reqs # <<>>
    BY <1>7, <2>2 DEF BatchOK, InStep
  <2> QED BY <2>1, <2>2
<1>16. ASSUME NEW k \in 1..kept PROVE ~Back(batch.reqs[k])
  <2> SUFFICES ASSUME NEW i \in (kept + 1)..m, batch.reqs[i] = batch.reqs[k] PROVE FALSE
    OBVIOUS
  <2>1. i \in 1..m /\ k \in 1..m /\ i # k
    BY <1>4, <1>8
  <2> QED BY <1>15, <2>1
<1>17. ASSUME NEW r \in Reqs, Back(r) PROVE status[r] # "finished"
  <2>1. PICK i \in (kept + 1)..m : batch.reqs[i] = r
    BY <1>17
  <2>2. i \in 1..m
    BY <1>4, <1>8
  <2>3. PICK a \in A : SameRow(batch, i, running, a)
    BY <1>7, <2>2
  <2> QED BY <2>1, <2>3 DEF SameRow
<1>18. \A r \in Reqs : (Back(r) => status'[r] = "waiting") /\ (~Back(r) => status'[r] = status[r])
  <2> HIDE DEF Back
  <2> QED BY <1>1
<1> HIDE DEF Back
<1>19. \A r : ~InRow(last, r)
  BY <1>2, EmptyList DEF InRow
<1>20. LoopInv'
  <2>1. status' \in [Reqs -> {"new", "waiting", "active", "finished"}]
    BY <1>1, <1>2 DEF LoopInv
  <2>2. \A r \in Reqs : status'[r] # "finished" => status[r] # "finished"
    BY <1>17, <1>18
  <2>3. \A r \in Reqs : status'[r] # "finished" => ntok[r] < PromptLen(r) + MaxNew
    BY <1>2, <2>2 DEF LoopInv
  <2>4. kept # 0 => running'.reqs # <<>>
    BY <1>13, EmptyList
  <2> QED BY <1>1, <1>2, <2>1, <2>3, <2>4 DEF LoopInv
<1>21. ChunkOK'
  BY <1>1 DEF ChunkOK
<1>22. CurOK'
  BY <1>1, <1>2, EmptyList DEF CurOK, SegsOK
<1>23. ServedOnce'
  <2> SUFFICES ASSUME NEW r \in Reqs
               PROVE  /\ \A i, j \in DOMAIN running'.reqs :
                           running'.reqs[i] = r /\ running'.reqs[j] = r => i = j
                      /\ InRow(running', r) => status'[r] \in {"active", "finished"}
                      /\ status'[r] = "active" => InRow(running', r)
    <3>1. last' = last /\ last'.reqs = <<>>
      BY <1>1, <1>2
    <3> QED BY <1>19, <3>1, EmptyList DEF ServedOnce
  <2>1. \A i, j \in DOMAIN running'.reqs : running'.reqs[i] = r /\ running'.reqs[j] = r => i = j
    <3>1. CASE running'.reqs = <<>>
      BY <3>1, EmptyList
    <3>2. CASE running'.reqs # <<>>
      BY <1>12, <1>13, <3>2 DEF BatchOK, InStep
    <3> QED BY <3>1, <3>2
  <2>2. ASSUME InRow(running', r) PROVE status'[r] \in {"active", "finished"}
    <3>1. PICK j \in 1..kept : running'.reqs[j] = r
      BY <1>13, <2>2 DEF InRow
    <3>2. PICK k \in 1..kept, a \in A : running'.reqs[j] = batch.reqs[k] /\ running'.reqs[j] = running.reqs[a]
      BY <1>14 DEF SameRow
    <3>3. InRow(running, r)
      BY <1>3, <3>1, <3>2 DEF InRow
    <3>4. status[r] \in {"active", "finished"}
      BY <1>2, <3>3 DEF ServedOnce
    <3>5. ~Back(r)
      BY <1>16, <3>1, <3>2
    <3> QED BY <1>18, <3>4, <3>5
  <2>3. ASSUME status'[r] = "active" PROVE InRow(running', r)
    <3>1. ~Back(r) /\ status[r] = "active"
      BY <1>18, <2>3
    <3>2. InRow(running, r)
      BY <1>1, <1>2, <1>19, <3>1, EmptyList DEF ServedOnce, InChunk
    <3>3. PICK a \in 1..Len(running.reqs) : running.reqs[a] = r
      BY <1>3, <3>2 DEF InRow
    <3>4. a \in A
      BY <3>1, <3>3
    <3>5. PICK j \in 1..m : SameRow(batch, j, running, a)
      BY <1>7, <3>4
    <3>6. batch.reqs[j] = r
      BY <3>3, <3>5 DEF SameRow
    <3>7. j \notin (kept + 1)..m
      BY <3>1, <3>6 DEF Back
    <3>8. j \in 1..kept
      BY <1>4, <1>8, <3>7
    <3>9. PICK i \in 1..kept : SameRow(final, i, batch, j)
      BY <1>11, <3>8
    <3> QED BY <1>12, <1>13, <3>6, <3>9 DEF InRow, SameRow, SameLists
  <2> QED BY <2>1, <2>2, <2>3
<1>24. SlotInv'
  <2>1. /\ pool' \in PoolRecord /\ FreeListOK(pool') /\ pool'.pool_size = pool.pool_size
        /\ pool'.n_alloc + Len(pool'.free) = pool.n_alloc + Len(pool.free)
    BY <1>7, <1>11 DEF PoolKept
  <2>2. Live(last') = {}
    BY <1>1, <1>2 DEF Live
  <2>3. Live(running') \cap Elements(pool'.free) = {} /\ Live(running') \subseteq 1..(pool.pool_size - 1)
    BY <1>5, <1>7, <1>11, <1>12
  <2> QED BY <1>1, <1>5, <2>1, <2>2, <2>3 DEF SlotInv
<1>25. RowsAligned'
  <2>1. ASSUME NEW j \in 1..kept PROVE RowAligned(running', j)
    <3>1. PICK a \in A : SameRow(running', j, running, a)
      BY <1>14
    <3>2. RowAligned(running, a)
      BY RunningAligned
    <3> QED BY <3>1, <3>2, AlignedSame
  <2>2. \A j \in DOMAIN running'.reqs : RowAligned(running, j)'
    BY <1>1, <1>13, <2>1 DEF RowAligned
  <2>3. last'.reqs = <<>>
    BY <1>1, <1>2
  <2> QED BY <2>2, <2>3, EmptyList DEF RowsAligned
<1>26. BatchOK(last)'
  BY <1>1, <1>2
<1>27. ASSUME running'.reqs # <<>> PROVE SlotsKept
  <2>1. pool'.pool_size = pool.pool_size /\ pool.pool_size \in Nat
    BY <1>5, <1>7, <1>11 DEF PoolKept, PoolRecord
  <2>2. pool.pool_size <= pool'.pool_size /\ pool.pool_size..(pool'.pool_size - 1) = {}
    BY <2>1
  <2>3. kept # 0 /\ m # 0
    BY <1>4, <1>8, <1>12, <1>13, <1>27, BatchTypes DEF BatchOK
  <2>4. Live(batch) \cup Elements(mid.free) = Live(running) \cup Elements(pool.free)
    BY <1>6, <2>3 DEF FilterDone, m
  <2>5. Live(final) \cup Elements(pool'.free) = Live(batch) \cup Elements(mid.free)
    BY <1>9, <1>10, <2>3 DEF FilterDone
  <2>6. Live(running') = Live(final) /\ Live(last) = {}
    BY <1>2, <1>12 DEF Live
  <2> QED BY <2>2, <2>4, <2>5, <2>6 DEF SlotsKept
<1>28. RowsKept
  BY <1>13, <1>14 DEF RowsKept
<1> QED BY <1>12, <1>20, <1>21, <1>22, <1>23, <1>24, <1>25, <1>26, <1>27, <1>28 DEF ServingInv

-----------------------------------------------------------------------------
(* Writing rows into the buffers. *)

\* d is c with the rows written, and nothing else.
WrittenOK(c, rows, cells, d) ==
  /\ DOMAIN d = DOMAIN c
  /\ \A i \in 1..Len(rows) : \A j \in 1..Len(rows[i]) : d[rows[i][j]] = cells[i][j]
  /\ \A s \in DOMAIN c : s \notin SlotsOf(rows) => d[s] = c[s]

LEMMA WrittenFacts ==
  ASSUME NEW c, NEW rows, RowsOK(rows), SlotsOf(rows) \subseteq DOMAIN c, NEW cells
  PROVE  WrittenOK(c, rows, cells, Written(c, rows, cells))
<1> DEFINE d == Written(c, rows, cells)
           n == Len(rows)
           Named(s) == \E i \in DOMAIN rows : \E j \in DOMAIN rows[i] : rows[i][j] = s
           Row(s) == CHOOSE i \in DOMAIN rows : \E j \in DOMAIN rows[i] : rows[i][j] = s
           Col(s) == CHOOSE j \in DOMAIN rows[Row(s)] : rows[Row(s)][j] = s
<1>1. DOMAIN d = DOMAIN c /\ \A s \in DOMAIN c : d[s] = IF Named(s) THEN cells[Row(s)][Col(s)] ELSE c[s]
  BY DEF Written
<1> HIDE DEF d
<1>2. /\ n \in Nat /\ DOMAIN rows = 1..n
      /\ \A i \in 1..n : /\ DOMAIN rows[i] = 1..Len(rows[i]) /\ Unique(rows[i])
                         /\ Elements(rows[i]) \subseteq SlotsOf(rows)
  BY RowFacts
<1>3. \A i, j \in 1..n : i # j => Elements(rows[i]) \cap Elements(rows[j]) = {}
  BY DEF RowsOK
<1>4. ASSUME NEW i \in 1..n, NEW j \in 1..Len(rows[i]) PROVE d[rows[i][j]] = cells[i][j]
  <2> DEFINE s == rows[i][j]
  <2>1. s \in Elements(rows[i]) /\ s \in DOMAIN c
    BY <1>2 DEF Elements
  <2>2. Named(s)
    BY <1>2
  <2>3. Row(s) \in 1..n /\ \E l \in DOMAIN rows[Row(s)] : rows[Row(s)][l] = s
    BY <1>2, <2>2
  <2>4. Col(s) \in DOMAIN rows[Row(s)] /\ rows[Row(s)][Col(s)] = s
    BY <2>3
  <2> DEFINE k == Row(s)
             l == Col(s)
  <2>5. d[s] = cells[k][l]
    BY <1>1, <2>1, <2>2
  <2>6. k \in 1..n /\ l \in DOMAIN rows[k] /\ rows[k][l] = s
    BY <2>3, <2>4
  <2> HIDE DEF s, k, l
  <2>7. s \in Elements(rows[k])
    BY <2>6 DEF Elements
  <2>8. k = i
    BY <1>3, <2>1, <2>6, <2>7
  <2>9. l = j
    BY <1>2, <2>6, <2>8 DEF Unique, s
  <2> QED BY <2>5, <2>8, <2>9 DEF s
<1>5. ASSUME NEW s \in DOMAIN c, s \notin SlotsOf(rows) PROVE d[s] = c[s]
  <2>1. ~Named(s)
    <3> SUFFICES ASSUME NEW i \in DOMAIN rows, NEW j \in DOMAIN rows[i], rows[i][j] = s PROVE FALSE
      OBVIOUS
    <3>1. s \in Elements(rows[i])
      BY DEF Elements
    <3> QED BY <1>2, <1>5, <3>1
  <2> HIDE DEF Named, Row, Col
  <2> QED BY <1>1, <2>1
<1> QED BY <1>1, <1>4, <1>5 DEF WrittenOK, d

\* What the slots of a row hold in the buffers c.
Read(c, row) == [j \in DOMAIN row |-> c[row[j]]]

\* Reading a list of slots gives a list of as many entries.
LEMMA ReadList ==
  ASSUME NEW c, NEW row \in Seq(Positive), NEW S, \A j \in 1..Len(row) : c[row[j]] \in S
  PROVE  /\ Read(c, row) \in Seq(S) /\ Len(Read(c, row)) = Len(row) /\ Len(row) \in Nat
         /\ \A j \in 1..Len(row) : Read(c, row)[j] = c[row[j]]
<1>1. Len(row) \in Nat /\ DOMAIN row = 1..Len(row)
  BY LenProperties
<1>2. Read(c, row) \in [1..Len(row) -> S] /\ \A j \in 1..Len(row) : Read(c, row)[j] = c[row[j]]
  BY <1>1 DEF Read
<1> QED BY <1>1, <1>2, ListOf

LEMMA ReadConcat ==
  ASSUME NEW c, NEW a \in Seq(Positive), NEW b \in Seq(Positive)
  PROVE  Read(c, a \o b) = Read(c, a) \o Read(c, b)
<1> DEFINE S == {c[x] : x \in Positive}
           n == Len(a)
           m == Len(b)
           ab == a \o b
           A == Read(c, a)
           B == Read(c, b)
           AB == Read(c, ab)
<1>1. \A x \in Positive : c[x] \in S
  OBVIOUS
<1> HIDE DEF S
<1>2. /\ n \in Nat /\ m \in Nat /\ (\A j \in 1..n : a[j] \in Positive)
      /\ \A j \in 1..m : b[j] \in Positive
  BY LenProperties, ElementOfSeq
<1>3. /\ A \in Seq(S) /\ Len(A) = n /\ \A j \in 1..n : A[j] = c[a[j]]
  BY <1>1, <1>2, ReadList
<1>4. /\ B \in Seq(S) /\ Len(B) = m /\ \A j \in 1..m : B[j] = c[b[j]]
  BY <1>1, <1>2, ReadList
<1>5. Joined(Positive, a, b, ab)
  BY ConcatJoins
<1>6. Joined(S, A, B, A \o B)
  BY <1>3, <1>4, ConcatJoins
<1> HIDE DEF A, B, ab
<1>7. /\ ab \in Seq(Positive) /\ Len(ab) = n + m
      /\ (\A j \in 1..n : ab[j] = a[j]) /\ \A j \in 1..m : ab[n + j] = b[j]
  BY <1>5 DEF Joined
<1>8. /\ A \o B \in Seq(S) /\ Len(A \o B) = n + m
      /\ (\A j \in 1..n : (A \o B)[j] = c[a[j]]) /\ \A j \in 1..m : (A \o B)[n + j] = c[b[j]]
  BY <1>3, <1>4, <1>6 DEF Joined
<1>9. AB \in Seq(S) /\ Len(AB) = n + m /\ \A j \in 1..(n + m) : AB[j] = c[ab[j]]
  <2>1. \A j \in 1..Len(ab) : ab[j] \in Positive
    BY <1>7, ElementOfSeq
  <2>2. \A j \in 1..Len(ab) : c[ab[j]] \in S
    BY <1>1, <2>1
  <2>3. AB \in Seq(S) /\ Len(AB) = Len(ab) /\ \A j \in 1..Len(ab) : AB[j] = c[ab[j]]
    <3>1. ab \in Seq(Positive)
      BY <1>7
    <3> QED BY <2>2, <3>1, ReadList
  <2> HIDE DEF AB, n, m
  <2> QED BY <1>7, <2>3
<1> HIDE DEF AB
<1>10. ASSUME NEW j \in 1..(n + m) PROVE AB[j] = (A \o B)[j]
  <2>1. CASE j \in 1..n
    <3>1. AB[j] = c[ab[j]]
      BY <1>9
    <3>2. ab[j] = a[j] /\ (A \o B)[j] = c[a[j]]
      BY <1>7, <1>8, <2>1
    <3> QED BY <3>1, <3>2
  <2>2. CASE j \notin 1..n
    <3>1. PICK k \in 1..m : j = n + k
      <4>1. j - n \in 1..m /\ j = n + (j - n)
        BY <1>2, <2>2
      <4> QED BY <4>1
    <3>2. AB[n + k] = c[ab[n + k]] /\ ab[n + k] = b[k] /\ (A \o B)[n + k] = c[b[k]]
      BY <1>7, <1>8, <1>9, <3>1
    <3> QED BY <3>1, <3>2
  <2> QED BY <2>1, <2>2
<1>11. AB = A \o B
  <2> DEFINE z == A \o B
  <2>1. z \in Seq(S) /\ Len(z) = Len(AB) /\ \A j \in 1..Len(AB) : AB[j] = z[j]
    BY <1>8, <1>9, <1>10
  <2> HIDE DEF z
  <2>2. AB = z
    BY <1>9, <2>1, SeqEqual
  <2> QED BY <2>2 DEF z
<1> QED BY <1>11 DEF A, B, AB, ab

\* The first m elements of a list.
LEMMA FrontOf ==
  ASSUME NEW S, NEW s \in Seq(S), NEW m \in 0..Len(s)
  PROVE  /\ SubSeq(s, 1, m) \in Seq(S) /\ Len(SubSeq(s, 1, m)) = m
         /\ \A j \in 1..m : SubSeq(s, 1, m)[j] = s[j]
<1>1. Len(s) \in Nat /\ m \in Nat /\ m <= Len(s) /\ \A j \in 1..Len(s) : s[j] \in S
  BY LenProperties, ElementOfSeq
<1> DEFINE f == SubSeq(s, 1, m)
<1>2. /\ f \in Seq(S) /\ Len(f) = IF 1 <= m THEN m - 1 + 1 ELSE 0
      /\ \A j \in 1..(m - 1 + 1) : f[j] = s[1 + j - 1]
  <2>1. \A j \in 1..m : s[j] \in S
    BY <1>1
  <2> QED BY <1>1, <2>1, SubSeqProperties
<1> HIDE DEF f
<1>3. Len(f) = m
  BY <1>1, <1>2
<1>4. \A j \in 1..m : j \in 1..(m - 1 + 1) /\ 1 + j - 1 = j
  BY <1>1
<1>5. \A j \in 1..m : f[j] = s[j]
  BY <1>2, <1>4
<1> QED BY <1>2, <1>3, <1>5 DEF f

LEMMA ReadFront ==
  ASSUME NEW c, NEW row \in Seq(Positive), NEW m \in 0..Len(row)
  PROVE  Read(c, SubSeq(row, 1, m)) = SubSeq(Read(c, row), 1, m)
<1> DEFINE S == {c[x] : x \in Positive}
           front == SubSeq(row, 1, m)
           A == Read(c, row)
           F == SubSeq(A, 1, m)
<1>1. \A x \in Positive : c[x] \in S
  OBVIOUS
<1> HIDE DEF S
<1>2. Len(row) \in Nat /\ m \in Nat /\ m <= Len(row) /\ \A j \in 1..Len(row) : row[j] \in Positive
  BY LenProperties, ElementOfSeq
<1>3. A \in Seq(S) /\ Len(A) = Len(row) /\ \A j \in 1..Len(row) : A[j] = c[row[j]]
  BY <1>1, <1>2, ReadList
<1> HIDE DEF A
<1>4. front \in Seq(Positive) /\ Len(front) = m /\ \A j \in 1..m : front[j] = row[j]
  BY <1>2, FrontOf
<1>5. F \in Seq(S) /\ Len(F) = m /\ \A j \in 1..m : F[j] = A[j]
  BY <1>2, <1>3, FrontOf
<1> HIDE DEF front, F
<1>6. Read(c, front) \in Seq(S) /\ Len(Read(c, front)) = m /\ \A j \in 1..m : Read(c, front)[j] = c[front[j]]
  <2>1. \A j \in 1..Len(front) : c[front[j]] \in S
    BY <1>1, <1>2, <1>4
  <2> QED BY <1>4, <2>1, ReadList
<1>7. \A j \in 1..m : Read(c, front)[j] = F[j]
  BY <1>2, <1>3, <1>4, <1>5, <1>6
<1>8. Read(c, front) = F
  BY <1>5, <1>6, <1>7, SeqEqual
<1> QED BY <1>8 DEF F, front, A

\* Every entry of a row is an entry of its request.
LEMMA PrefillOwner ==
  ASSUME NEW i, NEW j \in 1..((ExtendLen(i) + 1) * K)
  PROVE  PrefilledCells(i)[j][1] = cur[i].req
BY DEF PrefilledCells, Entries

LEMMA RefreshOwner ==
  ASSUME NEW r, NEW n, NEW a, NEW p, NEW j \in 1..((a + 1) * K)
  PROVE  RefreshEntries(r, n, a, p)[j][1] = r
BY DEF RefreshEntries, Entries

\* What an allocation of rows means for the slots L that are in use.
AllocSafe(p, L, a) ==
  /\ a.pool \in PoolRecord /\ FreeListOK(a.pool)
  /\ p.pool_size <= a.pool.pool_size /\ a.pool.pool_size <= max_pool_size
  /\ a.pool.n_alloc + Len(a.pool.free) = a.pool.pool_size - 1
  /\ L \cap SlotsOf(a.rows) = {} /\ L \cap Elements(a.pool.free) = {}
  /\ SlotsOf(a.rows) \cap Elements(a.pool.free) = {}
  /\ L \cup SlotsOf(a.rows) \subseteq 1..(a.pool.pool_size - 1)
  /\ 1..(a.pool.pool_size - 1) \subseteq 0..(max_pool_size - 1)

LEMMA AllocSafety ==
  ASSUME NEW p \in PoolRecord, FreeListOK(p), p.pool_size <= max_pool_size,
         p.n_alloc + Len(p.free) = p.pool_size - 1,
         NEW L, L \cap Elements(p.free) = {}, L \subseteq 1..(p.pool_size - 1),
         NEW ns, NEW k, NEW a, AllocDone(p, ns, k, a)
  PROVE  AllocSafe(p, L, a)
<1> DEFINE q == a.pool
           new == p.pool_size..(q.pool_size - 1)
<1>1. /\ q \in PoolRecord /\ FreeListOK(q) /\ Later(p, q)
      /\ SlotsOf(a.rows) \cap Elements(q.free) = {}
      /\ SlotsOf(a.rows) \cup Elements(q.free) = Elements(p.free) \cup new
  BY DEF AllocDone
<1> HIDE DEF q
<1>2. /\ p.pool_size \in Nat /\ q.pool_size \in Nat /\ p.pool_size >= 2
      /\ p.n_alloc \in Int /\ q.n_alloc \in Int /\ max_pool_size \in Nat
      /\ Len(p.free) \in Nat /\ Len(q.free) \in Nat
  <2>1. p.free \in Seq(Positive) /\ q.free \in Seq(Positive)
    BY <1>1 DEF PoolRecord, Positive, Sentinel
  <2>2. Len(p.free) \in Nat /\ Len(q.free) \in Nat
    BY <2>1, LenProperties
  <2>3. p.pool_size \in Nat /\ q.pool_size \in Nat /\ p.pool_size >= 2
    BY <1>1, SMTT(30) DEF PoolRecord
  <2>4. p.n_alloc \in Int /\ q.n_alloc \in Int
    BY <1>1 DEF PoolRecord
  <2>5. max_pool_size \in Nat
    BY PoolAssumption DEF max_pool_size
  <2> QED BY <2>2, <2>3, <2>4, <2>5
<1>3. /\ p.pool_size <= q.pool_size /\ q.pool_size <= max_pool_size
      /\ q.n_alloc + Len(q.free) - q.pool_size = p.n_alloc + Len(p.free) - p.pool_size
  BY <1>1, <1>2 DEF Later
<1>4. q.n_alloc + Len(q.free) = q.pool_size - 1
  <2>1. PICK x \in Int : x = q.n_alloc
    BY <1>2
  <2>2. PICK y \in Nat : y = Len(q.free)
    BY <1>2
  <2>3. PICK z \in Nat : z = q.pool_size
    BY <1>2
  <2>4. PICK u \in Int : u = p.n_alloc
    BY <1>2
  <2>5. PICK v \in Nat : v = Len(p.free)
    BY <1>2
  <2>6. PICK w \in Nat : w = p.pool_size
    BY <1>2
  <2>7. x + y - z = u + v - w
    BY <1>3, <2>1, <2>2, <2>3, <2>4, <2>5, <2>6, Zenon
  <2>8. u + v = w - 1
    BY <2>4, <2>5, <2>6, Zenon
  <2>9. x + y = z - 1
    BY <2>7, <2>8
  <2> QED BY <2>1, <2>2, <2>3, <2>9, Zenon
<1>5. /\ \A s \in 1..(p.pool_size - 1) : s \in 1..(q.pool_size - 1) /\ s \notin new
      /\ \A s \in new : s \in 1..(q.pool_size - 1)
      /\ 1..(q.pool_size - 1) \subseteq 0..(max_pool_size - 1)
  <2>1. \A a1, b1, c1 \in Nat : a1 >= 2 /\ a1 <= b1 /\ b1 <= c1 =>
          /\ \A s \in 1..(a1 - 1) : s \in 1..(b1 - 1) /\ s \notin a1..(b1 - 1)
          /\ \A s \in a1..(b1 - 1) : s \in 1..(b1 - 1)
          /\ 1..(b1 - 1) \subseteq 0..(c1 - 1)
    OBVIOUS
  <2> QED BY <1>2, <1>3, <2>1, Zenon
<1> HIDE DEF new
<1>6. Elements(p.free) \subseteq 1..(p.pool_size - 1)
  BY DEF FreeListOK
<1>7. L \cap (Elements(p.free) \cup new) = {}
  BY <1>5
<1>8. L \cap SlotsOf(a.rows) = {} /\ L \cap Elements(q.free) = {}
  BY <1>1, <1>7
<1>9. L \cup SlotsOf(a.rows) \subseteq 1..(q.pool_size - 1)
  BY <1>1, <1>5, <1>6
<1> QED BY <1>1, <1>3, <1>4, <1>5, <1>8, <1>9 DEF AllocSafe, q

-----------------------------------------------------------------------------
(* Running a batch. *)

\* The segments of the prefill batch.
LEMMA CurFacts ==
  ASSUME ServingInv
  PROVE  /\ Len(cur) \in Nat /\ DOMAIN cur = 1..Len(cur)
         /\ \A i \in 1..Len(cur) :
              /\ cur[i].req \in Reqs /\ cur[i].from \in Nat /\ cur[i].to \in Nat
              /\ ExtendLen(i) \in Nat /\ ExtendLen(i) >= 1
              /\ cur[i].to <= ntok[cur[i].req]
<1>1. SegsOK(cur)
  BY DEF ServingInv, CurOK
<1>2. cur \in Seq(SegmentType)
  BY <1>1 DEF SegsOK
<1>3. Len(cur) \in Nat /\ DOMAIN cur = 1..Len(cur)
  BY <1>2, LenProperties
<1>4. \A i \in 1..Len(cur) : cur[i].req \in Reqs /\ cur[i].from \in Nat /\ cur[i].to \in Nat
  <2>1. \A i \in 1..Len(cur) : cur[i] \in SegmentType
    BY <1>2, ElementOfSeq
  <2> QED BY <2>1 DEF SegmentType
<1>5. \A i \in 1..Len(cur) : cur[i].from < cur[i].to /\ cur[i].to <= ntok[cur[i].req]
  BY <1>1 DEF SegsOK
<1>6. \A i \in 1..Len(cur) : ExtendLen(i) \in Nat /\ ExtendLen(i) >= 1
  <2> SUFFICES ASSUME NEW i \in 1..Len(cur) PROVE ExtendLen(i) \in Nat /\ ExtendLen(i) >= 1
    OBVIOUS
  <2>1. PICK a \in Nat : a = cur[i].from
    BY <1>4
  <2>2. PICK c \in Nat : c = cur[i].to
    BY <1>4
  <2>3. a < c
    BY <1>5, <2>1, <2>2
  <2>4. c - a \in Nat /\ c - a >= 1
    BY <2>3
  <2> QED BY <2>1, <2>2, <2>4 DEF ExtendLen
<1> QED BY <1>3, <1>4, <1>5, <1>6

\* The lengths of the rows of a prefill.
LEMMA PrefillLens ==
  ASSUME ServingInv
  PROVE  /\ [i \in DOMAIN cur |-> (ExtendLen(i) + 1) * K] \in Seq(Positive)
         /\ Len([i \in DOMAIN cur |-> (ExtendLen(i) + 1) * K]) = Len(cur)
         /\ \A i \in 1..Len(cur) : (ExtendLen(i) + 1) * K \in Nat /\ (ExtendLen(i) + 1) * K >= K
<1> DEFINE ns == [i \in DOMAIN cur |-> (ExtendLen(i) + 1) * K]
           n == Len(cur)
<1>1. n \in Nat /\ DOMAIN cur = 1..n /\ \A i \in 1..n : ExtendLen(i) \in Nat
  BY CurFacts
<1>2. K \in Nat /\ K >= 1
  BY ServingAssumption
<1>3. ASSUME NEW i \in 1..n
      PROVE  (ExtendLen(i) + 1) * K \in Positive /\ (ExtendLen(i) + 1) * K \in Nat
             /\ (ExtendLen(i) + 1) * K >= K
  <2>1. PICK m \in Nat : m = ExtendLen(i) + 1 /\ m >= 1
    BY <1>1
  <2>2. m * K \in Positive /\ m * K \in Nat /\ m * K >= K
    BY <1>2, <2>1, BlockLength
  <2> QED BY <2>1, <2>2, Zenon
<1>4. ns \in [1..n -> Positive]
  BY <1>1, <1>3
<1> HIDE DEF ns
<1>5. ns \in Seq(Positive) /\ Len(ns) = n
  BY <1>1, <1>4, ListOf
<1> QED BY <1>3, <1>5 DEF ns

\* The batch forward_draft_extend makes of the segments.
LEMMA PrefilledFacts ==
  ASSUME ServingInv, NEW rows, RowsOK(rows), Len(rows) = Len(cur),
         \A i \in 1..Len(cur) : Len(rows[i]) = (ExtendLen(i) + 1) * K
  PROVE  /\ BatchOK(PrefilledBatch(rows)) /\ Live(PrefilledBatch(rows)) \subseteq SlotsOf(rows)
         /\ (PrefilledBatch(rows).reqs # <<>> => Live(PrefilledBatch(rows)) = SlotsOf(rows))
         /\ DOMAIN PrefilledBatch(rows).reqs = 1..Len(cur)
<1> DEFINE b == PrefilledBatch(rows)
           n == Len(cur)
<1>1. /\ n \in Nat /\ DOMAIN cur = 1..n
      /\ \A i \in 1..n : /\ cur[i].req \in Reqs /\ cur[i].to \in Nat
                         /\ ExtendLen(i) \in Nat /\ ExtendLen(i) >= 1
  BY CurFacts
<1>2. /\ b.reqs = [i \in 1..n |-> cur[i].req] /\ b.seq_lens = [i \in 1..n |-> cur[i].to]
      /\ b.loc = rows /\ b.count = [i \in 1..n |-> (ExtendLen(i) + 1) * K]
      /\ b.position = [i \in 1..n |-> ExtendLen(i) + 1]
      /\ b.root = [i \in 1..n |-> <<cur[i].req, cur[i].to + 1>>] /\ b.full = FALSE
      /\ b = [reqs |-> b.reqs, seq_lens |-> b.seq_lens, loc |-> b.loc, count |-> b.count,
              position |-> b.position, root |-> b.root, full |-> b.full]
  BY <1>1 DEF PrefilledBatch
<1> HIDE DEF b
<1>3. b.reqs \in Seq(Reqs) /\ Len(b.reqs) = n
  <2>1. b.reqs \in [1..n -> Reqs]
    BY <1>1, <1>2
  <2> QED BY <1>1, <2>1, ListOf
<1>4. b.seq_lens \in Seq(Nat) /\ Len(b.seq_lens) = n
  <2>1. b.seq_lens \in [1..n -> Nat]
    BY <1>1, <1>2
  <2> QED BY <1>1, <2>1, ListOf
<1>5. b.count \in Seq(Nat) /\ Len(b.count) = n
  <2>1. b.count \in [1..n -> Nat]
    BY <1>2, PrefillLens
  <2> QED BY <1>1, <2>1, ListOf
<1>6. b.position \in Seq(Nat) /\ Len(b.position) = n
  <2>1. b.position \in [1..n -> Nat]
    BY <1>1, <1>2
  <2> QED BY <1>1, <2>1, ListOf
<1>7. b.root \in Seq(Reqs \X Nat) /\ Len(b.root) = n
  <2>1. b.root \in [1..n -> Reqs \X Nat]
    BY <1>1, <1>2
  <2> QED BY <1>1, <2>1, ListOf
<1>8. b.loc \in Seq(Seq(Positive)) /\ Len(b.loc) = n
  BY <1>2 DEF RowsOK
<1>9. b \in BatchType
  BY <1>2, <1>3, <1>4, <1>5, <1>6, <1>7, <1>8 DEF BatchType
<1>10. \A i \in 1..n : Len(b.loc[i]) >= K
  <2>1. \A i \in 1..n : Len(rows[i]) >= K
    BY PrefillLens
  <2> QED BY <1>2, <2>1
<1>11. \A i, j \in 1..n : b.reqs[i] = b.reqs[j] => i = j
  <2>1. \A i, j \in 1..n : cur[i].req = cur[j].req => i = j
    BY DEF ServingInv, CurOK, SegsOK
  <2> QED BY <1>2, <2>1
<1>12. BatchOK(b)
  BY <1>2, <1>3, <1>4, <1>5, <1>6, <1>7, <1>8, <1>9, <1>10, <1>11 DEF BatchOK, InStep
<1>13. Live(b) \subseteq SlotsOf(rows) /\ (b.reqs # <<>> => Live(b) = SlotsOf(rows))
  BY <1>2 DEF Live
<1>14. DOMAIN b.reqs = 1..n
  BY <1>2
<1> QED BY <1>12, <1>13, <1>14 DEF b

\* What is processed of a batch's result: the counts grow, and a request that has
\* all its tokens stops.
LEMMA ResultInv ==
  ASSUME LoopInv, NEW R \in SUBSET Reqs, NEW stops \in SUBSET R, status' = Finished(stops),
         ntok' \in [Reqs -> Nat], pc' = "recv", cur' = <<>>,
         \A r \in Reqs : r \notin R => ntok'[r] = ntok[r],
         \A r \in R : /\ ntok[r] <= ntok'[r] /\ ntok'[r] <= PromptLen(r) + MaxNew
                      /\ StopAllowed(r, ntok'[r], r \in stops)
  PROVE  /\ LoopInv'
         /\ \A r \in Reqs : status'[r] = IF r \in stops THEN "finished" ELSE status[r]
<1>1. /\ \A r \in Reqs : status'[r] = IF r \in stops THEN "finished" ELSE status[r]
      /\ status' \in [Reqs -> {"new", "waiting", "active", "finished"}]
  BY DEF Finished, LoopInv
<1>2. ASSUME NEW r \in Reqs
      PROVE  /\ PromptLen(r) <= ntok'[r] /\ ntok'[r] <= PromptLen(r) + MaxNew
             /\ status'[r] # "finished" => ntok'[r] < PromptLen(r) + MaxNew
  <2>1. /\ ntok[r] \in Nat /\ ntok'[r] \in Nat /\ PromptLen(r) \in Nat /\ MaxNew \in Nat
        /\ PromptLen(r) <= ntok[r] /\ ntok[r] <= PromptLen(r) + MaxNew
        /\ status[r] # "finished" => ntok[r] < PromptLen(r) + MaxNew
    BY ServingAssumption DEF LoopInv
  <2>2. CASE r \notin R
    BY <1>1, <2>1, <2>2
  <2>3. CASE r \in R
    <3>1. /\ ntok[r] <= ntok'[r] /\ ntok'[r] <= PromptLen(r) + MaxNew
          /\ (ntok'[r] - PromptLen(r) = MaxNew) => r \in stops
      BY <2>3 DEF StopAllowed
    <3> QED BY <1>1, <2>1, <3>1
  <2> QED BY <2>2, <2>3
<1> QED BY <1>1, <1>2 DEF LoopInv

\* A prefill writes fresh slots only, and its rows are those of its requests.
LEMMA RunPrefillInv ==
  ASSUME ServingInv, NEW stops \in SUBSET Reqs, RunPrefill(stops)
  PROVE  ServingInv' /\ SlotsKept /\ RowsPrefilled
<1> DEFINE n == Len(cur)
           ns == [i \in DOMAIN cur |-> (ExtendLen(i) + 1) * K]
           out == AllocRows(pool, ns)
           cells == [i \in DOMAIN cur |-> PrefilledCells(i)]
<1>1. /\ pc = "prefill" /\ stops \subseteq PromptEnds
      /\ \A r \in PromptEnds : StopAllowed(r, ntok[r] + 1, r \in stops)
      /\ out.ok /\ pool' = out.pool /\ content' = Written(content, out.rows, cells)
      /\ last' = PrefilledBatch(out.rows)
      /\ ntok' = [r \in Reqs |-> IF r \in PromptEnds THEN ntok[r] + 1 ELSE ntok[r]]
      /\ status' = Finished(stops) /\ cur' = <<>> /\ pc' = "recv"
      /\ UNCHANGED <<chunk, running>>
  BY DEF RunPrefill
<1>2. /\ LoopInv /\ ChunkOK /\ CurOK /\ ServedOnce /\ SlotInv /\ BatchOK(running)
      /\ last.reqs = <<>>
  BY <1>1 DEF ServingInv, LoopInv
<1>3. /\ n \in Nat /\ DOMAIN cur = 1..n
      /\ \A i \in 1..n : cur[i].req \in Reqs /\ cur[i].to \in Nat /\ cur[i].to <= ntok[cur[i].req]
  BY CurFacts
<1>4. ns \in Seq(Positive) /\ Len(ns) = n /\ \A i \in 1..n : ns[i] = (ExtendLen(i) + 1) * K
  BY <1>3, PrefillLens
<1>5. /\ pool \in PoolRecord /\ FreeListOK(pool) /\ pool.pool_size <= max_pool_size
      /\ pool.n_alloc + Len(pool.free) = pool.pool_size - 1
      /\ Live(running) \cap Elements(pool.free) = {}
      /\ Live(running) \subseteq 1..(pool.pool_size - 1)
      /\ DOMAIN content = 0..(max_pool_size - 1)
  BY <1>2 DEF SlotInv
<1> HIDE DEF ns
<1>6. AllocDone(pool, ns, n, out)
  BY <1>4, <1>5, AllocRowsFacts
<1> HIDE DEF out
<1>7. AllocSafe(pool, Live(running), out)
  BY <1>5, <1>6, AllocSafety
<1>8. /\ RowsOK(out.rows) /\ Len(out.rows) = n
      /\ \A i \in 1..n : Len(out.rows[i]) = (ExtendLen(i) + 1) * K
  BY <1>1, <1>4, <1>6 DEF AllocDone
<1>9. /\ BatchOK(last') /\ Live(last') \subseteq SlotsOf(out.rows) /\ DOMAIN last'.reqs = 1..n
  BY <1>1, <1>8, PrefilledFacts
<1>10. SlotsOf(out.rows) \subseteq DOMAIN content
  BY <1>5, <1>7 DEF AllocSafe
<1>11. WrittenOK(content, out.rows, cells, content')
  BY <1>1, <1>8, <1>10, WrittenFacts
<1>12. \A i \in 1..n : /\ last'.reqs[i] = cur[i].req /\ last'.seq_lens[i] = cur[i].to
                       /\ last'.loc[i] = out.rows[i] /\ last'.count[i] = (ExtendLen(i) + 1) * K
                       /\ last'.root[i] = <<cur[i].req, cur[i].to + 1>>
  BY <1>1, <1>3 DEF PrefilledBatch
<1>13. PromptEnds \subseteq Reqs /\ \A r \in PromptEnds : /\ status[r] = "active" /\ ~InRow(running, r)
                                                          /\ ~InChunk(r)
  BY <1>2, <1>3 DEF PromptEnds, CurOK
<1>14. /\ ntok' \in [Reqs -> Nat]
       /\ \A r \in Reqs : ntok'[r] = IF r \in PromptEnds THEN ntok[r] + 1 ELSE ntok[r]
  BY <1>1, <1>2 DEF LoopInv
<1>15. /\ LoopInv'
       /\ \A r \in Reqs : status'[r] = IF r \in stops THEN "finished" ELSE status[r]
  <2>1. ASSUME NEW r \in PromptEnds
        PROVE  /\ ntok[r] <= ntok'[r] /\ ntok'[r] <= PromptLen(r) + MaxNew
               /\ StopAllowed(r, ntok'[r], r \in stops)
    <3>1. r \in Reqs /\ ntok'[r] = ntok[r] + 1 /\ StopAllowed(r, ntok[r] + 1, r \in stops)
      BY <1>1, <1>13, <1>14
    <3>2. ntok[r] < PromptLen(r) + MaxNew /\ ntok[r] \in Nat /\ PromptLen(r) \in Nat /\ MaxNew \in Nat
      BY <1>2, <1>13, <3>1, ServingAssumption DEF LoopInv
    <3>3. ntok[r] <= ntok[r] + 1 /\ ntok[r] + 1 <= PromptLen(r) + MaxNew
      BY <3>2
    <3> QED BY <3>1, <3>3
  <2>2. \A r \in Reqs : r \notin PromptEnds => ntok'[r] = ntok[r]
    BY <1>14
  <2> QED BY <1>1, <1>2, <1>13, <1>14, <2>1, <2>2, ResultInv
<1>16. ChunkOK'
  <2> SUFFICES ASSUME chunk # NoChunk
               PROVE  status'[chunk.req] = "active" /\ ntok'[chunk.req] = ntok[chunk.req]
    BY <1>1, <1>2 DEF ChunkOK, InRow
  <2>1. chunk.req \in Reqs /\ InChunk(chunk.req) /\ status[chunk.req] = "active"
    BY <1>2 DEF ChunkOK, InChunk
  <2>2. chunk.req \notin PromptEnds
    BY <1>13, <2>1
  <2> QED BY <1>1, <1>14, <1>15, <2>1, <2>2
<1>17. CurOK'
  BY <1>1, EmptyList DEF CurOK, SegsOK
<1>18. ServedOnce'
  <2> SUFFICES ASSUME NEW r \in Reqs
               PROVE  /\ \A i, j \in DOMAIN running.reqs :
                           running.reqs[i] = r /\ running.reqs[j] = r => i = j
                      /\ \A i, j \in DOMAIN last'.reqs :
                           last'.reqs[i] = r /\ last'.reqs[j] = r => i = j
                      /\ ~(InRow(running, r) /\ InRow(last', r))
                      /\ InRow(running, r) \/ InRow(last', r) => status'[r] \in {"active", "finished"}
                      /\ status'[r] = "active" => InRow(running, r) \/ InRow(last', r) \/ InChunk(r)
    BY <1>1 DEF ServedOnce, InRow, InChunk
  <2>1. InRow(last', r) <=> \E i \in 1..n : cur[i].req = r
    BY <1>9, <1>12 DEF InRow
  <2>2. \A i, j \in DOMAIN last'.reqs : last'.reqs[i] = r /\ last'.reqs[j] = r => i = j
    BY <1>2, <1>9, <1>12 DEF CurOK, SegsOK
  <2>3. InRow(last', r) => ~InRow(running, r) /\ status[r] = "active"
    BY <1>2, <2>1 DEF CurOK
  <2>4. status[r] = "active" => InRow(running, r) \/ InRow(last', r) \/ InChunk(r)
    BY <1>2, <1>3, <2>1, EmptyList DEF ServedOnce, InRow
  <2> QED BY <1>2, <1>15, <2>2, <2>3, <2>4 DEF ServedOnce
<1>19. SlotInv'
  <2>1. Live(running') = Live(running)
    BY <1>1
  <2>2. DOMAIN content' = 0..(max_pool_size - 1)
    BY <1>5, <1>11 DEF WrittenOK
  <2> QED BY <1>1, <1>7, <1>9, <2>1, <2>2 DEF SlotInv, AllocSafe
<1>20. ASSUME NEW i \in 1..Len(running.reqs)
       PROVE  /\ running.reqs[i] \in Reqs /\ ntok'[running.reqs[i]] = ntok[running.reqs[i]]
              /\ \A j \in DOMAIN running.loc[i] :
                   content'[running.loc[i][j]] = content[running.loc[i][j]]
  <2>1. running.reqs # <<>> /\ InStep(running)
    <3>1. running.reqs # <<>>
      BY <1>20, EmptyList
    <3> QED BY <1>2, <3>1 DEF BatchOK
  <2>2. running.reqs[i] \in Reqs /\ ntok'[running.reqs[i]] = ntok[running.reqs[i]]
    <3>1. running.reqs[i] \in Reqs /\ InRow(running, running.reqs[i])
      BY RunningAligned
    <3> QED BY <1>13, <1>14, <3>1
  <2>3. ASSUME NEW j \in DOMAIN running.loc[i]
        PROVE  content'[running.loc[i][j]] = content[running.loc[i][j]]
    <3>1. RowsOK(running.loc) /\ Len(running.loc) = Len(running.reqs)
      BY <2>1 DEF InStep
    <3>2. running.loc[i][j] \in SlotsOf(running.loc)
      BY <3>1, RowFacts DEF Elements
    <3>3. running.loc[i][j] \in Live(running)
      BY <2>1, <3>2 DEF Live
    <3>4. running.loc[i][j] \in DOMAIN content /\ running.loc[i][j] \notin SlotsOf(out.rows)
      BY <1>5, <1>7, <3>3 DEF AllocSafe
    <3> QED BY <1>11, <3>4 DEF WrittenOK
  <2> QED BY <2>2, <2>3
<1>21. ASSUME NEW i \in 1..n
       PROVE  /\ DOMAIN out.rows[i] = 1..((ExtendLen(i) + 1) * K)
              /\ \A j \in DOMAIN out.rows[i] : content'[out.rows[i][j]] = PrefilledCells(i)[j]
  <2>1. DOMAIN out.rows[i] = 1..Len(out.rows[i]) /\ Len(out.rows[i]) = (ExtendLen(i) + 1) * K
    BY <1>8, RowFacts
  <2>2. ASSUME NEW j \in DOMAIN out.rows[i] PROVE content'[out.rows[i][j]] = PrefilledCells(i)[j]
    <3>1. content'[out.rows[i][j]] = cells[i][j]
      BY <1>8, <1>11, <2>1 DEF WrittenOK
    <3>2. cells[i] = PrefilledCells(i)
      BY <1>3
    <3> QED BY <3>1, <3>2
  <2> QED BY <2>1, <2>2
<1>22. ASSUME NEW i \in 1..n, ~InChunk(cur[i].req)
       PROVE  /\ cur[i].req \in Reqs /\ ntok[cur[i].req] \in Nat
              /\ cur[i].to = ntok[cur[i].req] /\ ntok'[cur[i].req] = ntok[cur[i].req] + 1
  <2> DEFINE r == cur[i].req
  <2>1. ~Truncated(cur[i]) /\ r \in Reqs /\ ntok[r] \in Nat
    BY <1>2, <1>3, <1>22 DEF CurOK, LoopInv
  <2>2. cur[i].to = ntok[r]
    BY <1>3, <2>1 DEF Truncated
  <2>3. r \in PromptEnds
    BY <1>3, <2>1 DEF PromptEnds
  <2> QED BY <1>14, <2>1, <2>2, <2>3
<1>23. RowsAligned'
  <2>1. ASSUME NEW i \in DOMAIN running.reqs PROVE RowAligned(running, i)'
    <3>1. i \in 1..Len(running.reqs)
      BY <1>2, BatchTypes DEF BatchOK
    <3>2. RowAligned(running, i)
      BY <3>1, RunningAligned
    <3> QED BY <1>1, <1>20, <3>1, <3>2 DEF RowAligned
  <2>2. ASSUME NEW i \in 1..n, ~InChunk(cur[i].req) PROVE RowAligned(last, i)'
    <3> DEFINE r == cur[i].req
    <3>1. cur[i].to = ntok[r] /\ ntok'[r] = ntok[r] + 1 /\ ntok[r] = (ntok[r] + 1) - 1
      BY <1>22, <2>2
    <3>2. \A j \in DOMAIN out.rows[i] : content'[out.rows[i][j]][1] = r
      <4> SUFFICES ASSUME NEW j \in DOMAIN out.rows[i] PROVE content'[out.rows[i][j]][1] = r
        OBVIOUS
      <4>1. j \in 1..((ExtendLen(i) + 1) * K) /\ content'[out.rows[i][j]] = PrefilledCells(i)[j]
        BY <1>21
      <4>2. PrefilledCells(i)[j][1] = r
        BY <4>1, PrefillOwner
      <4> QED BY <4>1, <4>2
    <3>3. /\ last'.reqs[i] = r /\ Len(last'.loc[i]) = last'.count[i]
          /\ last'.seq_lens[i] = ntok'[r] - 1 /\ last'.root[i] = <<r, ntok'[r]>>
          /\ last'.loc[i] = out.rows[i]
      BY <1>8, <1>12, <3>1
    <3> HIDE DEF r
    <3> QED BY <3>2, <3>3 DEF RowAligned
  <2>3. running' = running /\ chunk' = chunk
    BY <1>1
  <2>4. \A i \in DOMAIN last'.reqs : InChunk(cur[i].req) \/ RowAligned(last, i)'
    BY <1>9, <2>2
  <2>5. \A i \in DOMAIN last'.reqs : InChunk(last.reqs[i])' \/ RowAligned(last, i)'
    BY <1>9, <1>12, <2>3, <2>4 DEF InChunk
  <2> QED BY <2>1, <2>3, <2>5 DEF RowsAligned
<1>24. BatchOK(running)'
  BY <1>1, <1>2
<1>25. SlotsKept
  <2>1. pool.pool_size <= pool'.pool_size
    BY <1>1, <1>7 DEF AllocSafe
  <2>2. SlotsOf(out.rows) \cup Elements(pool'.free) =
          Elements(pool.free) \cup pool.pool_size..(pool'.pool_size - 1)
    BY <1>1, <1>6 DEF AllocDone
  <2>3. Live(last') = SlotsOf(out.rows)
    <3>1. CASE last'.reqs # <<>>
      BY <1>1, <1>8, <3>1, PrefilledFacts
    <3>2. CASE last'.reqs = <<>>
      <4>1. n = 0
        BY <1>3, <1>9, <3>2, EmptyList
      <4>2. SlotsOf(out.rows) = {}
        BY <1>8, <4>1 DEF SlotsOf, SlotsUpTo
      <4> QED BY <3>2, <4>2 DEF Live
    <3> QED BY <3>1, <3>2
  <2>4. Live(running') = Live(running) /\ Live(last) = {}
    BY <1>1, <1>2 DEF Live
  <2> QED BY <2>1, <2>2, <2>3, <2>4 DEF SlotsKept
<1>26. RowsPrefilled
  <2>1. ASSUME NEW i \in 1..Len(running.reqs) PROVE RowState(running, i)' = RowState(running, i)
    <3>1. running' = running
      BY <1>1
    <3>2. Cache(running, i)' = Cache(running, i)
      BY <1>20, <3>1 DEF Cache
    <3> QED BY <1>20, <3>1, <3>2 DEF RowState
  <2>2. Len(last'.reqs) = n
    <3>1. last' \in BatchType
      BY <1>9 DEF BatchOK
    <3>2. Len(last'.reqs) \in Nat /\ 1..Len(last'.reqs) = 1..n
      BY <1>9, <3>1, BatchTypes
    <3> QED BY <1>3, <3>2
  <2>3. ASSUME NEW i \in 1..n PROVE Cache(last, i)' = PrefilledCells(i)
    <3>1. Cache(last, i)' = [j \in DOMAIN out.rows[i] |-> content'[out.rows[i][j]]]
      BY <1>12 DEF Cache
    <3>2. PrefilledCells(i) = [j \in 1..((ExtendLen(i) + 1) * K) |-> PrefilledCells(i)[j]]
      BY DEF PrefilledCells, Entries
    <3> QED BY <1>21, <3>1, <3>2
  <2>4. ASSUME NEW i \in 1..n PROVE last'.reqs[i] = cur[i].req /\ last'.position[i] = ExtendLen(i) + 1
    BY <1>1, <1>3 DEF PrefilledBatch
  <2>5. ASSUME NEW i \in 1..n, ~InChunk(cur[i].req)
        PROVE  ntok[cur[i].req] = cur[i].to /\ ntok'[cur[i].req] = cur[i].to + 1
    BY <1>22, <2>5
  <2>6. running' = running /\ chunk' = chunk
    BY <1>1
  <2> QED BY <2>1, <2>2, <2>3, <2>4, <2>5, <2>6 DEF RowsPrefilled
<1> QED BY <1>9, <1>15, <1>16, <1>17, <1>18, <1>19, <1>23, <1>24, <1>25, <1>26 DEF ServingInv

\* The rows of a decode batch, each with a block for every token of its path.
LEMMA DecodeRows ==
  ASSUME ServingInv, pc = "decode"
  PROVE  /\ InStep(running) /\ Len(running.reqs) \in Nat /\ running \in BatchType
         /\ DOMAIN running.reqs = 1..Len(running.reqs) /\ Live(running) = SlotsOf(running.loc)
         /\ K \in Nat /\ K >= 1
<1>1. running.reqs # <<>> /\ BatchOK(running)
  BY DEF ServingInv, LoopInv
<1>2. Len(running.reqs) \in Nat /\ DOMAIN running.reqs = 1..Len(running.reqs)
  BY <1>1, BatchTypes DEF BatchOK
<1>3. K \in Nat /\ K >= 1
  BY ServingAssumption
<1> QED BY <1>1, <1>2, <1>3 DEF BatchOK, Live

LEMMA DecodeLens ==
  ASSUME NEW n \in Nat, NEW acc \in [1..n -> 0..MaxAccept]
  PROVE  /\ [i \in DOMAIN acc |-> (acc[i] + 1) * K] \in Seq(Positive)
         /\ Len([i \in DOMAIN acc |-> (acc[i] + 1) * K]) = n
         /\ \A i \in 1..n : /\ (acc[i] + 1) * K \in Nat /\ (acc[i] + 1) * K >= K
                            /\ acc[i] \in Nat
<1> DEFINE ns == [i \in DOMAIN acc |-> (acc[i] + 1) * K]
<1>1. K \in Nat /\ K >= 1 /\ MaxAccept \in Nat
  BY ServingAssumption
<1>2. ASSUME NEW i \in 1..n
      PROVE  (acc[i] + 1) * K \in Positive /\ (acc[i] + 1) * K \in Nat
             /\ (acc[i] + 1) * K >= K /\ acc[i] \in Nat
  <2>1. acc[i] \in Nat
    BY <1>1
  <2>2. PICK m \in Nat : m = acc[i] + 1 /\ m >= 1
    BY <2>1
  <2>3. m * K \in Positive /\ m * K \in Nat /\ m * K >= K
    BY <1>1, <2>2, BlockLength
  <2> QED BY <2>1, <2>2, <2>3, Zenon
<1>3. DOMAIN acc = 1..n
  OBVIOUS
<1>4. ns \in [1..n -> Positive]
  BY <1>2, <1>3
<1> HIDE DEF ns
<1>5. ns \in Seq(Positive) /\ Len(ns) = n
  BY <1>4, ListOf
<1> QED BY <1>2, <1>5 DEF ns

\* The rows are cut into what is kept and the block of a rejected root.
RolledBack(b, acc) == [i \in DOMAIN acc |-> RolledBackLoc(b.loc[i], acc[i])]

LEMMA DecodeSplit ==
  ASSUME NEW b, InStep(b), NEW n \in Nat, n = Len(b.reqs), NEW acc \in [1..n -> 0..MaxAccept]
  PROVE  /\ SplitOK(b.loc, RolledBack(b, acc), DroppedRows(b, acc))
         /\ \A i \in 1..n :
              /\ Elements(RolledBack(b, acc)[i]) \subseteq Elements(b.loc[i])
              /\ Len(RolledBack(b, acc)[i]) = IF acc[i] = 0 THEN Len(b.loc[i]) - K ELSE Len(b.loc[i])
<1> DEFINE kept == RolledBack(b, acc)
           dropped == DroppedRows(b, acc)
<1>1. RowsOK(b.loc) /\ Len(b.loc) = n /\ \A i \in 1..n : Len(b.loc[i]) >= K
  BY DEF InStep
<1>2. K \in Nat /\ K >= 1
  BY ServingAssumption
<1>3. DOMAIN kept = 1..n /\ DOMAIN dropped = 1..n /\ kept = [i \in 1..n |-> kept[i]]
      /\ dropped = [i \in 1..n |-> dropped[i]]
      /\ \A i \in 1..n : kept[i] = RolledBackLoc(b.loc[i], acc[i])
                         /\ dropped[i] = DroppedLoc(b.loc[i], acc[i])
  BY DEF RolledBack, DroppedRows
<1> HIDE DEF kept, dropped
<1>4. ASSUME NEW i \in 1..n
      PROVE  /\ kept[i] \in Seq(Positive) /\ Unique(kept[i])
             /\ dropped[i] \in Seq(Positive) /\ Unique(dropped[i])
             /\ Elements(kept[i]) \cup Elements(dropped[i]) = Elements(b.loc[i])
             /\ Elements(kept[i]) \cap Elements(dropped[i]) = {}
             /\ Len(kept[i]) = IF acc[i] = 0 THEN Len(b.loc[i]) - K ELSE Len(b.loc[i])
  <2> DEFINE row == b.loc[i]
             m == Len(row) - K
             front == SubSeq(row, 1, m)
             back == SubSeq(row, m + 1, Len(row))
  <2>1. row \in Seq(Positive) /\ Unique(row) /\ Len(row) \in Nat
    BY <1>1, RowFacts
  <2>2. m \in 0..Len(row)
    BY <1>1, <1>2, <2>1
  <2>3. CASE acc[i] = 0
    <3>1. kept[i] = front /\ dropped[i] = back
      BY <1>3, <2>3 DEF RolledBackLoc, DroppedLoc
    <3> HIDE DEF m, row
    <3>2. /\ front \in Seq(Positive) /\ Unique(front) /\ Len(front) = m
          /\ back \in Seq(Positive) /\ Unique(back)
          /\ Elements(front) \cup Elements(back) = Elements(row)
          /\ Elements(front) \cap Elements(back) = {}
      BY <2>1, <2>2, CutRow
    <3> HIDE DEF front, back
    <3> QED BY <2>3, <3>1, <3>2 DEF m, row
  <2>4. CASE acc[i] # 0
    <3>1. kept[i] = row /\ dropped[i] = <<>>
      BY <1>3, <2>4 DEF RolledBackLoc, DroppedLoc
    <3>2. <<>> \in Seq(Positive) /\ Unique(<<>>) /\ Elements(<<>>) = {}
      <4>1. <<>> \in Seq(Positive) /\ Len(<<>>) = 0
        BY EmptySeq
      <4> QED BY <4>1 DEF Unique, Elements
    <3> QED BY <2>1, <2>4, <3>1, <3>2
  <2> QED BY <2>3, <2>4
<1>5. kept \in [1..n -> Seq(Positive)] /\ dropped \in [1..n -> Seq(Positive)]
  BY <1>3, <1>4
<1>6. \A i \in 1..n : CutOK(b.loc[i], kept[i], dropped[i])
  BY <1>4 DEF CutOK
<1>7. SplitOK(b.loc, kept, dropped)
  BY <1>1, <1>5, <1>6, SplitRows
<1>8. \A i \in 1..n :
        /\ Elements(kept[i]) \subseteq Elements(b.loc[i])
        /\ Len(kept[i]) = IF acc[i] = 0 THEN Len(b.loc[i]) - K ELSE Len(b.loc[i])
  BY <1>4
<1> QED BY <1>7, <1>8 DEF kept, dropped

\* c is the batch b after a refresh with the paths acc and the new rows.
RefreshDone(b, acc, rows, c) ==
  /\ BatchOK(c) /\ c.reqs = b.reqs /\ Live(c) = SlotsOf(RolledBack(b, acc)) \cup SlotsOf(rows)
  /\ \A i \in 1..Len(b.reqs) :
       /\ c.seq_lens[i] = b.seq_lens[i] + acc[i] + 1
       /\ c.loc[i] = RolledBack(b, acc)[i] \o rows[i]
       /\ Len(c.loc[i]) = Len(RolledBack(b, acc)[i]) + Len(rows[i])
       /\ Elements(c.loc[i]) = Elements(RolledBack(b, acc)[i]) \cup Elements(rows[i])
       /\ c.position[i] = RefreshedPosition(b.position[i], acc[i])
       /\ c.count[i] = (IF acc[i] = 0 THEN b.count[i] - K ELSE b.count[i]) + (acc[i] + 1) * K
       /\ c.root[i] = <<b.reqs[i], ntok[b.reqs[i]] + acc[i] + 1>>

LEMMA RefreshedFacts ==
  ASSUME ServingInv, pc = "decode", NEW acc \in [1..Len(running.reqs) -> 0..MaxAccept],
         NEW rows, RowsOK(rows), Len(rows) = Len(running.reqs),
         \A i \in 1..Len(running.reqs) : Len(rows[i]) = (acc[i] + 1) * K,
         SlotsOf(RolledBack(running, acc)) \cap SlotsOf(rows) = {}
  PROVE  RefreshDone(running, acc, rows, RefreshedBatch(running, acc, rows))
<1> DEFINE b == running
           n == Len(b.reqs)
           kept == RolledBack(b, acc)
           c == RefreshedBatch(b, acc, rows)
<1>1. /\ InStep(b) /\ n \in Nat /\ b \in BatchType /\ DOMAIN b.reqs = 1..n /\ K \in Nat
      /\ K >= 1 /\ DOMAIN acc = 1..n
  BY DecodeRows
<1>2. /\ Len(b.seq_lens) = n /\ Len(b.loc) = n /\ Len(b.count) = n /\ Len(b.position) = n
      /\ Len(b.root) = n /\ RowsOK(b.loc) /\ \A i, j \in 1..n : b.reqs[i] = b.reqs[j] => i = j
  BY <1>1 DEF InStep
<1>3. /\ b.reqs \in Seq(Reqs) /\ b.seq_lens \in Seq(Nat) /\ b.count \in Seq(Nat)
      /\ b.position \in Seq(Nat) /\ b.full \in BOOLEAN
      /\ \A i \in 1..n : b.reqs[i] \in Reqs
  BY <1>1, BatchTypes
<1>4. \A i \in 1..n : b.seq_lens[i] \in Nat /\ b.count[i] \in Nat /\ b.position[i] \in Nat
  BY <1>2, <1>3, ElementOfSeq
<1>5. /\ c.reqs = b.reqs /\ c.full = b.full
      /\ c.seq_lens = [i \in 1..n |-> b.seq_lens[i] + acc[i] + 1]
      /\ c.loc = [i \in 1..n |-> RolledBackLoc(b.loc[i], acc[i]) \o rows[i]]
      /\ c.count = [i \in 1..n |->
                     (IF acc[i] = 0 THEN b.count[i] - K ELSE b.count[i]) + (acc[i] + 1) * K]
      /\ c.position = [i \in 1..n |-> RefreshedPosition(b.position[i], acc[i])]
      /\ c.root = [i \in 1..n |-> <<b.reqs[i], ntok[b.reqs[i]] + acc[i] + 1>>]
      /\ c = [reqs |-> c.reqs, seq_lens |-> c.seq_lens, loc |-> c.loc, count |-> c.count,
              position |-> c.position, root |-> c.root, full |-> c.full]
  <2> DEFINE Fields == {"reqs", "seq_lens", "loc", "count", "position", "root", "full"}
             Seqs == [i \in 1..n |-> b.seq_lens[i] + acc[i] + 1]
             Locs == [i \in 1..n |-> RolledBackLoc(b.loc[i], acc[i]) \o rows[i]]
             Counts == [i \in 1..n |->
                         (IF acc[i] = 0 THEN b.count[i] - K ELSE b.count[i]) + (acc[i] + 1) * K]
             Positions == [i \in 1..n |-> RefreshedPosition(b.position[i], acc[i])]
             Roots == [i \in 1..n |-> <<b.reqs[i], ntok[b.reqs[i]] + acc[i] + 1>>]
  <2>1. b = [x \in Fields |-> b[x]]
    BY <1>1 DEF BatchType
  <2>2. c = [b EXCEPT !.seq_lens = Seqs, !.loc = Locs, !.count = Counts,
                      !.position = Positions, !.root = Roots]
    BY <1>1, Zenon DEF RefreshedBatch, VerifiedLens
  <2> HIDE DEF c, b, Seqs, Locs, Counts, Positions, Roots
  <2>3. /\ c.reqs = b.reqs /\ c.full = b.full /\ c.seq_lens = Seqs /\ c.loc = Locs
        /\ c.count = Counts /\ c.position = Positions /\ c.root = Roots
        /\ c = [x \in Fields |-> c[x]]
    BY <2>1, <2>2
  <2>4. c = [reqs |-> c.reqs, seq_lens |-> c.seq_lens, loc |-> c.loc, count |-> c.count,
             position |-> c.position, root |-> c.root, full |-> c.full]
    BY <2>3
  <2> QED BY <2>3, <2>4 DEF Seqs, Locs, Counts, Positions, Roots
<1> HIDE DEF c
<1>6. /\ SplitOK(b.loc, kept, DroppedRows(b, acc))
      /\ \A i \in 1..n :
           Len(kept[i]) = IF acc[i] = 0 THEN Len(b.loc[i]) - K ELSE Len(b.loc[i])
  BY <1>1, DecodeSplit
<1>7. RowsOK(kept) /\ Len(kept) = n
  BY <1>2, <1>6 DEF SplitOK
<1>8. \A i \in 1..n : c.loc[i] = kept[i] \o rows[i]
  BY <1>1, <1>5 DEF RolledBack
<1> HIDE DEF kept
<1>9. \A i \in 1..n : kept[i] \in Seq(Positive) /\ rows[i] \in Seq(Positive) /\ Len(kept[i]) \in Nat
                      /\ Unique(kept[i]) /\ Unique(rows[i])
                      /\ Elements(kept[i]) \subseteq SlotsOf(kept)
                      /\ Elements(rows[i]) \subseteq SlotsOf(rows)
  BY <1>7, RowFacts
<1>10. \A i \in 1..n : /\ c.loc[i] \in Seq(Positive) /\ Len(c.loc[i]) = Len(kept[i]) + Len(rows[i])
                       /\ Elements(c.loc[i]) = Elements(kept[i]) \cup Elements(rows[i])
  <2> SUFFICES ASSUME NEW i \in 1..n
               PROVE  /\ c.loc[i] \in Seq(Positive) /\ Len(c.loc[i]) = Len(kept[i]) + Len(rows[i])
                      /\ Elements(c.loc[i]) = Elements(kept[i]) \cup Elements(rows[i])
    OBVIOUS
  <2>1. Elements(kept[i]) \cap Elements(rows[i]) = {}
    BY <1>9 DEF kept
  <2>2. /\ kept[i] \o rows[i] \in Seq(Positive)
        /\ Len(kept[i] \o rows[i]) = Len(kept[i]) + Len(rows[i])
        /\ Elements(kept[i] \o rows[i]) = Elements(kept[i]) \cup Elements(rows[i])
    BY <1>9, <2>1, ConcatUnique
  <2> QED BY <1>8, <2>2
<1>11. c.loc \in [1..n -> Seq(Positive)]
  <2>1. c.loc = [i \in 1..n |-> c.loc[i]]
    BY <1>5
  <2> QED BY <1>10, <2>1
<1>12. JoinedOK(kept, rows, c.loc)
  <2>1. SlotsOf(kept) \cap SlotsOf(rows) = {}
    BY DEF kept
  <2> QED BY <1>1, <1>7, <1>8, <1>11, <2>1, JoinRows
<1>13. RowsOK(c.loc) /\ Len(c.loc) = n /\ SlotsOf(c.loc) = SlotsOf(kept) \cup SlotsOf(rows)
  BY <1>7, <1>12 DEF JoinedOK
<1>14. \A i \in 1..n : /\ acc[i] \in Nat /\ (acc[i] + 1) * K \in Nat /\ (acc[i] + 1) * K >= K
  BY <1>1, DecodeLens
<1>15. \A i \in 1..n : Len(c.loc[i]) >= K
  <2> SUFFICES ASSUME NEW i \in 1..n PROVE Len(c.loc[i]) >= K
    OBVIOUS
  <2>1. PICK x \in Nat : x = Len(kept[i])
    BY <1>9
  <2>2. PICK y \in Nat : y = Len(rows[i]) /\ y >= K
    BY <1>14
  <2>3. x + y >= K
    BY <1>1, <2>2
  <2> QED BY <1>10, <2>1, <2>2, <2>3
<1>16. c.seq_lens \in Seq(Nat) /\ Len(c.seq_lens) = n
  <2>1. \A i \in 1..n : b.seq_lens[i] + acc[i] + 1 \in Nat
    BY <1>4, <1>14
  <2>2. c.seq_lens \in [1..n -> Nat]
    BY <1>5, <2>1
  <2> QED BY <1>1, <2>2, ListOf
<1>17. c.count \in Seq(Nat) /\ Len(c.count) = n
  <2>1. \A i \in 1..n : (IF acc[i] = 0 THEN b.count[i] - K ELSE b.count[i]) + (acc[i] + 1) * K \in Nat
    <3> SUFFICES ASSUME NEW i \in 1..n
                 PROVE  (IF acc[i] = 0 THEN b.count[i] - K ELSE b.count[i]) + (acc[i] + 1) * K \in Nat
      OBVIOUS
    <3>1. PICK x \in Nat : x = (acc[i] + 1) * K /\ x >= K
      BY <1>14
    <3>2. b.count[i] - K + x \in Nat /\ b.count[i] + x \in Nat
      BY <1>1, <1>4, <3>1
    <3> QED BY <3>1, <3>2
  <2>2. c.count \in [1..n -> Nat]
    BY <1>5, <2>1
  <2> QED BY <1>1, <2>2, ListOf
<1>18. c.position \in Seq(Nat) /\ Len(c.position) = n
  <2>1. \A i \in 1..n : RefreshedPosition(b.position[i], acc[i]) \in Nat
    BY <1>4, <1>14 DEF RefreshedPosition
  <2>2. c.position \in [1..n -> Nat]
    BY <1>5, <2>1
  <2> QED BY <1>1, <2>2, ListOf
<1>19. c.root \in Seq(Reqs \X Nat) /\ Len(c.root) = n
  <2>1. \A i \in 1..n : ntok[b.reqs[i]] \in Nat
    BY <1>3 DEF ServingInv, LoopInv
  <2>2. \A i \in 1..n : ntok[b.reqs[i]] + acc[i] + 1 \in Nat
    BY <1>14, <2>1
  <2>3. c.root \in [1..n -> Reqs \X Nat]
    BY <1>3, <1>5, <2>2
  <2> QED BY <1>1, <2>3, ListOf
<1>20. c \in BatchType
  <2>1. c.reqs \in Seq(Reqs) /\ c.full \in BOOLEAN /\ c.loc \in Seq(Seq(Positive))
    BY <1>3, <1>5, <1>13 DEF RowsOK
  <2> QED BY <1>5, <1>16, <1>17, <1>18, <1>19, <2>1 DEF BatchType
<1>21. BatchOK(c)
  <2>1. c.reqs = b.reqs /\ Len(c.reqs) = n
    BY <1>5
  <2>2. InStep(c)
    BY <1>2, <1>13, <1>15, <1>16, <1>17, <1>18, <1>19, <2>1 DEF InStep
  <2> QED BY <1>20, <2>2 DEF BatchOK
<1>22. Live(c) = SlotsOf(kept) \cup SlotsOf(rows)
  BY <1>5, <1>13 DEF Live, ServingInv, LoopInv
<1>23. \A i \in 1..n :
         /\ c.seq_lens[i] = b.seq_lens[i] + acc[i] + 1
         /\ c.count[i] = (IF acc[i] = 0 THEN b.count[i] - K ELSE b.count[i]) + (acc[i] + 1) * K
         /\ c.root[i] = <<b.reqs[i], ntok[b.reqs[i]] + acc[i] + 1>>
         /\ c.position[i] = RefreshedPosition(b.position[i], acc[i])
  BY <1>5
<1> QED BY <1>5, <1>8, <1>10, <1>21, <1>22, <1>23 DEF RefreshDone, c, kept

\* A decode returns the blocks of rejected roots before it allocates, writes fresh
\* slots only, and advances every row by the path of its own request.
LEMMA RunDecodeInv ==
  ASSUME ServingInv, NEW acc \in [DOMAIN running.reqs -> 0..MaxAccept],
         NEW stops \in SUBSET Reqs, RunDecode(acc, stops)
  PROVE  ServingInv' /\ SlotsKept /\ RowsRefreshed(acc)
<1> DEFINE b == running
           n == Len(b.reqs)
           kept == RolledBack(b, acc)
           dropped == DroppedRows(b, acc)
           mid == FreeRows(pool, dropped)
           ns == [i \in DOMAIN acc |-> (acc[i] + 1) * K]
           out == AllocRows(mid, ns)
           cells == [i \in DOMAIN acc |->
                       RefreshEntries(b.reqs[i], ntok[b.reqs[i]], acc[i], b.position[i])]
           R == {b.reqs[i] : i \in 1..n}
<1>1. /\ pc = "decode" /\ Verified(acc, stops) /\ out.ok /\ pool' = out.pool
      /\ content' = Written(content, out.rows, cells)
      /\ running' = RefreshedBatch(b, acc, out.rows)
      /\ ntok' = [r \in Reqs |->
           IF \E i \in DOMAIN acc : b.reqs[i] = r
           THEN ntok[r] + acc[CHOOSE i \in DOMAIN acc : b.reqs[i] = r] + 1
           ELSE ntok[r]]
      /\ status' = Finished(stops) /\ pc' = "recv" /\ UNCHANGED <<chunk, cur, last>>
  BY DEF RunDecode
<1>2. /\ LoopInv /\ ChunkOK /\ ServedOnce /\ SlotInv /\ cur = <<>> /\ last.reqs = <<>>
      /\ BatchOK(last)
  BY <1>1 DEF ServingInv, LoopInv
<1>3. /\ InStep(b) /\ n \in Nat /\ b \in BatchType /\ DOMAIN b.reqs = 1..n
      /\ Live(b) = SlotsOf(b.loc) /\ K \in Nat /\ K >= 1
  BY <1>1, DecodeRows
<1>4. acc \in [1..n -> 0..MaxAccept] /\ DOMAIN acc = 1..n
  BY <1>3
<1>5. /\ SplitOK(b.loc, kept, dropped)
      /\ \A i \in 1..n :
           /\ Elements(kept[i]) \subseteq Elements(b.loc[i])
           /\ Len(kept[i]) = IF acc[i] = 0 THEN Len(b.loc[i]) - K ELSE Len(b.loc[i])
  BY <1>3, <1>4, DecodeSplit
<1>6. /\ ns \in Seq(Positive) /\ Len(ns) = n
      /\ \A i \in 1..n : ns[i] = (acc[i] + 1) * K /\ acc[i] \in Nat /\ (acc[i] + 1) * K \in Nat
  BY <1>3, <1>4, DecodeLens
<1> HIDE DEF kept, dropped
<1>7. /\ RowsOK(b.loc) /\ Len(b.loc) = n /\ RowsOK(kept) /\ Len(kept) = n
      /\ RowsOK(dropped) /\ SlotsOf(kept) \cup SlotsOf(dropped) = SlotsOf(b.loc)
      /\ SlotsOf(kept) \cap SlotsOf(dropped) = {}
  BY <1>3, <1>5 DEF SplitOK, InStep
<1>8. /\ pool \in PoolRecord /\ FreeListOK(pool) /\ pool.pool_size <= max_pool_size
      /\ pool.n_alloc + Len(pool.free) = pool.pool_size - 1
      /\ SlotsOf(b.loc) \cap Elements(pool.free) = {}
      /\ SlotsOf(b.loc) \subseteq 1..(pool.pool_size - 1)
      /\ DOMAIN content = 0..(max_pool_size - 1)
  BY <1>2, <1>3 DEF SlotInv
<1>9. Returned(pool, SlotsOf(dropped), mid)
  BY <1>7, <1>8, FreeRowsFacts
<1> HIDE DEF mid, ns
<1>10. /\ mid \in PoolRecord /\ FreeListOK(mid) /\ mid.pool_size = pool.pool_size
       /\ mid.n_alloc + Len(mid.free) = mid.pool_size - 1
       /\ Elements(mid.free) = Elements(pool.free) \cup SlotsOf(dropped)
  BY <1>8, <1>9 DEF Returned
<1>11. AllocDone(mid, ns, n, out)
  BY <1>6, <1>10, AllocRowsFacts
<1> HIDE DEF out
<1>12. AllocSafe(mid, SlotsOf(kept), out)
  <2>1. SlotsOf(kept) \cap Elements(mid.free) = {}
    BY <1>7, <1>8, <1>10
  <2>2. SlotsOf(kept) \subseteq 1..(mid.pool_size - 1) /\ mid.pool_size <= max_pool_size
    BY <1>7, <1>8, <1>10
  <2> QED BY <1>10, <1>11, <2>1, <2>2, AllocSafety
<1>13. /\ RowsOK(out.rows) /\ Len(out.rows) = n
       /\ \A i \in 1..n : Len(out.rows[i]) = (acc[i] + 1) * K
  BY <1>1, <1>6, <1>11 DEF AllocDone
<1>14. RefreshDone(b, acc, out.rows, running')
  <2>1. SlotsOf(RolledBack(b, acc)) \cap SlotsOf(out.rows) = {}
    BY <1>12 DEF AllocSafe, kept
  <2> QED BY <1>1, <1>4, <1>13, <2>1, RefreshedFacts
<1>15. /\ BatchOK(running') /\ running'.reqs = b.reqs
       /\ Live(running') = SlotsOf(kept) \cup SlotsOf(out.rows)
  BY <1>14 DEF RefreshDone, kept
<1>16. WrittenOK(content, out.rows, cells, content')
  <2>1. SlotsOf(out.rows) \subseteq DOMAIN content
    BY <1>8, <1>12 DEF AllocSafe
  <2> QED BY <1>1, <1>13, <2>1, WrittenFacts
<1>17. R \subseteq Reqs /\ \A i \in 1..n : b.reqs[i] \in Reqs
  BY <1>3, BatchTypes
<1>18. /\ \A i \in 1..n : ntok'[b.reqs[i]] = ntok[b.reqs[i]] + acc[i] + 1
       /\ \A r \in Reqs : r \notin R => ntok'[r] = ntok[r]
       /\ \A i \in 1..n : ntok[b.reqs[i]] \in Nat
  <2>1. \A r \in Reqs : ntok'[r] = IF \E i \in 1..n : b.reqs[i] = r
                                   THEN ntok[r] + acc[CHOOSE i \in 1..n : b.reqs[i] = r] + 1
                                   ELSE ntok[r]
    BY <1>1, <1>4
  <2>2. ASSUME NEW i \in 1..n PROVE ntok'[b.reqs[i]] = ntok[b.reqs[i]] + acc[i] + 1
    <3> DEFINE k == CHOOSE j \in 1..n : b.reqs[j] = b.reqs[i]
    <3>1. k \in 1..n /\ b.reqs[k] = b.reqs[i]
      OBVIOUS
    <3>2. ntok'[b.reqs[i]] = ntok[b.reqs[i]] + acc[k] + 1
      BY <1>17, <2>1
    <3> HIDE DEF k
    <3>3. k = i
      BY <1>3, <3>1 DEF InStep
    <3> QED BY <3>2, <3>3
  <2>3. \A r \in Reqs : r \notin R => ntok'[r] = ntok[r]
    BY <2>1
  <2>4. \A i \in 1..n : ntok[b.reqs[i]] \in Nat
    BY <1>2, <1>17 DEF LoopInv
  <2> QED BY <2>2, <2>3, <2>4
<1>19. ntok' \in [Reqs -> Nat]
  <2>1. ntok' = [r \in Reqs |-> ntok'[r]]
    BY <1>1
  <2>2. ASSUME NEW r \in Reqs PROVE ntok'[r] \in Nat
    <3>1. CASE r \notin R
      BY <1>2, <1>18, <3>1 DEF LoopInv
    <3>2. CASE r \in R
      <4>1. PICK i \in 1..n : r = b.reqs[i]
        BY <3>2
      <4>2. ntok[r] \in Nat /\ acc[i] \in Nat /\ ntok'[r] = ntok[r] + acc[i] + 1
        BY <1>6, <1>18, <4>1
      <4> QED BY <4>2
    <3> QED BY <3>1, <3>2
  <2> QED BY <2>1, <2>2
<1>20. /\ stops \subseteq R
       /\ \A i \in 1..n : /\ ntok[b.reqs[i]] + acc[i] + 1 <= PromptLen(b.reqs[i]) + MaxNew
                          /\ StopAllowed(b.reqs[i], ntok[b.reqs[i]] + acc[i] + 1, b.reqs[i] \in stops)
  BY <1>1, <1>4 DEF Verified, PathCommitted
<1>21. /\ LoopInv'
       /\ \A r \in Reqs : status'[r] = IF r \in stops THEN "finished" ELSE status[r]
  <2>1. ASSUME NEW r \in R
        PROVE  /\ ntok[r] <= ntok'[r] /\ ntok'[r] <= PromptLen(r) + MaxNew
               /\ StopAllowed(r, ntok'[r], r \in stops)
    <3>1. PICK i \in 1..n : r = b.reqs[i]
      OBVIOUS
    <3>2. ntok[r] \in Nat /\ acc[i] \in Nat /\ ntok'[r] = ntok[r] + acc[i] + 1
      BY <1>6, <1>18, <3>1
    <3>3. ntok[r] <= ntok[r] + acc[i] + 1
      BY <3>2
    <3> QED BY <1>20, <3>1, <3>2, <3>3
  <2>2. cur' = <<>>
    BY <1>1, <1>2
  <2> HIDE DEF R
  <2> QED BY <1>1, <1>2, <1>17, <1>18, <1>19, <1>20, <2>1, <2>2, ResultInv, ZenonT(30)
<1>22. \A r : InRow(running', r) <=> InRow(b, r)
  BY <1>15 DEF InRow
<1>23. \A r \in R : InRow(b, r)
  BY <1>3 DEF InRow
<1>24. ChunkOK'
  <2> SUFFICES ASSUME chunk # NoChunk
               PROVE  status'[chunk.req] = "active" /\ ntok'[chunk.req] = ntok[chunk.req]
    BY <1>1, <1>2, <1>22 DEF ChunkOK
  <2>1. chunk.req \in Reqs /\ status[chunk.req] = "active" /\ ~InRow(b, chunk.req)
    BY <1>2 DEF ChunkOK
  <2>2. chunk.req \notin R
    BY <1>23, <2>1
  <2> QED BY <1>18, <1>20, <1>21, <2>1, <2>2
<1>25. CurOK'
  BY <1>1, <1>2, EmptyList DEF CurOK, SegsOK
<1>26. ServedOnce'
  <2>1. last' = last /\ cur' = cur /\ chunk' = chunk
    BY <1>1
  <2>2. \A r \in Reqs : /\ status'[r] = "active" => status[r] = "active"
                        /\ status[r] \in {"active", "finished"} => status'[r] \in {"active", "finished"}
    BY <1>21
  <2> QED BY <1>2, <1>15, <2>1, <2>2 DEF ServedOnce, InRow, InChunk
<1>27. SlotInv'
  <2>1. Live(last') = {}
    BY <1>1, <1>2 DEF Live
  <2>2. DOMAIN content' = 0..(max_pool_size - 1)
    BY <1>8, <1>16 DEF WrittenOK
  <2>3. Live(running') \cap Elements(pool'.free) = {} /\ Live(running') \subseteq 1..(pool'.pool_size - 1)
    BY <1>1, <1>12, <1>15 DEF AllocSafe
  <2>4. /\ pool' \in PoolRecord /\ FreeListOK(pool') /\ pool'.pool_size <= max_pool_size
        /\ pool'.n_alloc + Len(pool'.free) = pool'.pool_size - 1
    BY <1>1, <1>12 DEF AllocSafe
  <2> QED BY <2>1, <2>2, <2>3, <2>4 DEF SlotInv
<1>28. ASSUME NEW i \in 1..n, NEW s \in Elements(kept[i]) PROVE content'[s] = content[s]
  <2>1. s \in SlotsOf(kept)
    BY <1>7, RowFacts
  <2>2. s \in DOMAIN content /\ s \notin SlotsOf(out.rows)
    BY <1>8, <1>12, <2>1 DEF AllocSafe
  <2> QED BY <1>16, <2>2 DEF WrittenOK
<1>29. ASSUME NEW i \in 1..n
       PROVE  /\ DOMAIN out.rows[i] = 1..((acc[i] + 1) * K)
              /\ \A j \in 1..((acc[i] + 1) * K) :
                   content'[out.rows[i][j]]
                     = RefreshEntries(b.reqs[i], ntok[b.reqs[i]], acc[i], b.position[i])[j]
  <2>1. DOMAIN out.rows[i] = 1..((acc[i] + 1) * K)
    BY <1>13, RowFacts
  <2>2. \A j \in 1..((acc[i] + 1) * K) : content'[out.rows[i][j]] = cells[i][j]
    BY <1>13, <1>16 DEF WrittenOK
  <2>3. cells[i] = RefreshEntries(b.reqs[i], ntok[b.reqs[i]], acc[i], b.position[i])
    BY <1>4
  <2> HIDE DEF cells
  <2> QED BY <2>1, <2>2, <2>3
<1>30. RowsAligned'
  <2>1. ASSUME NEW i \in 1..n PROVE RowAligned(running, i)'
    <3> DEFINE r == b.reqs[i]
    <3>1. /\ RowAligned(b, i) /\ running'.reqs[i] = r
      BY <1>15, RunningAligned
    <3>2. /\ running'.seq_lens[i] = b.seq_lens[i] + acc[i] + 1
          /\ Len(running'.loc[i]) = Len(kept[i]) + Len(out.rows[i])
          /\ Elements(running'.loc[i]) = Elements(kept[i]) \cup Elements(out.rows[i])
          /\ running'.count[i] = (IF acc[i] = 0 THEN b.count[i] - K ELSE b.count[i]) + (acc[i] + 1) * K
          /\ running'.root[i] = <<r, ntok[r] + acc[i] + 1>>
      BY <1>14 DEF RefreshDone, kept
    <3>3. /\ Len(b.loc[i]) = b.count[i] /\ b.seq_lens[i] = ntok[r] - 1
          /\ \A j \in DOMAIN b.loc[i] : content[b.loc[i][j]][1] = r
      BY <3>1 DEF RowAligned
    <3>4. ntok[r] \in Nat /\ acc[i] \in Nat /\ ntok'[r] = ntok[r] + acc[i] + 1
      BY <1>6, <1>18
    <3>5. Len(running'.loc[i]) = running'.count[i]
      BY <1>5, <1>13, <3>2, <3>3
    <3>6. running'.seq_lens[i] = ntok'[r] - 1
      <4>1. (ntok[r] - 1) + acc[i] + 1 = (ntok[r] + acc[i] + 1) - 1
        BY <3>4
      <4> QED BY <3>2, <3>3, <3>4, <4>1
    <3>7. running'.root[i] = <<r, ntok'[r]>>
      BY <3>2, <3>4
    <3>8. ASSUME NEW s \in Elements(kept[i]) PROVE content'[s][1] = r
      <4>1. PICK j \in DOMAIN b.loc[i] : s = b.loc[i][j]
        BY <1>5 DEF Elements
      <4> QED BY <1>28, <3>3, <4>1
    <3>9. ASSUME NEW s \in Elements(out.rows[i]) PROVE content'[s][1] = r
      <4>1. PICK j \in 1..((acc[i] + 1) * K) : s = out.rows[i][j]
        BY <1>29 DEF Elements
      <4>2. content'[s] = RefreshEntries(r, ntok[r], acc[i], b.position[i])[j]
        BY <1>29, <4>1
      <4>3. RefreshEntries(r, ntok[r], acc[i], b.position[i])[j][1] = r
        BY RefreshOwner
      <4> QED BY <4>2, <4>3
    <3>10. \A j \in DOMAIN running'.loc[i] : content'[running'.loc[i][j]][1] = r
      <4>1. \A j \in DOMAIN running'.loc[i] : running'.loc[i][j] \in Elements(running'.loc[i])
        BY DEF Elements
      <4> QED BY <3>2, <3>8, <3>9, <4>1
    <3> HIDE DEF r
    <3> QED BY <3>1, <3>5, <3>6, <3>7, <3>10 DEF RowAligned
  <2>2. DOMAIN running'.reqs = 1..n /\ last'.reqs = <<>>
    BY <1>1, <1>2, <1>3, <1>15
  <2> QED BY <2>1, <2>2, EmptyList DEF RowsAligned
<1>31. BatchOK(last)'
  BY <1>1, <1>2
<1>32. SlotsKept
  <2>1. pool.pool_size <= pool'.pool_size
    BY <1>1, <1>10, <1>12 DEF AllocSafe
  <2>2. SlotsOf(out.rows) \cup Elements(pool'.free) =
          Elements(mid.free) \cup pool.pool_size..(pool'.pool_size - 1)
    BY <1>1, <1>10, <1>11 DEF AllocDone
  <2>3. Live(b) = SlotsOf(kept) \cup SlotsOf(dropped) /\ Live(last) = {}
    BY <1>2, <1>3, <1>7 DEF Live
  <2>4. Live(running') = SlotsOf(kept) \cup SlotsOf(out.rows)
        /\ Elements(mid.free) = Elements(pool.free) \cup SlotsOf(dropped)
    BY <1>10, <1>15
  <2> QED BY <2>1, <2>2, <2>3, <2>4 DEF SlotsKept
<1>33. ASSUME NEW i \in 1..n
       PROVE  Cache(running, i)' =
                KeptCache(Cache(running, i), acc[i])
                  \o RefreshEntries(b.reqs[i], ntok[b.reqs[i]], acc[i], b.position[i])
  <2> DEFINE row == b.loc[i]
             new == out.rows[i]
             entries == RefreshEntries(b.reqs[i], ntok[b.reqs[i]], acc[i], b.position[i])
  <2>1. /\ row \in Seq(Positive) /\ kept[i] \in Seq(Positive) /\ new \in Seq(Positive)
        /\ Len(row) \in Nat /\ Len(row) >= K /\ DOMAIN kept[i] = 1..Len(kept[i])
    BY <1>3, <1>7, <1>13, RowFacts DEF InStep
  <2>2. Cache(running, i)' = Read(content', kept[i] \o new)
    <3>1. running'.loc[i] = kept[i] \o new
      BY <1>14 DEF RefreshDone, kept
    <3> QED BY <3>1 DEF Cache, Read
  <2>3. Read(content', kept[i] \o new) = Read(content', kept[i]) \o Read(content', new)
    BY <2>1, ReadConcat
  <2>4. Read(content', kept[i]) = Read(content, kept[i])
    BY <1>28, <2>1 DEF Read, Elements
  <2>5. Read(content', new) = entries
    <3>1. entries = [j \in 1..((acc[i] + 1) * K) |-> entries[j]]
      BY DEF RefreshEntries, Entries
    <3> HIDE DEF entries
    <3> QED BY <1>29, <3>1 DEF Read, entries
  <2>6. Read(content, kept[i]) = KeptCache(Cache(running, i), acc[i])
    <3>1. Cache(running, i) = Read(content, row) /\ kept[i] = RolledBackLoc(row, acc[i])
      BY <1>4 DEF Cache, Read, kept, RolledBack
    <3>2. CASE acc[i] # 0
      BY <3>1, <3>2 DEF RolledBackLoc, KeptCache
    <3>3. CASE acc[i] = 0
      <4>1. Len(Read(content, row)) = Len(row)
        <5>1. \A j \in 1..Len(row) : content[row[j]] \in {content[row[k]] : k \in 1..Len(row)}
          OBVIOUS
        <5> QED BY <2>1, <5>1, ReadList
      <4>2. Len(row) - K \in 0..Len(row)
        BY <1>3, <2>1
      <4>3. Read(content, SubSeq(row, 1, Len(row) - K)) = SubSeq(Read(content, row), 1, Len(row) - K)
        BY <2>1, <4>2, ReadFront
      <4> QED BY <3>1, <3>3, <4>1, <4>3 DEF RolledBackLoc, KeptCache
    <3> QED BY <3>2, <3>3
  <2> HIDE DEF entries, new
  <2> QED BY <2>2, <2>3, <2>4, <2>5, <2>6 DEF entries
<1>34. RowsRefreshed(acc)
  <2>1. \A i \in 1..n : running'.position[i] = RefreshedPosition(b.position[i], acc[i])
    BY <1>14 DEF RefreshDone
  <2> QED BY <1>15, <1>18, <1>33, <2>1 DEF RowsRefreshed
<1> QED BY <1>15, <1>21, <1>24, <1>25, <1>26, <1>27, <1>30, <1>31, <1>32, <1>34 DEF ServingInv

-----------------------------------------------------------------------------
(* The theorems. *)

LEMMA StepInv == ServingInv /\ [Next]_vars => ServingInv'
<1> SUFFICES ASSUME ServingInv, [Next]_vars PROVE ServingInv'
  OBVIOUS
<1>1. CASE \E r \in Reqs : Recv(r) \/ AbortWaiting(r)
  BY <1>1, RecvInv, AbortInv
<1>2. CASE Flush
  BY <1>2, FlushInv
<1>3. CASE MergeLast
  BY <1>3, MergeLastInv
<1>4. CASE \E segs \in (IF pc = "pick" THEN CanRunLists ELSE {}), full \in BOOLEAN :
             PickPrefill(segs, full)
  <2>1. PICK segs \in (IF pc = "pick" THEN CanRunLists ELSE {}), full \in BOOLEAN :
          PickPrefill(segs, full)
    BY <1>4
  <2>2. pc = "pick" /\ segs \in CanRunLists
    BY <2>1 DEF PickPrefill
  <2> QED BY <2>1, <2>2, PickPrefillInv
<1>5. CASE \E full \in BOOLEAN, kept \in 0..Len(running.reqs) : PickDecode(full, kept)
  <2>1. PICK full \in BOOLEAN, kept \in 0..Len(running.reqs) : PickDecode(full, kept)
    BY <1>5
  <2>2. kept \in Nat
    OBVIOUS
  <2> QED BY <2>1, <2>2, PickDecodeInv
<1>6. CASE PickIdle
  BY <1>6, PickIdleInv
<1>7. CASE \E stops \in SUBSET Reqs : RunPrefill(stops)
  BY <1>7, RunPrefillInv
<1>8. CASE \E acc \in [DOMAIN running.reqs -> 0..MaxAccept], stops \in SUBSET Reqs :
             RunDecode(acc, stops)
  BY <1>8, RunDecodeInv
<1>9. CASE UNCHANGED vars
  <2>1. UNCHANGED <<pc, status, ntok, chunk, cur, running, last, pool, content>>
    BY <1>9 DEF vars
  <2>2. LoopInv' /\ ChunkOK' /\ CurOK'
    BY <2>1 DEF ServingInv, LoopInv, ChunkOK, CurOK, SegsOK, InRow, InChunk, Truncated
  <2>3. BatchOK(running)' /\ BatchOK(last)' /\ SlotInv'
    BY <2>1 DEF ServingInv, SlotInv
  <2>4. ServedOnce' /\ RowsAligned'
    BY <2>1 DEF ServingInv, ServedOnce, RowsAligned, RowAligned, InRow, InChunk
  <2> QED BY <2>2, <2>3, <2>4 DEF ServingInv
<1> QED BY <1>1, <1>2, <1>3, <1>4, <1>5, <1>6, <1>7, <1>8, <1>9 DEF Next, Loop

\* The invariant behind the theorems below: at each point of the loop, which requests
\* are in a batch, in the chunk and in the queue; the lists of a batch in step; every
\* slot free or in one row; every row the row of its request.
THEOREM ServingInvariant == Spec => []ServingInv
BY InitInv, StepInv, PTL DEF Spec

\* Whatever filters, merges, chunked prefills, retractions, stops and refreshes
\* happened, row i of spec_info is the row of batch.reqs[i]: its slot list has
\* cross_count slots, the b0 tensors start from the request's last token, and every
\* slot holds an entry computed for that request and no other.
THEOREM RowsStayAligned == Spec => []RowsAligned
<1>1. ServingInv => RowsAligned
  BY DEF ServingInv
<1> QED BY <1>1, ServingInvariant, PTL

\* The scheduler never has a request in two rows, or in a row and in the queue; and
\* one it took from the queue is in a batch, in the chunk or in the prefill about to
\* run until it finishes or is retracted.
THEOREM RequestsServedOnce == Spec => []ServedOnce
<1>1. ServingInv => ServedOnce
  BY DEF ServingInv
<1> QED BY <1>1, ServingInvariant, PTL

\* The free list names each slot once, so it is no longer than the pool.
LEMMA FreeCount ==
  ASSUME NEW p \in PoolRecord, FreeListOK(p)
  PROVE  /\ Cardinality(Elements(p.free)) = Len(p.free) /\ Len(p.free) \in Nat
         /\ Len(p.free) <= p.pool_size - 1
<1>1. p.free \in Seq(Positive) /\ p.pool_size \in Nat /\ p.pool_size >= 1
  BY DEF PoolRecord, Positive, Sentinel
<1>2. Len(p.free) \in Nat /\ DOMAIN p.free = 1..Len(p.free)
  BY <1>1, LenProperties
<1>3. Unique(p.free) /\ Elements(p.free) \subseteq 1..(p.pool_size - 1)
  BY DEF FreeListOK
<1>4. Elements(p.free) = {p.free[i] : i \in 1..Len(p.free)}
  BY <1>2 DEF Elements
<1>5. Cardinality(Elements(p.free)) = Len(p.free)
  <2>1. Len(p.free) <= Len(p.free)
    BY <1>2
  <2> QED BY <1>1, <1>2, <1>3, <1>4, <2>1, FrontSet
<1>6. IsFiniteSet(1..(p.pool_size - 1)) /\ Cardinality(1..(p.pool_size - 1)) = p.pool_size - 1
  <2>1. PICK z \in Nat : z = p.pool_size - 1
    BY <1>1
  <2>2. IsFiniteSet(1..z) /\ Cardinality(1..z) = z
    BY FS_Interval
  <2> QED BY <2>1, <2>2, Zenon
<1>7. Cardinality(Elements(p.free)) <= Cardinality(1..(p.pool_size - 1))
  BY <1>3, <1>6, FS_Subset
<1> QED BY <1>2, <1>5, <1>6, <1>7

\* The state of the loop keeps its types: among them that no request has more than
\* max_new_tokens, that a chunked request has tokens left to prefill, and that the
\* pool's counter never goes below zero.
THEOREM ServingTypes == Spec => []ServingTypeOK
<1>1. ServingInv => ServingTypeOK
  <2> SUFFICES ASSUME ServingInv PROVE ServingTypeOK
    OBVIOUS
  <2>1. /\ pc \in {"recv", "pick", "prefill", "decode"}
        /\ status \in [Reqs -> {"new", "waiting", "active", "finished"}]
    BY DEF ServingInv, LoopInv
  <2>2. ASSUME NEW r \in Reqs PROVE ntok[r] \in PromptLen(r)..(PromptLen(r) + MaxNew)
    <3>1. /\ ntok[r] \in Nat /\ PromptLen(r) <= ntok[r] /\ ntok[r] <= PromptLen(r) + MaxNew
          /\ PromptLen(r) \in Nat /\ MaxNew \in Nat
      BY ServingAssumption DEF ServingInv, LoopInv
    <3> QED BY <3>1
  <2>3. ASSUME chunk # NoChunk
        PROVE  /\ chunk.req \in Reqs /\ status[chunk.req] = "active"
               /\ chunk.filled \in 1..(ntok[chunk.req] - 1)
    <3>1. /\ chunk.req \in Reqs /\ chunk.filled \in Nat /\ status[chunk.req] = "active"
          /\ 1 <= chunk.filled /\ chunk.filled < ntok[chunk.req]
      BY <2>3 DEF ServingInv, ChunkOK
    <3>2. ntok[chunk.req] \in Nat
      BY <3>1 DEF ServingInv, LoopInv
    <3> QED BY <3>1, <3>2
  <2>4. \A i \in DOMAIN cur : status[cur[i].req] = "active"
    BY CurFacts DEF ServingInv, CurOK
  <2>5. pool \in PoolRecord /\ FreeListOK(pool) /\ pool.n_alloc + Len(pool.free) = pool.pool_size - 1
    BY DEF ServingInv, SlotInv
  <2>6. pool.n_alloc \in Nat
    <3>1. Len(pool.free) \in Nat /\ Len(pool.free) <= pool.pool_size - 1
      BY <2>5, FreeCount
    <3>2. PICK x \in Int : x = pool.n_alloc
      BY <2>5 DEF PoolRecord
    <3>3. PICK y \in Nat : y = Len(pool.free)
      BY <3>1
    <3>4. PICK z \in Nat : z = pool.pool_size
      BY <2>5 DEF PoolRecord
    <3>5. x + y = z - 1 /\ y <= z - 1
      BY <2>5, <3>1, <3>2, <3>3, <3>4, Zenon
    <3>6. x \in Nat
      BY <3>5
    <3> QED BY <3>2, <3>6
  <2> QED BY <2>1, <2>2, <2>3, <2>4, <2>5, <2>6 DEF ServingTypeOK
<1> QED BY <1>1, ServingInvariant, PTL

\* The rows of a batch that is in step, as the properties speak of them.
LEMMA OwnedFacts ==
  ASSUME NEW b, BatchOK(b)
  PROVE  LiveSlots(b) = Live(b) /\ NamedOnce(b)
<1>1. CASE b.reqs = <<>>
  BY <1>1 DEF LiveSlots, LiveRows, Live, NamedOnce
<1>2. CASE b.reqs # <<>>
  <2>1. RowsOK(b.loc)
    BY <1>2 DEF BatchOK, InStep
  <2>2. /\ Len(b.loc) \in Nat /\ DOMAIN b.loc = 1..Len(b.loc)
        /\ \A i \in 1..Len(b.loc) : DOMAIN b.loc[i] = 1..Len(b.loc[i]) /\ Unique(b.loc[i])
    BY <2>1, RowFacts
  <2>3. LiveSlots(b) = UNION {Elements(b.loc[i]) : i \in DOMAIN b.loc}
    <3>1. LiveRows(b) = {b.loc[i] : i \in DOMAIN b.loc}
      BY <1>2 DEF LiveRows
    <3>2. {RowSlots(row) : row \in LiveRows(b)} = {Elements(b.loc[i]) : i \in DOMAIN b.loc}
      BY <3>1 DEF RowSlots, Elements
    <3> QED BY <3>2 DEF LiveSlots
  <2>4. Live(b) = UNION {Elements(b.loc[i]) : i \in 1..Len(b.loc)}
    BY <1>2 DEF Live, SlotsOf, SlotsUpTo
  <2>5. NamedOnce(b)
    <3> SUFFICES ASSUME NEW i \in DOMAIN b.loc, NEW k \in DOMAIN b.loc,
                        NEW j \in DOMAIN b.loc[i], NEW l \in DOMAIN b.loc[k],
                        b.loc[i][j] = b.loc[k][l]
                 PROVE  i = k /\ j = l
      BY DEF NamedOnce
    <3>1. b.loc[i][j] \in Elements(b.loc[i]) /\ b.loc[k][l] \in Elements(b.loc[k])
      BY DEF Elements
    <3>2. i = k
      BY <2>1, <2>2, <3>1 DEF RowsOK
    <3>3. j = l
      BY <2>2, <3>2, SMTT(30) DEF Unique
    <3> QED BY <3>2, <3>3
  <2> QED BY <2>2, <2>3, <2>4, <2>5
<1> QED BY <1>1, <1>2

\* However filter_batch, retraction, rollback and refresh return and take slots row by
\* row, no slot is in two places of the live rows, none of them is free, the deque
\* holds each free slot once, and _n_alloc counts the others exactly.
THEOREM SlotsStayAccounted == Spec => []SlotsAccounted
<1>1. ServingInv => SlotsAccounted
  <2> SUFFICES ASSUME ServingInv PROVE SlotsAccounted
    OBVIOUS
  <2>1. /\ LiveSlots(running) = Live(running) /\ NamedOnce(running)
        /\ LiveSlots(last) = Live(last) /\ NamedOnce(last)
    BY OwnedFacts DEF ServingInv
  <2>2. FreeSlots = Elements(pool.free)
    BY DEF FreeSlots, Elements
  <2>3. /\ pool \in PoolRecord /\ FreeListOK(pool)
        /\ pool.n_alloc + Len(pool.free) = pool.pool_size - 1
        /\ Live(running) \cap Live(last) = {}
        /\ (Live(running) \cup Live(last)) \cap Elements(pool.free) = {}
    BY DEF ServingInv, SlotInv
  <2>4. Cardinality(FreeSlots) = Len(pool.free)
    BY <2>2, <2>3, FreeCount
  <2> QED BY <2>1, <2>2, <2>3, <2>4 DEF SlotsAccounted, OwnedSlots
<1> QED BY <1>1, ServingInvariant, PTL

\* A step that loses no slot leaks none.
LEMMA KeptNotLeaked ==
  ASSUME ServingInv, ServingInv', SlotsKept
  PROVE  Leaked' \subseteq Leaked
<1>1. /\ LiveSlots(running) = Live(running) /\ LiveSlots(last) = Live(last)
      /\ FreeSlots = Elements(pool.free)
  BY OwnedFacts DEF ServingInv, FreeSlots, Elements
<1>2. /\ LiveSlots(running') = Live(running') /\ LiveSlots(last') = Live(last')
      /\ FreeSlots' = Elements(pool'.free)
  BY OwnedFacts DEF ServingInv, FreeSlots, Elements
<1>3. pool.pool_size \in Nat /\ pool'.pool_size \in Nat
  BY DEF ServingInv, SlotInv, PoolRecord
<1> SUFFICES ASSUME NEW s \in Leaked' PROVE s \in Leaked
  OBVIOUS
<1>4. /\ s \in 1..(pool'.pool_size - 1)
      /\ s \notin Live(running') \cup Live(last') \cup Elements(pool'.free)
  BY <1>2 DEF Leaked, OwnedSlots
<1>5. /\ s \notin Live(running) /\ s \notin Live(last) /\ s \notin Elements(pool.free)
      /\ s \notin pool.pool_size..(pool'.pool_size - 1)
  BY <1>4 DEF SlotsKept
<1>6. s \in 1..(pool.pool_size - 1)
  BY <1>3, <1>4, <1>5
<1> QED BY <1>1, <1>5, <1>6 DEF Leaked, OwnedSlots

\* No step but one that empties a batch loses a slot: filtering some rows out,
\* retracting, rolling back a rejected root and refreshing return to the pool exactly
\* what they drop.
THEOREM OnlyEmptyingLeaks == Spec => LeaksOnlyWhenEmptied
<1> DEFINE Emptied == \/ running.reqs # <<>> /\ running'.reqs = <<>>
                      \/ last.reqs # <<>> /\ ~\E i \in DOMAIN last.reqs : MergedRow(last.reqs[i])
           NoLeak == ~(Leaked' \subseteq Leaked) => Emptied
<1>1. ServingInv /\ ServingInv' /\ [Next]_vars => [NoLeak]_vars
  <2> SUFFICES ASSUME ServingInv, ServingInv', Next, ~Emptied PROVE Leaked' \subseteq Leaked
    OBVIOUS
  <2>0. pool \in PoolRecord /\ pool.pool_size \in Nat
    BY DEF ServingInv, SlotInv, PoolRecord
  <2>1. ASSUME Live(running') = Live(running), Live(last') = Live(last), pool' = pool
        PROVE  Leaked' \subseteq Leaked
    <3>1. pool.pool_size <= pool'.pool_size /\ pool.pool_size..(pool'.pool_size - 1) = {}
      BY <2>0, <2>1
    <3>2. SlotsKept
      BY <2>1, <3>1 DEF SlotsKept
    <3> QED BY <3>2, KeptNotLeaked
  <2>2. CASE \E r \in Reqs : Recv(r) \/ AbortWaiting(r)
    BY <2>1, <2>2 DEF Recv, AbortWaiting
  <2>3. CASE Flush
    <3>1. pool' = ResetPool(pool)
      BY <2>3 DEF Flush
    <3>2. Elements(pool'.free) = 1..(pool.pool_size - 1) /\ pool'.pool_size = pool.pool_size
      BY <2>0, <3>1, ResetPoolFacts
    <3>3. Leaked' = {}
      BY <3>2 DEF Leaked, FreeSlots, Elements
    <3> QED BY <3>3
  <2>4. CASE MergeLast
    <3>1. last.reqs = <<>> \/ \E i \in DOMAIN last.reqs : MergedRow(last.reqs[i])
      OBVIOUS
    <3> QED BY <2>4, <3>1, MergeLastInv, KeptNotLeaked
  <2>5. CASE \E segs \in (IF pc = "pick" THEN CanRunLists ELSE {}), full \in BOOLEAN :
               PickPrefill(segs, full)
    <3>1. PICK full \in BOOLEAN : running' = [running EXCEPT !.full = full]
      BY <2>5 DEF PickPrefill
    <3>2. last' = last /\ pool' = pool
      BY <2>5 DEF PickPrefill
    <3>3. Live(running') = Live(running)
      BY <3>1, FullChanged DEF ServingInv
    <3> QED BY <2>1, <3>2, <3>3
  <2>6. CASE \E full \in BOOLEAN, kept \in 0..Len(running.reqs) : PickDecode(full, kept)
    <3>1. PICK full \in BOOLEAN, kept \in 0..Len(running.reqs) : PickDecode(full, kept)
      BY <2>6
    <3>2. kept \in Nat
      OBVIOUS
    <3>3. running'.reqs # <<>>
      BY <3>1 DEF PickDecode
    <3> QED BY <3>1, <3>2, <3>3, PickDecodeInv, KeptNotLeaked
  <2>7. CASE PickIdle
    <3>1. PICK full \in BOOLEAN : running' = [running EXCEPT !.full = full]
      BY <2>7 DEF PickIdle
    <3>2. last' = last /\ pool' = pool
      BY <2>7 DEF PickIdle
    <3>3. Live(running') = Live(running)
      BY <3>1, FullChanged DEF ServingInv
    <3> QED BY <2>1, <3>2, <3>3
  <2>8. CASE \E stops \in SUBSET Reqs : RunPrefill(stops)
    BY <2>8, RunPrefillInv, KeptNotLeaked
  <2>9. CASE \E acc \in [DOMAIN running.reqs -> 0..MaxAccept], stops \in SUBSET Reqs :
               RunDecode(acc, stops)
    BY <2>9, RunDecodeInv, KeptNotLeaked
  <2> QED BY <2>2, <2>3, <2>4, <2>5, <2>6, <2>7, <2>8, <2>9 DEF Next, Loop
<1>2. Spec => [][NoLeak]_vars
  BY <1>1, InitInv, StepInv, PTL DEF Spec
<1>3. [][NoLeak]_vars <=> LeaksOnlyWhenEmptied
  BY DEF LeaksOnlyWhenEmptied
<1> QED BY <1>2, <1>3, PTL

-----------------------------------------------------------------------------
(* The refinement: each request's rows go through the states of its own loop. *)

\* Where slot j of a row is: in a block, at an offset.
LEMMA BlockOf ==
  ASSUME NEW m \in Nat, NEW j \in 1..(m * K)
  PROVE  /\ (j - 1) \div K + 1 \in Nat /\ (j - 1) \div K + 1 >= 1
         /\ (j - 1) % K \in 0..(K - 1) /\ ((j - 1) % K) + 1 \in 1..K
<1>1. K \in Nat /\ K >= 1
  BY ServingAssumption
<1>2. m * K \in Nat
  BY <1>1
<1>3. j - 1 \in Nat
  BY <1>2
<1> DEFINE x == j - 1
<1> HIDE DEF x
<1>4. x \in Nat
  BY <1>3 DEF x
<1>5. x \div K \in Nat /\ x % K \in 0..(K - 1)
  BY <1>1, <1>4
<1>6. x \div K + 1 \in Nat /\ x \div K + 1 >= 1 /\ (x % K) + 1 \in 1..K
  BY <1>1, <1>5
<1> QED BY <1>5, <1>6 DEF x

\* The entries of a prefill are the blocks prefill_and_draft makes.
LEMMA PrefilledBlocks ==
  ASSUME NEW i, NEW r, NEW from \in Nat, NEW to \in Nat, cur[i].req = r, cur[i].from = from,
         cur[i].to = to, from < to
  PROVE  Reference!Prefilled(r, from, to) =
           [n |-> to + 1, cache |-> PrefilledCells(i), position |-> ExtendLen(i) + 1]
<1>1. ExtendLen(i) = to - from /\ to - from \in Nat
  BY DEF ExtendLen
<1> DEFINE S == to - from
           m == S + 1
           Tok(k) == IF k <= S THEN from + k + 1 ELSE to + 1
           cells == [j \in 1..(m * K) |->
                       <<r, Tok((j - 1) \div K + 1), (j - 1) \div K + 1 + ((j - 1) % K)>>]
<1>2. PrefilledCells(i) = cells
  <2>1. PrefilledCells(i) = [j \in 1..(m * K) |->
          <<r, Tok((j - 1) \div K + 1), 0 + ((j - 1) \div K + 1) + ((j - 1) % K)>>]
    BY <1>1 DEF PrefilledCells, Entries
  <2>2. ASSUME NEW j \in 1..(m * K)
        PROVE  0 + ((j - 1) \div K + 1) + ((j - 1) % K) = (j - 1) \div K + 1 + ((j - 1) % K)
    <3>1. m \in Nat
      BY <1>1
    <3>2. (j - 1) \div K + 1 \in Nat /\ (j - 1) % K \in 0..(K - 1)
      BY <3>1, BlockOf
    <3> QED BY <3>2
  <2> HIDE DEF Tok, m
  <2> QED BY <2>1, <2>2
<1>3. Reference!Prefilled(r, from, to).cache = cells
  <2> DEFINE B(k) == Reference!Block(r, Tok(k), k)
  <2>1. Reference!Prefilled(r, from, to).cache = Reference!Blocks(m, B)
    BY DEF Reference!Prefilled
  <2>2. Reference!Blocks(m, B) = [j \in 1..(m * K) |-> B((j - 1) \div K + 1)[((j - 1) % K) + 1]]
    BY DEF Reference!Blocks
  <2>3. ASSUME NEW j \in 1..(m * K)
        PROVE  B((j - 1) \div K + 1)[((j - 1) % K) + 1]
                 = <<r, Tok((j - 1) \div K + 1), (j - 1) \div K + 1 + ((j - 1) % K)>>
    <3> DEFINE b == (j - 1) \div K + 1
               k == ((j - 1) % K) + 1
    <3>1. m \in Nat
      BY <1>1
    <3>2. b \in Nat /\ k \in 1..K /\ (j - 1) % K \in 0..(K - 1)
      BY <3>1, BlockOf
    <3>3. b + k - 1 = b + ((j - 1) % K)
      BY <3>2
    <3> HIDE DEF b, k
    <3>4. B(b)[k] = <<r, Tok(b), b + k - 1>>
      BY <3>2 DEF Reference!Block
    <3> QED BY <3>3, <3>4 DEF b, k
  <2> HIDE DEF B, Tok, m
  <2> QED BY <2>1, <2>2, <2>3
<1> QED BY <1>1, <1>2, <1>3 DEF Reference!Prefilled

\* The entries of a refresh: one block in the place of a rejected root's, or those
\* update_cache_and_draft makes of an accepted path.
LEMMA RejectedBlock ==
  ASSUME NEW r, NEW n \in Nat, NEW p \in Nat
  PROVE  RefreshEntries(r, n, 0, p) = Reference!Block(r, n + 1, p + 1)
<1>1. K \in Nat /\ K >= 1 /\ (0 + 1) * K = K
  BY ServingAssumption
<1>2. RefreshEntries(r, n, 0, p) =
        [j \in 1..((0 + 1) * K) |-> <<r, n + MinOf((j - 1) \div K + 1 + 1, 0 + 1),
                                     p + ((j - 1) \div K + 1) + ((j - 1) % K)>>]
  BY DEF RefreshEntries, Entries
<1>3. ASSUME NEW j \in 1..K
      PROVE  /\ n + MinOf((j - 1) \div K + 1 + 1, 0 + 1) = n + 1
             /\ p + ((j - 1) \div K + 1) + ((j - 1) % K) = p + 1 + j - 1
  <2>1. (j - 1) \div K = 0 /\ (j - 1) % K = j - 1
    BY <1>1
  <2> QED BY <1>1, <2>1 DEF MinOf
<1>4. Reference!Block(r, n + 1, p + 1) = [k \in 1..K |-> <<r, n + 1, p + 1 + k - 1>>]
  BY DEF Reference!Block
<1> QED BY <1>1, <1>2, <1>3, <1>4

\* The loop of request r, at n tokens with cache c and position p, after a refresh that
\* accepted a tokens.
Lengthened(r, n, c, p, a) ==
  [n |-> n + a + 1, cache |-> c \o RefreshEntries(r, n, a, p), position |-> RefreshedPosition(p, a)]

LEMMA AcceptedBlocks ==
  ASSUME NEW r, NEW n \in Nat, NEW a \in Nat, NEW p \in Nat, NEW c, NEW s,
         a >= 1, s.n = n, s.cache = c, s.position = p
  PROVE  Reference!Accepted(r, s, a) = Lengthened(r, n, c, p, a)
<1> DEFINE m == a + 1
           start == p + 1
           Tok(k) == IF k < a THEN n + k + 1 ELSE n + a + 1
           B(k) == Reference!Block(r, Tok(k), start + k)
           cells == [j \in 1..(m * K) |->
                       <<r, Tok((j - 1) \div K + 1), start + ((j - 1) \div K + 1) + ((j - 1) % K)>>]
<1>0. m \in Nat /\ start \in Nat
  OBVIOUS
<1>1. RefreshEntries(r, n, a, p) = cells
  <2>1. RefreshEntries(r, n, a, p) =
          [j \in 1..(m * K) |-> <<r, n + MinOf((j - 1) \div K + 1 + 1, a + 1),
                                  start + ((j - 1) \div K + 1) + ((j - 1) % K)>>]
    BY DEF RefreshEntries, Entries
  <2>2. ASSUME NEW j \in 1..(m * K)
        PROVE  n + MinOf((j - 1) \div K + 1 + 1, a + 1) = Tok((j - 1) \div K + 1)
    <3> DEFINE b == (j - 1) \div K + 1
    <3>1. b \in Nat
      BY <1>0, BlockOf
    <3> HIDE DEF b
    <3>2. n + MinOf(b + 1, a + 1) = Tok(b)
      BY <3>1 DEF MinOf
    <3> QED BY <3>2 DEF b
  <2> HIDE DEF Tok, m, start
  <2> QED BY <2>1, <2>2
<1>2. Reference!Blocks(m, B) = cells
  <2>1. Reference!Blocks(m, B) = [j \in 1..(m * K) |-> B((j - 1) \div K + 1)[((j - 1) % K) + 1]]
    BY DEF Reference!Blocks
  <2>2. ASSUME NEW j \in 1..(m * K)
        PROVE  B((j - 1) \div K + 1)[((j - 1) % K) + 1]
                 = <<r, Tok((j - 1) \div K + 1), start + ((j - 1) \div K + 1) + ((j - 1) % K)>>
    <3> DEFINE b == (j - 1) \div K + 1
               k == ((j - 1) % K) + 1
    <3>1. b \in Nat /\ k \in 1..K /\ (j - 1) % K \in 0..(K - 1)
      BY <1>0, BlockOf
    <3>2. start + b + k - 1 = start + b + ((j - 1) % K)
      BY <1>0, <3>1
    <3> HIDE DEF b, k, start
    <3>3. B(b)[k] = <<r, Tok(b), start + b + k - 1>>
      BY <3>1 DEF Reference!Block
    <3> QED BY <3>2, <3>3 DEF b, k
  <2> HIDE DEF B, Tok, m, start
  <2> QED BY <2>1, <2>2
<1>3. Reference!Accepted(r, s, a) =
        [n |-> n + a + 1, cache |-> c \o Reference!Blocks(m, B), position |-> start + a + 1]
  BY DEF Reference!Accepted
<1>4. start + a + 1 = RefreshedPosition(p, a)
  BY DEF RefreshedPosition
<1> HIDE DEF cells, B, start
<1> QED BY <1>1, <1>2, <1>3, <1>4 DEF Lengthened

\* Where the state of a request's loop is read from.
SessionOK ==
  \A r \in Reqs :
    /\ status[r] # "active" \/ InChunk(r) => session[r] = Reference!Off
    /\ ~InRow(running, r) /\ ~InRow(last, r) => session[r] = Reference!Off
    /\ status[r] = "active" /\ ~InChunk(r) =>
         /\ \A i \in 1..Len(running.reqs) : running.reqs[i] = r => session[r] = RowState(running, i)
         /\ \A i \in 1..Len(last.reqs) : last.reqs[i] = r => session[r] = RowState(last, i)

\* A request has one row.
LEMMA RowOf ==
  ASSUME NEW b, BatchOK(b), NEW i \in 1..Len(b.reqs)
  PROVE  (CHOOSE k \in DOMAIN b.reqs : b.reqs[k] = b.reqs[i]) = i
<1>1. DOMAIN b.reqs = 1..Len(b.reqs)
  BY BatchTypes DEF BatchOK
<1>2. b.reqs # <<>>
  BY <1>1, EmptyList
<1>3. \A k, l \in 1..Len(b.reqs) : b.reqs[k] = b.reqs[l] => k = l
  BY <1>2 DEF BatchOK, InStep
<1> DEFINE k == CHOOSE k \in DOMAIN b.reqs : b.reqs[k] = b.reqs[i]
<1>4. k \in 1..Len(b.reqs) /\ b.reqs[k] = b.reqs[i]
  BY <1>1
<1> HIDE DEF k
<1>5. k = i
  BY <1>3, <1>4
<1> QED BY <1>5 DEF k

LEMMA SessionRows == ServingInv => SessionOK
<1> SUFFICES ASSUME ServingInv, NEW r \in Reqs
             PROVE  /\ status[r] # "active" \/ InChunk(r) => session[r] = Reference!Off
                    /\ ~InRow(running, r) /\ ~InRow(last, r) => session[r] = Reference!Off
                    /\ status[r] = "active" /\ ~InChunk(r) =>
                         /\ \A i \in 1..Len(running.reqs) :
                              running.reqs[i] = r => session[r] = RowState(running, i)
                         /\ \A i \in 1..Len(last.reqs) :
                              last.reqs[i] = r => session[r] = RowState(last, i)
  BY DEF SessionOK
<1> DEFINE Out == status[r] # "active" \/ InChunk(r)
<1>1. session[r] = IF Out THEN Reference!Off
                   ELSE IF InRow(running, r) THEN Session(running, r)
                   ELSE IF InRow(last, r) THEN Session(last, r)
                   ELSE Reference!Off
  BY DEF session, Reference!Off
<1>2. BatchOK(running) /\ BatchOK(last) /\ ServedOnce
  BY DEF ServingInv
<1>3. ASSUME NEW b, BatchOK(b), NEW i \in 1..Len(b.reqs), b.reqs[i] = r
      PROVE  InRow(b, r) /\ Session(b, r) = RowState(b, i)
  <2>1. DOMAIN b.reqs = 1..Len(b.reqs)
    BY <1>3, BatchTypes DEF BatchOK
  <2>2. InRow(b, r)
    BY <1>3, <2>1 DEF InRow
  <2> DEFINE x == CHOOSE k \in DOMAIN b.reqs : b.reqs[k] = r
  <2>3. x = i
    <3>1. (CHOOSE k \in DOMAIN b.reqs : b.reqs[k] = b.reqs[i]) = i
      BY <1>3, RowOf
    <3> QED BY <1>3, <3>1, Zenon
  <2>4. Session(b, r) = RowState(b, i)
    <3>1. Session(b, r) = [n |-> ntok[r], cache |-> Cache(b, x), position |-> b.position[x]]
      BY DEF Session, Cache
    <3> HIDE DEF x
    <3> QED BY <1>3, <2>3, <3>1 DEF RowState
  <2> QED BY <2>2, <2>4
<1>4. ASSUME ~Out, NEW i \in 1..Len(running.reqs), running.reqs[i] = r
      PROVE  session[r] = RowState(running, i)
  BY <1>1, <1>2, <1>3, <1>4
<1>5. ASSUME ~Out, NEW i \in 1..Len(last.reqs), last.reqs[i] = r
      PROVE  session[r] = RowState(last, i)
  <2>1. InRow(last, r) /\ Session(last, r) = RowState(last, i)
    BY <1>2, <1>3, <1>5
  <2>2. ~InRow(running, r)
    BY <1>2, <2>1 DEF ServedOnce
  <2> QED BY <1>1, <1>5, <2>1, <2>2
<1> QED BY <1>1, <1>4, <1>5

LEMMA SessionRowsNext == ServingInv' => SessionOK'
BY SessionRows, PTL

\* A step of the batch is a step of every loop.
Moved == \A r \in Reqs : Reference!Move(r, session[r], session'[r])

LEMMA Stays == ASSUME NEW r, NEW s PROVE Reference!Move(r, s, s)
BY DEF Reference!Move
LEMMA Ends == ASSUME NEW r, NEW s PROVE Reference!Move(r, s, Reference!Off)
BY DEF Reference!Move

\* Row j of c is a row of the batches before the step.
Carried(c, j) ==
  \/ \E k \in 1..Len(running.reqs) : SameRow(c, j, running, k)
  \/ \E k \in 1..Len(last.reqs) : SameRow(c, j, last, k)

\* A step that only moves and drops rows leaves each loop as it is, or ends it.
LEMMA RowsMove ==
  ASSUME ServingInv, ServingInv', ntok' = ntok, content' = content,
         \A j \in 1..Len(running'.reqs) : Carried(running', j),
         \A j \in 1..Len(last'.reqs) : Carried(last', j),
         NEW r \in Reqs,
         InRow(running', r) \/ InRow(last', r) =>
           (status'[r] = "active" /\ ~InChunk(r)' => status[r] = "active" /\ ~InChunk(r))
  PROVE  Reference!Move(r, session[r], session'[r])
<1>1. SessionOK /\ SessionOK'
  BY SessionRows, SessionRowsNext
<1>2. /\ DOMAIN running'.reqs = 1..Len(running'.reqs)
      /\ DOMAIN last'.reqs = 1..Len(last'.reqs)
  <2>1. BatchOK(running') /\ BatchOK(last')
    BY DEF ServingInv
  <2> QED BY <2>1, BatchTypes DEF BatchOK
<1>3. CASE status'[r] # "active" \/ InChunk(r)' \/ (~InRow(running', r) /\ ~InRow(last', r))
  <2>1. session'[r] = Reference!Off
    BY <1>1, <1>3 DEF SessionOK
  <2> QED BY <2>1, Ends
<1>4. CASE status'[r] = "active" /\ ~InChunk(r)' /\ (InRow(running', r) \/ InRow(last', r))
  <2>1. status[r] = "active" /\ ~InChunk(r)
    BY <1>4
  <2>2. ASSUME NEW c, NEW j, Carried(c, j), c.reqs[j] = r
        PROVE  session[r] = [n |-> ntok[r], cache |-> Cache(c, j), position |-> c.position[j]]
    <3>1. CASE \E k \in 1..Len(running.reqs) : SameRow(c, j, running, k)
      <4>1. PICK k \in 1..Len(running.reqs) : SameRow(c, j, running, k)
        BY <3>1
      <4>2. session[r] = RowState(running, k)
        BY <1>1, <2>1, <2>2, <4>1 DEF SessionOK, SameRow
      <4> QED BY <2>2, <4>1, <4>2 DEF RowState, Cache, SameRow
    <3>2. CASE \E k \in 1..Len(last.reqs) : SameRow(c, j, last, k)
      <4>1. PICK k \in 1..Len(last.reqs) : SameRow(c, j, last, k)
        BY <3>2
      <4>2. session[r] = RowState(last, k)
        BY <1>1, <2>1, <2>2, <4>1 DEF SessionOK, SameRow
      <4> QED BY <2>2, <4>1, <4>2 DEF RowState, Cache, SameRow
    <3> QED BY <2>2, <3>1, <3>2 DEF Carried
  <2>3. CASE InRow(running', r)
    <3>1. PICK j \in 1..Len(running'.reqs) : running'.reqs[j] = r
      BY <1>2, <2>3 DEF InRow
    <3>2. session'[r] = RowState(running, j)'
      BY <1>1, <1>4, <3>1 DEF SessionOK
    <3>3. RowState(running, j)' = [n |-> ntok[r], cache |-> Cache(running', j), position |-> running'.position[j]]
      BY <3>1 DEF RowState, Cache
    <3>4. session'[r] = session[r]
      BY <2>2, <3>1, <3>2, <3>3
    <3> QED BY <3>4, Stays
  <2>4. CASE InRow(last', r)
    <3>1. PICK j \in 1..Len(last'.reqs) : last'.reqs[j] = r
      BY <1>2, <2>4 DEF InRow
    <3>2. session'[r] = RowState(last, j)'
      BY <1>1, <1>4, <3>1 DEF SessionOK
    <3>3. RowState(last, j)' = [n |-> ntok[r], cache |-> Cache(last', j), position |-> last'.position[j]]
      BY <3>1 DEF RowState, Cache
    <3>4. session'[r] = session[r]
      BY <2>2, <3>1, <3>2, <3>3
    <3> QED BY <3>4, Stays
  <2> QED BY <1>4, <2>3, <2>4
<1> QED BY <1>3, <1>4

\* The rows of a batch whose lists do not change.
LEMMA ListsCarried ==
  ASSUME SameLists(running', running), last' = last \/ last'.reqs = <<>>
  PROVE  /\ \A j \in 1..Len(running'.reqs) : Carried(running', j)
         /\ \A j \in 1..Len(last'.reqs) : Carried(last', j)
<1>1. ASSUME NEW j \in 1..Len(running'.reqs) PROVE Carried(running', j)
  <2>1. j \in 1..Len(running.reqs) /\ SameRow(running', j, running, j)
    BY DEF SameLists, SameRow
  <2> QED BY <2>1 DEF Carried
<1>2. ASSUME last' = last, NEW j \in 1..Len(last'.reqs) PROVE Carried(last', j)
  <2>1. j \in 1..Len(last.reqs) /\ SameRow(last', j, last, j)
    BY <1>2 DEF SameRow
  <2> QED BY <2>1 DEF Carried
<1>3. ASSUME last'.reqs = <<>>, NEW j \in 1..Len(last'.reqs) PROVE Carried(last', j)
  <2>1. Len(last'.reqs) = 0
    BY <1>3
  <2> QED BY <2>1, <1>3
<1> QED BY <1>1, <1>2, <1>3

LEMMA ClientsMove ==
  ASSUME ServingInv, ServingInv', (\E r \in Reqs : Recv(r) \/ AbortWaiting(r)) \/ Flush \/ PickIdle
  PROVE  Moved
<1>1. ntok' = ntok /\ content' = content /\ chunk' = chunk
  BY DEF Recv, AbortWaiting, Flush, PickIdle
<1>2. \A r \in Reqs : status'[r] = "active" => status[r] = "active"
  <2>1. CASE Flush \/ PickIdle
    BY <2>1 DEF Flush, PickIdle
  <2>2. CASE \E r \in Reqs : Recv(r) \/ AbortWaiting(r)
    <3>1. PICK q \in Reqs, st \in {"waiting", "finished"} : status' = [status EXCEPT ![q] = st]
      BY <2>2 DEF Recv, AbortWaiting
    <3>2. DOMAIN status = Reqs
      BY DEF ServingInv, LoopInv
    <3> QED BY <3>1, <3>2
  <2> QED BY <2>1, <2>2
<1>3. SameLists(running', running) /\ (last' = last \/ last'.reqs = <<>>)
  <2>1. CASE Flush
    BY <2>1, EmptyBatchFacts DEF Flush, NoBatch, SameLists
  <2>2. CASE PickIdle
    <3>1. PICK full \in BOOLEAN : running' = [running EXCEPT !.full = full]
      BY <2>2 DEF PickIdle
    <3>2. last' = last
      BY <2>2 DEF PickIdle
    <3> QED BY <3>1, <3>2, FullChanged DEF ServingInv
  <2>3. CASE \E r \in Reqs : Recv(r) \/ AbortWaiting(r)
    BY <2>3 DEF Recv, AbortWaiting, SameLists
  <2> QED BY <2>1, <2>2, <2>3
<1>4. /\ \A j \in 1..Len(running'.reqs) : Carried(running', j)
      /\ \A j \in 1..Len(last'.reqs) : Carried(last', j)
  BY <1>3, ListsCarried
<1> SUFFICES ASSUME NEW r \in Reqs PROVE Reference!Move(r, session[r], session'[r])
  BY DEF Moved
<1>5. status'[r] = "active" /\ ~InChunk(r)' => status[r] = "active" /\ ~InChunk(r)
  BY <1>1, <1>2 DEF InChunk
<1> QED BY <1>1, <1>4, <1>5, RowsMove

LEMMA MergeLastMoves ==
  ASSUME ServingInv, ServingInv', MergeLast, RowsMerged
  PROVE  Moved
<1>1. ntok' = ntok /\ content' = content /\ chunk' = chunk /\ status' = status /\ last'.reqs = <<>>
  BY EmptyBatchFacts DEF MergeLast, NoBatch
<1>2. /\ \A j \in 1..Len(running'.reqs) : Carried(running', j)
      /\ \A j \in 1..Len(last'.reqs) : Carried(last', j)
  BY <1>1, EmptyList DEF RowsMerged, Carried
<1> SUFFICES ASSUME NEW r \in Reqs PROVE Reference!Move(r, session[r], session'[r])
  BY DEF Moved
<1>3. status'[r] = "active" /\ ~InChunk(r)' => status[r] = "active" /\ ~InChunk(r)
  BY <1>1 DEF InChunk
<1> QED BY <1>1, <1>2, <1>3, RowsMove

\* A request that is taken for a prefill, the chunked one included, is in no row.
LEMMA PickPrefillMoves ==
  ASSUME ServingInv, ServingInv', NEW segs, NEW full \in BOOLEAN, PickPrefill(segs, full)
  PROVE  Moved
<1>1. /\ ntok' = ntok /\ content' = content /\ last' = last /\ pc = "pick" /\ cur' = segs
      /\ running' = [running EXCEPT !.full = full]
      /\ status' = [r \in Reqs |-> IF \E i \in DOMAIN segs : segs[i].req = r
                                   THEN "active" ELSE status[r]]
  BY DEF PickPrefill
<1>2. SameLists(running', running)
  BY <1>1, FullChanged DEF ServingInv
<1>3. /\ \A j \in 1..Len(running'.reqs) : Carried(running', j)
      /\ \A j \in 1..Len(last'.reqs) : Carried(last', j)
  BY <1>1, <1>2, ListsCarried
<1>4. last'.reqs = <<>>
  BY <1>1 DEF ServingInv, LoopInv
<1>5. \A i \in DOMAIN segs : ~InRow(running', segs[i].req)
  <2>1. CurOK'
    BY DEF ServingInv
  <2>2. DOMAIN segs = 1..Len(segs)
    BY <1>1, <2>1, LenProperties DEF CurOK, SegsOK
  <2> QED BY <1>1, <2>1, <2>2 DEF CurOK
<1> SUFFICES ASSUME NEW r \in Reqs PROVE Reference!Move(r, session[r], session'[r])
  BY DEF Moved
<1>6. ASSUME InRow(running', r) \/ InRow(last', r)
      PROVE  status'[r] = "active" => status[r] = "active" /\ ~InChunk(r)
  <2>1. InRow(running', r) /\ InRow(running, r)
    BY <1>2, <1>4, <1>6, EmptyList DEF InRow, SameLists
  <2>2. status'[r] = status[r]
    BY <1>1, <1>5, <2>1
  <2>3. ~InChunk(r)
    BY <2>1 DEF ServingInv, ChunkOK, InChunk
  <2> QED BY <2>2, <2>3
<1> QED BY <1>1, <1>3, <1>6, RowsMove

LEMMA PickDecodeMoves ==
  ASSUME ServingInv, ServingInv', NEW full, NEW kept, PickDecode(full, kept), RowsKept
  PROVE  Moved
<1>1. /\ ntok' = ntok /\ content' = content /\ last' = last /\ pc = "pick" /\ chunk = NoChunk
      /\ \A r \in Reqs : status'[r] = "active" => status[r] = "active"
  BY DEF PickDecode
<1>2. last'.reqs = <<>>
  BY <1>1 DEF ServingInv, LoopInv
<1>3. /\ \A j \in 1..Len(running'.reqs) : Carried(running', j)
      /\ \A j \in 1..Len(last'.reqs) : Carried(last', j)
  BY <1>2, EmptyList DEF RowsKept, Carried
<1> SUFFICES ASSUME NEW r \in Reqs PROVE Reference!Move(r, session[r], session'[r])
  BY DEF Moved
<1>4. status'[r] = "active" => status[r] = "active" /\ ~InChunk(r)
  BY <1>1 DEF InChunk
<1> QED BY <1>1, <1>3, <1>4, RowsMove

\* No sequence is longer than MaxTokens.
LEMMA TokensBounded ==
  ASSUME NEW r \in Reqs
  PROVE  MaxTokens \in Nat /\ PromptLen(r) + MaxNew <= MaxTokens
<1> DEFINE S == {PromptLen(q) + MaxNew : q \in Reqs}
           Top(n) == \A q \in Reqs : PromptLen(q) + MaxNew <= n
<1>1. MaxNew \in Nat /\ \A q \in Reqs : PromptLen(q) \in Nat
  BY ServingAssumption
<1>2. PICK q \in Reqs : \A x \in Reqs : PromptLen(x) <= PromptLen(q)
  BY ServingAssumption
<1>3. PromptLen(q) + MaxNew \in S /\ Top(PromptLen(q) + MaxNew)
  BY <1>1, <1>2
<1>4. MaxTokens \in S /\ Top(MaxTokens)
  <2>1. MaxTokens = CHOOSE n \in S : Top(n)
    BY DEF MaxTokens
  <2> HIDE DEF S, Top
  <2> QED BY <1>3, <2>1
<1>5. \A n \in S : n \in Nat
  BY <1>1
<1> QED BY <1>4, <1>5

\* A prefill starts the loops of the prompts that end in it, and no other.
LEMMA RunPrefillMoves ==
  ASSUME ServingInv, ServingInv', NEW stops, RunPrefill(stops), RowsPrefilled
  PROVE  Moved
<1>1. SessionOK /\ SessionOK'
  BY SessionRows, SessionRowsNext
<1>2. /\ pc = "prefill" /\ status' = Finished(stops) /\ running' = running /\ chunk' = chunk
      /\ Len(last'.reqs) = Len(cur)
  BY DEF RunPrefill, RowsPrefilled
<1>3. /\ DOMAIN running.reqs = 1..Len(running.reqs) /\ DOMAIN last'.reqs = 1..Len(cur)
      /\ last.reqs = <<>>
  <2>1. BatchOK(running) /\ BatchOK(last')
    BY DEF ServingInv
  <2> QED BY <1>2, <2>1, BatchTypes DEF BatchOK, ServingInv, LoopInv
<1> SUFFICES ASSUME NEW r \in Reqs PROVE Reference!Move(r, session[r], session'[r])
  BY DEF Moved
<1>4. status'[r] = "active" => status[r] = "active"
  BY <1>2 DEF Finished
<1>5. InChunk(r)' <=> InChunk(r)
  BY <1>2 DEF InChunk
<1>6. CASE status'[r] # "active" \/ InChunk(r) \/ (~InRow(running', r) /\ ~InRow(last', r))
  <2>1. session'[r] = Reference!Off
    BY <1>1, <1>5, <1>6 DEF SessionOK
  <2> QED BY <2>1, Ends
<1>7. CASE status'[r] = "active" /\ ~InChunk(r) /\ InRow(running', r)
  <2>1. PICK j \in 1..Len(running.reqs) : running.reqs[j] = r
    BY <1>2, <1>3, <1>7 DEF InRow
  <2>2. session[r] = RowState(running, j)
    BY <1>1, <1>4, <1>7, <2>1 DEF SessionOK
  <2>3. session'[r] = RowState(running, j)'
    BY <1>1, <1>2, <1>5, <1>7, <2>1 DEF SessionOK
  <2>4. RowState(running, j)' = RowState(running, j)
    BY DEF RowsPrefilled
  <2>5. session'[r] = session[r]
    BY <2>2, <2>3, <2>4
  <2> QED BY <2>5, Stays
<1>8. CASE status'[r] = "active" /\ ~InChunk(r) /\ InRow(last', r)
  <2>1. PICK i \in 1..Len(cur) : last'.reqs[i] = r
    BY <1>3, <1>8 DEF InRow
  <2>2. /\ cur[i].req = r /\ ntok[r] = cur[i].to /\ ntok'[r] = cur[i].to + 1
        /\ last'.position[i] = ExtendLen(i) + 1 /\ Cache(last, i)' = PrefilledCells(i)
    BY <1>8, <2>1 DEF RowsPrefilled
  <2>3. session'[r] = RowState(last, i)'
    BY <1>1, <1>2, <1>5, <1>8, <2>1 DEF SessionOK
  <2>4. RowState(last, i)' =
          [n |-> cur[i].to + 1, cache |-> PrefilledCells(i), position |-> ExtendLen(i) + 1]
    BY <2>1, <2>2 DEF RowState
  <2>5. session[r] = Reference!Off
    <3>1. ~InRow(running, r) /\ ~InRow(last, r)
      BY <1>3, <2>2, EmptyList DEF ServingInv, CurOK, InRow
    <3> QED BY <1>1, <3>1 DEF SessionOK
  <2> DEFINE from == cur[i].from
             to == cur[i].to
  <2>6. from \in Nat /\ to \in Nat /\ from < to
    BY CurFacts DEF ServingInv, CurOK, SegsOK
  <2>7. to \in 1..MaxTokens /\ from \in 0..(to - 1)
    <3>1. to <= PromptLen(r) + MaxNew /\ PromptLen(r) + MaxNew \in Nat
      BY <2>2, ServingAssumption DEF ServingInv, LoopInv
    <3>2. PromptLen(r) + MaxNew <= MaxTokens /\ MaxTokens \in Nat
      BY TokensBounded
    <3> HIDE DEF from, to
    <3> QED BY <2>6, <3>1, <3>2
  <2>8. session'[r] = Reference!Prefilled(r, from, to)
    BY <2>2, <2>3, <2>4, <2>6, PrefilledBlocks
  <2> HIDE DEF from, to
  <2> QED BY <2>5, <2>7, <2>8 DEF Reference!Move
<1> QED BY <1>6, <1>7, <1>8

\* A decode rejects or accepts in each row as the loop of its request would.
LEMMA RunDecodeMoves ==
  ASSUME ServingInv, ServingInv', NEW acc \in [DOMAIN running.reqs -> 0..MaxAccept], NEW stops,
         RunDecode(acc, stops), RowsRefreshed(acc)
  PROVE  Moved
<1>1. SessionOK /\ SessionOK'
  BY SessionRows, SessionRowsNext
<1>2. /\ pc = "decode" /\ status' = Finished(stops) /\ chunk' = chunk /\ last' = last
      /\ running'.reqs = running.reqs
  BY DEF RunDecode, RowsRefreshed
<1>3. /\ DOMAIN running.reqs = 1..Len(running.reqs) /\ last'.reqs = <<>>
  <2>1. BatchOK(running)
    BY DEF ServingInv
  <2> QED BY <1>2, <2>1, BatchTypes DEF BatchOK, ServingInv, LoopInv
<1> SUFFICES ASSUME NEW r \in Reqs PROVE Reference!Move(r, session[r], session'[r])
  BY DEF Moved
<1>4. status'[r] = "active" => status[r] = "active"
  BY <1>2 DEF Finished
<1>5. InChunk(r)' <=> InChunk(r)
  BY <1>2 DEF InChunk
<1>6. CASE status'[r] # "active" \/ InChunk(r) \/ (~InRow(running', r) /\ ~InRow(last', r))
  <2>1. session'[r] = Reference!Off
    BY <1>1, <1>5, <1>6 DEF SessionOK
  <2> QED BY <2>1, Ends
<1>7. CASE status'[r] = "active" /\ ~InChunk(r) /\ (InRow(running', r) \/ InRow(last', r))
  <2>1. PICK i \in 1..Len(running.reqs) : running.reqs[i] = r
    BY <1>2, <1>3, <1>7, EmptyList DEF InRow
  <2> DEFINE n == ntok[r]
             p == running.position[i]
             c == Cache(running, i)
             a == acc[i]
             s == [n |-> n, cache |-> c, position |-> p]
  <2>2. session[r] = s
    BY <1>1, <1>4, <1>7, <2>1 DEF SessionOK, RowState
  <2>3. session'[r] = [n |-> n + a + 1, cache |-> KeptCache(c, a) \o RefreshEntries(r, n, a, p),
                       position |-> RefreshedPosition(p, a)]
    <3>1. session'[r] = RowState(running, i)'
      BY <1>1, <1>2, <1>5, <1>7, <2>1 DEF SessionOK
    <3>2. /\ ntok'[r] = n + a + 1 /\ running'.position[i] = RefreshedPosition(p, a)
          /\ Cache(running, i)' = KeptCache(c, a) \o RefreshEntries(r, n, a, p)
      BY <2>1 DEF RowsRefreshed
    <3> QED BY <1>2, <2>1, <3>1, <3>2 DEF RowState
  <2>4. n \in Nat /\ n # 0 /\ p \in Nat /\ a \in 0..MaxAccept /\ a \in Nat /\ MaxAccept \in Nat
    <3>1. n \in Nat /\ n # 0
      BY ServingAssumption DEF ServingInv, LoopInv
    <3>2. p \in Nat
      <4>1. InStep(running) /\ running \in BatchType
        BY <1>2, DecodeRows
      <4>2. running.position \in Seq(Nat) /\ Len(running.position) = Len(running.reqs)
        BY <4>1, BatchTypes DEF InStep
      <4> QED BY <4>2, ElementOfSeq
    <3>3. a \in 0..MaxAccept /\ MaxAccept \in Nat
      BY <1>3, ServingAssumption
    <3> QED BY <3>1, <3>2, <3>3
  <2> HIDE DEF n, p, c, a
  <2>5. session[r] # Reference!Off
    <3>1. s.n = n /\ Reference!Off.n = 0
      BY DEF Reference!Off
    <3> QED BY <2>2, <2>4, <3>1
  <2>6. CASE a = 0
    <3>1. session'[r] = [n |-> n + 1, cache |-> SubSeq(c, 1, Len(c) - K) \o RefreshEntries(r, n, 0, p),
                         position |-> p]
      BY <2>3, <2>4, <2>6 DEF KeptCache, RefreshedPosition
    <3>2. session'[r] = Reference!Rejected(r, s)
      BY <2>4, <3>1, RejectedBlock DEF Reference!Rejected
    <3> QED BY <2>2, <2>5, <3>2 DEF Reference!Move
  <2>7. CASE a # 0
    <3>1. a \in 1..MaxAccept /\ a >= 1
      BY <2>4, <2>7
    <3>2. session'[r] = Lengthened(r, n, c, p, a)
      BY <2>3, <2>7 DEF KeptCache, Lengthened
    <3>3. Reference!Accepted(r, s, a) = Lengthened(r, n, c, p, a)
      <4>1. n \in Nat /\ p \in Nat /\ a \in Nat /\ a >= 1
        BY <2>4, <3>1
      <4>2. s.n = n /\ s.cache = c /\ s.position = p
        OBVIOUS
      <4> HIDE DEF s
      <4> QED BY <4>1, <4>2, AcceptedBlocks
    <3>4. session'[r] = Reference!Accepted(r, s, a)
      BY <3>2, <3>3
    <3> HIDE DEF s
    <3> QED BY <2>2, <2>5, <3>1, <3>4 DEF Reference!Move
  <2> QED BY <2>6, <2>7
<1> QED BY <1>6, <1>7

LEMMA StepMoves ==
  ASSUME ServingInv, ServingInv', [Next]_vars
  PROVE  Moved
<1>1. CASE (\E r \in Reqs : Recv(r) \/ AbortWaiting(r)) \/ Flush \/ PickIdle
  BY <1>1, ClientsMove
<1>2. CASE MergeLast
  BY <1>2, MergeLastInv, MergeLastMoves
<1>3. ASSUME NEW segs \in CanRunLists, NEW full \in BOOLEAN, PickPrefill(segs, full)
      PROVE  Moved
  BY <1>3, PickPrefillMoves
<1>4. ASSUME NEW full \in BOOLEAN, NEW kept \in Nat, PickDecode(full, kept)
      PROVE  Moved
  <2>1. RowsKept
    BY <1>4, PickDecodeInv
  <2> QED BY <1>4, <2>1, PickDecodeMoves
<1>5. ASSUME NEW stops \in SUBSET Reqs, RunPrefill(stops)
      PROVE  Moved
  <2>1. RowsPrefilled
    BY <1>5, RunPrefillInv
  <2> QED BY <1>5, <2>1, RunPrefillMoves
<1>6. ASSUME NEW acc \in [DOMAIN running.reqs -> 0..MaxAccept], NEW stops \in SUBSET Reqs,
             RunDecode(acc, stops)
      PROVE  Moved
  <2>1. RowsRefreshed(acc)
    BY <1>6, RunDecodeInv
  <2> QED BY <1>6, <2>1, RunDecodeMoves
<1>7. CASE UNCHANGED vars
  <2>1. session' = session
    BY <1>7 DEF vars, session, Session, InChunk, InRow
  <2> QED BY <2>1, Stays DEF Moved
<1> QED BY <1>1, <1>2, <1>3, <1>4, <1>5, <1>6, <1>7 DEF Next, Loop

\* Batched, paged, chunked and retracted, each request's draft cache goes through the
\* states of the single-request loop of the Hugging Face harness, for any number of
\* requests, any pool and any schedule: prefill, then a rejected or an accepted block
\* per decode, the same entries in the same order at the same positions.
THEOREM ReferenceImplemented == Spec => ImplementsReference
<1>1. Init => Reference!Init
  BY DEF Init, Reference!Init, Reference!Off, session
<1>2. ServingInv /\ ServingInv' /\ [Next]_vars => Reference!Next
  <2> SUFFICES ASSUME ServingInv, ServingInv', [Next]_vars PROVE Reference!Next
    OBVIOUS
  <2>1. DOMAIN session' = Reqs
    BY DEF session
  <2>2. Moved
    BY StepMoves
  <2> QED BY <2>1, <2>2 DEF Reference!Next, Moved
<1> QED BY <1>1, <1>2, ServingInvariant, PTL DEF Spec, ImplementsReference, Reference!Spec
=============================================================================
