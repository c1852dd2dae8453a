----------------------- MODULE SpecBlockOverlap_proofs -----------------------
(***************************************************************************)
(* Proofs about SpecBlockOverlap, for any number of requests, any prompts, *)
(* batch and chunk size, tree depth and place of the ring's pointer.       *)
(*                                                                         *)
(* The inductive invariant OverlapInv says where each request is at each   *)
(* point of the loop, what its results in flight still bring, and how far  *)
(* back in the ring its entry can be: the entries that can be stored       *)
(* before the running batch decodes again are bounded by the rows that can *)
(* still be admitted, each with at most MaxChunks + 1 segments, and by the *)
(* segments memory may still cut short.                                    *)
(***************************************************************************)
EXTENDS SpecBlockOverlap, RowLists_proofs

EntryType == [req : Reqs, len : Nat]
BatchType ==
  [reqs : Seq(Reqs), lens : Seq(Nat \cup {Unknown}), futures : Seq(Nat), rows : Seq(EntryType),
   full : BOOLEAN]

\* The lists of a batch with requests are in step, and no request is in two rows.
InStep(b) ==
  /\ Len(b.lens) = Len(b.reqs) /\ Len(b.futures) = Len(b.reqs) /\ Len(b.rows) = Len(b.reqs)
  /\ Unique(b.reqs)
BatchOK(b) == b \in BatchType /\ (b.reqs # <<>> => InStep(b))

\* The prefill batch that is not merged yet.
Unmerged == IF pc \in {"drain", "recv"} THEN last.batch ELSE EmptyBatch

\* Where the host is, and how many results wait.
LoopInv ==
  /\ pc \in {"recv", "pick", "launch", "drain"}
  /\ tail \in BOOLEAN
  /\ last \in [kind : {"none", "extend", "decode"}, batch : BatchType]
  /\ last.kind # "extend" => last.batch = EmptyBatch
  /\ cur.kind \in {"none", "extend", "decode"} /\ cur = [kind |-> cur.kind, segs |-> cur.segs]
  /\ cur.kind = "extend" <=> cur.segs # <<>>
  /\ pc # "launch" => cur = NoSegs
  /\ pc = "launch" => (cur.kind = "none" <=> running.reqs = <<>> /\ cur.segs = <<>>)
  /\ BatchOK(running) /\ BatchOK(last.batch)
  /\ Len(results) <= 2
  /\ pc \in {"recv", "pick"} => (Len(results) = IF last.kind = "none" THEN 0 ELSE 1)
  /\ pc = "launch" => Len(results) <= (IF last.kind = "none" THEN 0 ELSE 1)
  /\ pc = "drain" => (IF last.kind = "none" THEN Len(results) <= 1 ELSE Len(results) >= 1)

\* The results: tokens for every row, one for a prefill.
TokensType == [first : Nat, n : Nat]
ResultType == [kind : {"extend", "decode"}, reqs : Seq(Reqs), rows : Seq(TokensType)]
ResultOK(res) ==
  /\ Len(res.rows) = Len(res.reqs) /\ Unique(res.reqs)
  /\ \A i \in 1..Len(res.reqs) : /\ 1 <= res.rows[i].n /\ res.rows[i].n <= MaxAccept + 1
                                 /\ res.kind = "extend" => res.rows[i].n = 1
ResultsInv ==
  /\ results \in Seq(ResultType)
  /\ \A k \in 1..Len(results) : ResultOK(results[k])

\* The requests.
ReqInv ==
  /\ status \in [Reqs -> {"new", "waiting", "retracted", "active", "finished"}]
  /\ out \in [Reqs -> Seq(Nat)]
  /\ committed \in [Reqs -> Int] /\ allocated \in [Reqs -> Int] /\ pending \in [Reqs -> Int]
  /\ freed \in [Reqs -> BOOLEAN] /\ dev \in [Reqs -> Nat]
  /\ \A r \in Reqs : \A k \in 1..Len(out[r]) : out[r][k] = PromptLen(r) + k
  /\ \A r \in Reqs : status[r] # "finished" => Len(out[r]) < MaxNew
  /\ \A r \in Reqs : status[r] # "active" => pending[r] = 0
  /\ \A r \in Reqs : freed[r] => status[r] = "finished"
  /\ raised = FALSE

\* Where the requests are.
InRows(b, r) == r \in Elements(b.reqs)
InSegs(r) == \E i \in 1..Len(cur.segs) : cur.segs[i].req = r
SegOK(s) ==
  /\ s \in [req : Reqs, from : Nat, to : Nat \ {0}]
  /\ status[s.req] = "active" /\ ~InRows(running, s.req)
  /\ s.to <= Context(s.req) /\ committed[s.req] = s.to
  /\ s.to < Context(s.req) <=> InChunk(s.req)
PlaceInv ==
  /\ \A r \in Elements(running.reqs) : status[r] \in {"active", "finished"}
  /\ \A r \in Elements(Unmerged.reqs) : status[r] = "active" /\ ~InRows(running, r)
  /\ cur.segs \in Seq([req : Reqs, from : Nat, to : Nat \ {0}])
  /\ \A i \in 1..Len(cur.segs) : SegOK(cur.segs[i])
  /\ \A i, j \in 1..Len(cur.segs) : cur.segs[i].req = cur.segs[j].req => i = j
  /\ chunk # NoChunk =>
       /\ chunk \in [req : Reqs, filled : Nat \ {0}]
       /\ status[chunk.req] = "active" /\ ~InRows(running, chunk.req)
       /\ chunk.filled < Context(chunk.req)
       /\ pc \in {"drain", "recv"} => InRows(last.batch, chunk.req)
       /\ pc = "launch" => InSegs(chunk.req)
       /\ \A i \in 1..Len(cur.segs) : cur.segs[i].req = chunk.req => cur.segs[i].to = chunk.filled
  /\ \A r \in Reqs : status[r] = "active" =>
       InRows(running, r) \/ InRows(Unmerged, r) \/ InSegs(r) \/ InChunk(r)

\* Result k has a row for r; it is the result of a segment that does not end the
\* prompt; the tokens r will get from it.
Holds(k, r) == k \in 1..Len(results) /\ r \in Elements(results[k].reqs)
RowIn(k, r) == results[k].rows[RowOf(results[k].reqs, r)]
Short(k, r) == Holds(k, r) /\ results[k].kind = "extend" /\ RowIn(k, r).first <= Context(r)
Full(k, r) == Holds(k, r) /\ ~Short(k, r)
Gain(k, r) == IF Full(k, r) THEN RowIn(k, r).n ELSE 0
Bit(b) == IF b THEN 1 ELSE 0

\* Rows that go on to decode, and requests that are still being prefilled.
Decoding(r) == InRows(running, r) \/ (InRows(Unmerged, r) /\ ~InChunk(r))
Prefilling(r) == InSegs(r) \/ InChunk(r)

\* A result may name a request that was retracted while it was in flight; it is
\* handled before that request can be admitted again.
HeldOK(k, r) ==
  \/ status[r] \in {"active", "finished"}
  \/ status[r] = "retracted" /\ k = 1 /\ (pc = "launch" \/ (pc = "drain" /\ Behind))

\* is_chunked counts the results to skip, and they come first.
PendingOK(r) ==
  /\ pending[r] = Bit(Short(1, r)) + Bit(Short(2, r)) + Bit(pc = "launch" /\ InChunk(r))
  /\ Short(2, r) /\ Holds(1, r) => Short(1, r)
  /\ Prefilling(r) => \A k \in {1, 2} : Holds(k, r) => Short(k, r)

\* What the host has and what is in flight add up to what the device has, and the
\* results bring the tokens in order.
CountOK(r) ==
  /\ Context(r) + Gain(1, r) + Gain(2, r) = dev[r] + 1
  /\ Full(1, r) => RowIn(1, r).first = Context(r) + 1
  /\ Full(2, r) => RowIn(2, r).first = Context(r) + Gain(1, r) + 1
  /\ committed[r] + InFlight(r) = dev[r]

\* A request that was just prefilled gets nothing from the result before.
FreshOK ==
  pc = "drain" /\ Len(results) = 2 =>
    \A r \in Elements(last.batch.reqs) : Holds(1, r) => Short(1, r)

TokenInv ==
  /\ \A r \in Reqs, k \in {1, 2} : Holds(k, r) => HeldOK(k, r)
  /\ FreshOK
  /\ \A r \in Reqs : status[r] = "active" =>
       PendingOK(r) /\ (Decoding(r) => CountOK(r))

\* Row i of b finds its own and newest entry.
RowOK(b, i) ==
  /\ b.futures[i] \in 1..FutureBufferLen
  /\ ring[b.futures[i]] = Entry(b.reqs[i], dev[b.reqs[i]])
  /\ b.rows[i] = Entry(b.reqs[i], dev[b.reqs[i]])
RowsInv ==
  /\ DOMAIN ring = 1..FutureBufferLen
  /\ \A i \in 1..Len(running.reqs) : RowOK(running, i)
  /\ \A i \in 1..Len(Unmerged.reqs) : RowOK(Unmerged, i)

\* Entry k of the ring was stored e entries ago.
Ago(k, e) == \E q \in 0..2 : future_ct + q * FutureLimit = k + e

\* Rows that are running or will be without another admission; entries of the
\* batch about to be launched; j more segments of the chunked request, and m with
\* those that memory may cut short.
Taken ==
  Len(running.reqs) + Len(Unmerged.reqs) + Len(cur.segs) + Bit(pc = "pick" /\ chunk # NoChunk)
Needs(j) == IF chunk = NoChunk THEN j = 0 ELSE Context(chunk.req) <= chunk.filled + j * ChunkSize
Rounds(m) == \E j \in 0..MaxChunks : Needs(j) /\ m = j + (MaxCuts - cuts)
Spare(m) == FutureLimit - 1 - (Len(cur.segs) + (MaxRunning - Taken) * (MaxChunks + 1) + m)
Reach(b, m) == \A i \in 1..Len(b.reqs) : \E e \in 0..Spare(m) : Ago(b.futures[i], e)
RingInv ==
  /\ future_ct \in 0..(FutureLimit - 1)
  /\ Taken <= MaxRunning
  /\ cuts \in 0..MaxCuts
  /\ cur.kind # "decode" =>
       \E m \in 0..(MaxChunks + MaxCuts) : Rounds(m) /\ Reach(running, m) /\ Reach(Unmerged, m)

\* What the next verify pass writes is allocated.
PassInv ==
  cur.kind = "decode" =>
    \A r \in Elements(running.reqs) : status[r] = "active" => dev[r] + DraftTokens <= allocated[r]

OverlapInv ==
  /\ LoopInv /\ ResultsInv /\ ReqInv /\ PlaceInv /\ TokenInv /\ RowsInv /\ RingInv /\ PassInv

-----------------------------------------------------------------------------
(* Lists and rows. *)

\* The row of a request in a list that names it once.
LEMMA RowOfFacts ==
  ASSUME NEW S, NEW s \in Seq(S), Unique(s)
  PROVE  /\ \A r \in Elements(s) : RowOf(s, r) \in 1..Len(s) /\ s[RowOf(s, r)] = r
         /\ \A i \in 1..Len(s) : s[i] \in Elements(s) /\ RowOf(s, s[i]) = i
<1>1. DOMAIN s = 1..Len(s) /\ Len(s) \in Nat
  BY LenProperties
<1>2. ASSUME NEW r \in Elements(s) PROVE RowOf(s, r) \in 1..Len(s) /\ s[RowOf(s, r)] = r
  <2>1. \E i \in DOMAIN s : s[i] = r
    BY DEF Elements
  <2>2. RowOf(s, r) \in DOMAIN s /\ s[RowOf(s, r)] = r
    BY <2>1 DEF RowOf
  <2> QED BY <1>1, <2>2
<1>3. ASSUME NEW i \in 1..Len(s) PROVE s[i] \in Elements(s) /\ RowOf(s, s[i]) = i
  <2>1. s[i] \in Elements(s)
    BY <1>1 DEF Elements
  <2>2. RowOf(s, s[i]) \in 1..Len(s) /\ s[RowOf(s, s[i])] = s[i]
    BY <1>2, <2>1
  <2> QED BY <2>1, <2>2 DEF Unique
<1> QED BY <1>2, <1>3

\* Row j of c is row k of b.
SameRow(c, j, b, k) ==
  /\ c.reqs[j] = b.reqs[k] /\ c.lens[j] = b.lens[k]
  /\ c.futures[j] = b.futures[k] /\ c.rows[j] = b.rows[k]

\* The types of a batch's lists.
LEMMA BatchTypes ==
  ASSUME NEW b \in BatchType
  PROVE  /\ b.reqs \in Seq(Reqs) /\ b.lens \in Seq(Nat \cup {Unknown}) /\ b.futures \in Seq(Nat)
         /\ b.rows \in Seq(EntryType) /\ b.full \in BOOLEAN
         /\ Len(b.reqs) \in Nat /\ DOMAIN b.reqs = 1..Len(b.reqs)
         /\ \A i \in 1..Len(b.reqs) : b.reqs[i] \in Reqs /\ b.reqs[i] \in Elements(b.reqs)
         /\ \A r \in Elements(b.reqs) : r \in Reqs /\ \E i \in 1..Len(b.reqs) : b.reqs[i] = r
         /\ b.reqs # <<>> <=> Len(b.reqs) # 0
         /\ b = [reqs |-> b.reqs, lens |-> b.lens, futures |-> b.futures, rows |-> b.rows,
                 full |-> b.full]
<1>1. /\ b.reqs \in Seq(Reqs) /\ b.lens \in Seq(Nat \cup {Unknown}) /\ b.futures \in Seq(Nat)
      /\ b.rows \in Seq(EntryType) /\ b.full \in BOOLEAN
      /\ b = [reqs |-> b.reqs, lens |-> b.lens, futures |-> b.futures, rows |-> b.rows,
              full |-> b.full]
  BY DEF BatchType
<1>2. Len(b.reqs) \in Nat /\ DOMAIN b.reqs = 1..Len(b.reqs)
  BY <1>1, LenProperties
<1>3. \A i \in 1..Len(b.reqs) : b.reqs[i] \in Reqs /\ b.reqs[i] \in Elements(b.reqs)
  BY <1>1, <1>2, ElementOfSeq DEF Elements
<1>4. \A r \in Elements(b.reqs) : r \in Reqs /\ \E i \in 1..Len(b.reqs) : b.reqs[i] = r
  BY <1>2, <1>3 DEF Elements
<1>5. b.reqs # <<>> <=> Len(b.reqs) # 0
  BY <1>1, EmptySeq
<1> QED BY <1>1, <1>2, <1>3, <1>4, <1>5

\* A batch filtered down to the rows in keep.
FilterDone(b, keep, c) ==
  /\ BatchOK(c) /\ Len(c.reqs) = Len(keep)
  /\ \A j \in 1..Len(c.reqs) : \E k \in Elements(keep) : SameRow(c, j, b, k)
  /\ \A k \in Elements(keep) : \E j \in 1..Len(c.reqs) : SameRow(c, j, b, k)

LEMMA FilterFacts ==
  ASSUME NEW b, BatchOK(b), NEW keep, KeepOK(keep, Len(b.reqs))
  PROVE  FilterDone(b, keep, Filtered(b, keep))
<1> DEFINE c == Filtered(b, keep)
           n == Len(b.reqs)
<1>1. /\ b.reqs \in Seq(Reqs) /\ b.lens \in Seq(Nat \cup {Unknown}) /\ b.futures \in Seq(Nat)
      /\ b.rows \in Seq(EntryType) /\ b.full \in BOOLEAN /\ n \in Nat /\ b \in BatchType
      /\ b.reqs # <<>> <=> n # 0
  BY BatchTypes DEF BatchOK
<1>2. /\ keep \in Seq(1..n) /\ Len(keep) \in Nat /\ DOMAIN keep = 1..Len(keep) /\ Unique(keep)
      /\ \A j \in 1..Len(keep) : keep[j] \in 1..n /\ keep[j] \in Elements(keep)
      /\ \A k \in Elements(keep) : k \in 1..n /\ \E j \in 1..Len(keep) : keep[j] = k
  <2>1. keep \in Seq(1..n) /\ Unique(keep)
    BY DEF KeepOK
  <2>2. Len(keep) \in Nat /\ DOMAIN keep = 1..Len(keep)
    BY <2>1, LenProperties
  <2>3. \A j \in 1..Len(keep) : keep[j] \in 1..n
    BY <2>1, ElementOfSeq
  <2> QED BY <2>1, <2>2, <2>3 DEF Elements
<1>3. CASE Len(keep) = 0
  <2>1. c = [b EXCEPT !.reqs = <<>>]
    BY <1>3 DEF Filtered
  <2>2. c \in BatchType /\ c.reqs = <<>>
    <3>1. c = [reqs |-> <<>>, lens |-> b.lens, futures |-> b.futures, rows |-> b.rows,
               full |-> b.full]
      BY <1>1, <2>1 DEF BatchType
    <3>2. <<>> \in Seq(Reqs)
      BY EmptySeq
    <3> QED BY <1>1, <3>1, <3>2 DEF BatchType
  <2>3. Len(c.reqs) = 0 /\ Elements(keep) = {}
    BY <1>2, <1>3, <2>2
  <2> HIDE DEF c
  <2> QED BY <1>3, <2>2, <2>3 DEF FilterDone, BatchOK, c
<1>4. CASE Len(keep) # 0 /\ Len(keep) = n
  <2>1. c = b
    BY <1>4 DEF Filtered
  <2>2. Elements(keep) = 1..n
    BY <1>1, <1>4, KeepsAll
  <2>3. \A j \in 1..n : SameRow(b, j, b, j)
    BY DEF SameRow
  <2> HIDE DEF c, n
  <2> QED BY <1>4, <2>1, <2>2, <2>3 DEF FilterDone, c, n
<1>5. CASE Len(keep) # 0 /\ Len(keep) # n
  <2>0. n # 0 /\ InStep(b)
    <3>1. 1 \in 1..Len(keep)
      BY <1>2, <1>5
    <3>2. keep[1] \in 1..n
      BY <1>2, <3>1
    <3> QED BY <1>1, <3>2 DEF BatchOK
  <2>1. c = [reqs |-> Gather(b.reqs, keep), lens |-> Gather(b.lens, keep),
             futures |-> Gather(b.futures, keep), rows |-> Gather(b.rows, keep), full |-> b.full]
    <3>1. c = KeptRows(b, keep)
      BY <1>5 DEF Filtered
    <3> QED BY <1>1, <3>1 DEF KeptRows, BatchType
  <2>2. KeepOK(keep, Len(b.lens)) /\ KeepOK(keep, Len(b.futures)) /\ KeepOK(keep, Len(b.rows))
    BY <2>0 DEF InStep
  <2>3. Gathers(Reqs, b.reqs, keep, Gather(b.reqs, keep))
    BY <1>1, GatherFacts
  <2>4. Gathers(Nat \cup {Unknown}, b.lens, keep, Gather(b.lens, keep))
    BY <1>1, <2>2, GatherFacts
  <2>5. Gathers(Nat, b.futures, keep, Gather(b.futures, keep))
    BY <1>1, <2>2, GatherFacts
  <2>6. Gathers(EntryType, b.rows, keep, Gather(b.rows, keep))
    BY <1>1, <2>2, GatherFacts
  <2>7. /\ c.reqs = Gather(b.reqs, keep) /\ c.lens = Gather(b.lens, keep)
        /\ c.futures = Gather(b.futures, keep) /\ c.rows = Gather(b.rows, keep)
        /\ c.full = b.full
    BY <2>1
  <2>8. c \in BatchType
    BY <1>1, <2>1, <2>3, <2>4, <2>5, <2>6 DEF BatchType, Gathers
  <2> HIDE DEF c
  <2>9. \A j \in 1..Len(keep) : SameRow(c, j, b, keep[j])
    BY <2>3, <2>4, <2>5, <2>6, <2>7 DEF SameRow, Gathers
  <2>10. /\ Len(c.reqs) = Len(keep) /\ Len(c.lens) = Len(keep) /\ Len(c.futures) = Len(keep)
         /\ Len(c.rows) = Len(keep)
    BY <2>3, <2>4, <2>5, <2>6, <2>7 DEF Gathers
  <2>11. Unique(c.reqs)
    <3> SUFFICES ASSUME NEW i \in 1..Len(keep), NEW j \in 1..Len(keep), c.reqs[i] = c.reqs[j]
                 PROVE  i = j
      BY <2>10 DEF Unique
    <3>1. b.reqs[keep[i]] = b.reqs[keep[j]] /\ keep[i] \in 1..n /\ keep[j] \in 1..n
      BY <1>2, <2>9 DEF SameRow
    <3>2. keep[i] = keep[j]
      BY <2>0, <3>1 DEF InStep, Unique
    <3> QED BY <1>2, <3>2 DEF Unique
  <2>12. BatchOK(c)
    BY <2>8, <2>10, <2>11 DEF BatchOK, InStep
  <2> QED BY <1>2, <2>9, <2>10, <2>12 DEF FilterDone, c
<1> QED BY <1>2, <1>3, <1>4, <1>5

\* b joined by c.
MergeDone(b, c, d) ==
  /\ BatchOK(d) /\ Len(d.reqs) = Len(b.reqs) + Len(c.reqs)
  /\ \A j \in 1..Len(d.reqs) : \/ \E k \in 1..Len(b.reqs) : SameRow(d, j, b, k)
                               \/ \E k \in 1..Len(c.reqs) : SameRow(d, j, c, k)
  /\ \A k \in 1..Len(b.reqs) : \E j \in 1..Len(d.reqs) : SameRow(d, j, b, k)
  /\ \A k \in 1..Len(c.reqs) : \E j \in 1..Len(d.reqs) : SameRow(d, j, c, k)

LEMMA MergeFacts ==
  ASSUME NEW b, NEW c, BatchOK(b), BatchOK(c), b.reqs # <<>>, c.reqs # <<>>,
         \A i \in 1..Len(b.reqs) : \A j \in 1..Len(c.reqs) : b.reqs[i] # c.reqs[j]
  PROVE  MergeDone(b, c, Merged(b, c))
<1> DEFINE d == Merged(b, c)
           n == Len(b.reqs)
           m == Len(c.reqs)
<1>1. b \in BatchType /\ c \in BatchType /\ InStep(b) /\ InStep(c)
  BY DEF BatchOK
<1>2. /\ b.reqs \in Seq(Reqs) /\ b.lens \in Seq(Nat \cup {Unknown}) /\ b.futures \in Seq(Nat)
      /\ b.rows \in Seq(EntryType) /\ b.full \in BOOLEAN /\ n \in Nat
      /\ b = [reqs |-> b.reqs, lens |-> b.lens, futures |-> b.futures, rows |-> b.rows,
              full |-> b.full]
  BY <1>1, BatchTypes
<1>3. /\ c.reqs \in Seq(Reqs) /\ c.lens \in Seq(Nat \cup {Unknown}) /\ c.futures \in Seq(Nat)
      /\ c.rows \in Seq(EntryType) /\ m \in Nat
  BY <1>1, BatchTypes
<1> DEFINE Fields == {"reqs", "lens", "futures", "rows", "full"}
           reqs == b.reqs \o c.reqs
           lens == b.lens \o c.lens
           futures == b.futures \o c.futures
           rows == b.rows \o c.rows
<1>4. d = [b EXCEPT !.reqs = reqs, !.lens = lens, !.futures = futures, !.rows = rows]
  BY DEF Merged
<1>5. /\ d.reqs = reqs /\ d.lens = lens /\ d.futures = futures /\ d.rows = rows
      /\ d.full = b.full
      /\ d = [reqs |-> d.reqs, lens |-> d.lens, futures |-> d.futures, rows |-> d.rows,
              full |-> d.full]
  <2>1. b = [x \in Fields |-> b[x]]
    BY <1>1 DEF BatchType
  <2> HIDE DEF d, reqs, lens, futures, rows
  <2>2. d = [x \in Fields |-> d[x]]
    BY <1>4, <2>1
  <2> QED BY <1>4, <2>1, <2>2
<1>6. /\ Len(b.lens) = n /\ Len(b.futures) = n /\ Len(b.rows) = n
      /\ Len(c.lens) = m /\ Len(c.futures) = m /\ Len(c.rows) = m
  BY <1>1 DEF InStep
<1> HIDE DEF d
<1>7. Joined(Reqs, b.reqs, c.reqs, d.reqs)
  BY <1>2, <1>3, <1>5, ConcatJoins
<1>8. Joined(Nat \cup {Unknown}, b.lens, c.lens, d.lens)
  BY <1>2, <1>3, <1>5, ConcatJoins
<1>9. Joined(Nat, b.futures, c.futures, d.futures)
  BY <1>2, <1>3, <1>5, ConcatJoins
<1>10. Joined(EntryType, b.rows, c.rows, d.rows)
  BY <1>2, <1>3, <1>5, ConcatJoins
<1>11. d \in BatchType
  <2>1. /\ d.reqs \in Seq(Reqs) /\ d.lens \in Seq(Nat \cup {Unknown}) /\ d.futures \in Seq(Nat)
        /\ d.rows \in Seq(EntryType) /\ d.full \in BOOLEAN
    BY <1>2, <1>5, <1>7, <1>8, <1>9, <1>10 DEF Joined
  <2> QED BY <1>5, <2>1 DEF BatchType
<1>12. Len(d.reqs) = n + m /\ Len(d.lens) = n + m /\ Len(d.futures) = n + m /\ Len(d.rows) = n + m
  BY <1>6, <1>7, <1>8, <1>9, <1>10 DEF Joined
<1>13. \A j \in 1..n : SameRow(d, j, b, j)
  BY <1>6, <1>7, <1>8, <1>9, <1>10 DEF Joined, SameRow
<1>14. \A j \in 1..m : SameRow(d, n + j, c, j)
  BY <1>6, <1>7, <1>8, <1>9, <1>10 DEF Joined, SameRow
<1>15. \A j \in 1..(n + m) : j \in 1..n \/ (\E k \in 1..m : j = n + k)
  <2> HIDE DEF n, m
  <2> SUFFICES ASSUME NEW j \in 1..(n + m), j \notin 1..n PROVE \E k \in 1..m : j = n + k
    OBVIOUS
  <2>1. j - n \in 1..m /\ j = n + (j - n)
    BY <1>2, <1>3, SMTT(30)
  <2> QED BY <2>1
<1>16. /\ \A j \in 1..n : j \in 1..(n + m)
       /\ \A j \in 1..m : n + j \in 1..(n + m)
  <2> HIDE DEF n, m
  <2> QED BY <1>2, <1>3
<1>17. Unique(d.reqs)
  <2> SUFFICES ASSUME NEW i \in 1..(n + m), NEW j \in 1..(n + m), d.reqs[i] = d.reqs[j]
               PROVE  i = j
    BY <1>12 DEF Unique
  <2>1. \A k \in 1..n : d.reqs[k] = b.reqs[k]
    BY <1>13 DEF SameRow
  <2>2. \A k \in 1..m : d.reqs[n + k] = c.reqs[k]
    BY <1>14 DEF SameRow
  <2>3. CASE i \in 1..n /\ j \in 1..n
    BY <1>1, <2>1, <2>3 DEF InStep, Unique
  <2>4. CASE i \in 1..n /\ j \notin 1..n
    <3>1. PICK k \in 1..m : j = n + k
      BY <1>15, <2>4
    <3> QED BY <2>1, <2>2, <2>4, <3>1
  <2>5. CASE i \notin 1..n /\ j \in 1..n
    <3>1. PICK k \in 1..m : i = n + k
      BY <1>15, <2>5
    <3> QED BY <2>1, <2>2, <2>5, <3>1
  <2>6. CASE i \notin 1..n /\ j \notin 1..n
    <3>1. PICK k \in 1..m : i = n + k
      BY <1>15, <2>6
    <3>2. PICK l \in 1..m : j = n + l
      BY <1>15, <2>6
    <3>3. k = l
      BY <1>1, <2>2, <3>1, <3>2 DEF InStep, Unique
    <3> QED BY <3>1, <3>2, <3>3
  <2> QED BY <2>3, <2>4, <2>5, <2>6
<1>18. BatchOK(d)
  BY <1>11, <1>12, <1>17 DEF BatchOK, InStep
<1>19. ASSUME NEW j \in 1..(n + m)
       PROVE  \/ \E k \in 1..n : SameRow(d, j, b, k)
              \/ \E k \in 1..m : SameRow(d, j, c, k)
  BY <1>13, <1>14, <1>15
<1> HIDE DEF n, m
<1> QED BY <1>12, <1>13, <1>14, <1>16, <1>18, <1>19 DEF MergeDone, d, n, m

\* A batch whose lengths were read, and one whose batch_is_full was set.
LEMMA LensRead ==
  ASSUME NEW b, BatchOK(b), NEW c, c = [b EXCEPT !.lens = ReadLens(@)]
  PROVE  /\ BatchOK(c) /\ c.reqs = b.reqs /\ c.futures = b.futures /\ c.rows = b.rows
         /\ c.full = b.full /\ c.lens = ReadLens(b.lens) /\ Len(c.lens) = Len(b.lens)
<1>1. /\ b.reqs \in Seq(Reqs) /\ b.lens \in Seq(Nat \cup {Unknown}) /\ b.futures \in Seq(Nat)
      /\ b.rows \in Seq(EntryType) /\ b.full \in BOOLEAN
      /\ b = [reqs |-> b.reqs, lens |-> b.lens, futures |-> b.futures, rows |-> b.rows,
              full |-> b.full]
  BY BatchTypes DEF BatchOK
<1>2. ReadLens(b.lens) \in Seq(Nat \cup {Unknown}) /\ Len(ReadLens(b.lens)) = Len(b.lens)
  <2>1. Len(b.lens) \in Nat /\ DOMAIN b.lens = 1..Len(b.lens)
    BY <1>1, LenProperties
  <2>2. [i \in DOMAIN b.lens |-> Unknown] \in [1..Len(b.lens) -> Nat \cup {Unknown}]
    BY <2>1
  <2>3. /\ [i \in DOMAIN b.lens |-> Unknown] \in Seq(Nat \cup {Unknown})
        /\ Len([i \in DOMAIN b.lens |-> Unknown]) = Len(b.lens)
    BY <2>1, <2>2, ListOf
  <2> QED BY <1>1, <2>3 DEF ReadLens
<1>3. c = [reqs |-> b.reqs, lens |-> ReadLens(b.lens), futures |-> b.futures, rows |-> b.rows,
           full |-> b.full]
  BY <1>1
<1>4. c.reqs = b.reqs /\ c.futures = b.futures /\ c.rows = b.rows /\ c.full = b.full
      /\ c.lens = ReadLens(b.lens)
  BY <1>3
<1>5. c \in BatchType
  BY <1>1, <1>2, <1>3 DEF BatchType
<1> QED BY <1>2, <1>4, <1>5 DEF BatchOK, InStep

LEMMA FullSet ==
  ASSUME NEW b, BatchOK(b), NEW full \in BOOLEAN, NEW c, c = [b EXCEPT !.full = full]
  PROVE  /\ BatchOK(c) /\ c.reqs = b.reqs /\ c.futures = b.futures /\ c.rows = b.rows
         /\ c.full = full /\ c.lens = b.lens
<1>1. /\ b.reqs \in Seq(Reqs) /\ b.lens \in Seq(Nat \cup {Unknown}) /\ b.futures \in Seq(Nat)
      /\ b.rows \in Seq(EntryType) /\ b.full \in BOOLEAN
      /\ b = [reqs |-> b.reqs, lens |-> b.lens, futures |-> b.futures, rows |-> b.rows,
              full |-> b.full]
  BY BatchTypes DEF BatchOK
<1>2. c = [reqs |-> b.reqs, lens |-> b.lens, futures |-> b.futures, rows |-> b.rows,
           full |-> full]
  BY <1>1
<1>3. c.reqs = b.reqs /\ c.futures = b.futures /\ c.rows = b.rows /\ c.full = full
      /\ c.lens = b.lens
  BY <1>2
<1>4. c \in BatchType
  BY <1>1, <1>2 DEF BatchType
<1> QED BY <1>3, <1>4 DEF BatchOK, InStep

LEMMA EmptyBatchFacts ==
  /\ EmptyBatch \in BatchType /\ BatchOK(EmptyBatch)
  /\ EmptyBatch.reqs = <<>> /\ Len(EmptyBatch.reqs) = 0 /\ Elements(EmptyBatch.reqs) = {}
<1>1. /\ <<>> \in Seq(Reqs) /\ <<>> \in Seq(Nat \cup {Unknown}) /\ <<>> \in Seq(Nat)
      /\ <<>> \in Seq(EntryType)
  BY EmptySeq
<1>2. EmptyBatch \in BatchType
  BY <1>1 DEF EmptyBatch, BatchType
<1>3. EmptyBatch.reqs = <<>>
  BY DEF EmptyBatch
<1> QED BY <1>2, <1>3 DEF BatchOK, Elements

-----------------------------------------------------------------------------
(* The size of the ring. *)

LEMMA ChunksFacts ==
  MaxChunks \in Nat /\ MaxChunks >= 1 /\ ContextLen <= MaxChunks * ChunkSize
<1> DEFINE a == ContextLen + ChunkSize - 1
           q == a \div ChunkSize
           r == a % ChunkSize
<1>1. ContextLen \in Nat /\ ContextLen >= 1 /\ ChunkSize \in Nat /\ ChunkSize >= 1
  BY OverlapAssumption
<1>2. a \in Nat /\ a >= ChunkSize
  BY <1>1
<1>3. q \in Int /\ r \in 0..(ChunkSize - 1) /\ a = ChunkSize * q + r
  <2> HIDE DEF a
  <2> QED BY <1>1, <1>2
<1> HIDE DEF a, q, r
<1>4. q >= 1
  <2>1. CASE q >= 1
    BY <2>1
  <2>2. CASE q <= 0
    <3>1. ChunkSize * q <= 0
      BY <1>1, <1>3, <2>2
    <3>2. \A x \in Int : x <= 0 /\ a = x + r => FALSE
      BY <1>1, <1>2, <1>3
    <3> QED BY <1>1, <1>3, <3>1, <3>2
  <2> QED BY <1>3, <2>1, <2>2
<1>5. ContextLen <= q * ChunkSize
  <2>1. ChunkSize * q = q * ChunkSize /\ ChunkSize * q \in Int
    BY <1>1, <1>3
  <2>2. \A x \in Int : a = x + r => ContextLen <= x
    BY <1>1, <1>3 DEF a
  <2> QED BY <1>3, <2>1, <2>2
<1> QED BY <1>3, <1>4, <1>5 DEF MaxChunks, q, a

\* FutureLimit is the room of MaxRunning rows with MaxChunks + 1 entries each, and of
\* two more entries per row.
LEMMA RingFacts ==
  /\ MaxRunning \in Nat /\ MaxRunning >= 1
  /\ FutureLimit \in Nat /\ FutureLimit = MaxRunning * (MaxChunks + 1) + 2 * MaxRunning
  /\ FutureLimit >= 4 * MaxRunning
  /\ FutureBufferLen = FutureLimit + 2 * MaxRunning
  /\ MaxCuts \in Nat /\ MaxCuts \in 0..(2 * MaxRunning - 1)
<1>1. MaxRunning \in Nat /\ MaxRunning >= 1 /\ MaxChunks \in Nat /\ MaxChunks >= 1
  BY OverlapAssumption, ChunksFacts
<1>2. MaxRunning * (3 + MaxChunks) = MaxRunning * (MaxChunks + 1) + 2 * MaxRunning
  BY <1>1
<1>3. MaxRunning * (3 + MaxChunks) >= 4 * MaxRunning /\ MaxRunning * (3 + MaxChunks) \in Nat
  BY <1>1
<1>4. MaxCuts \in Nat /\ MaxCuts \in 0..(2 * MaxRunning - 1)
  BY OverlapAssumption
<1> QED BY <1>1, <1>2, <1>3, <1>4 DEF FutureLimit, FutureBufferLen

-----------------------------------------------------------------------------
(* The invariant, action by action. *)

LEMMA EmptyList == <<>> \in Seq(Nat) /\ Len(<<>>) = 0 /\ Elements(<<>>) = {}
BY EmptySeq DEF Elements

LEMMA InitInv == Init => OverlapInv
<1> SUFFICES ASSUME Init PROVE OverlapInv
  OBVIOUS
<1>1. /\ pc = "recv" /\ status = [r \in Reqs |-> "new"] /\ out = [r \in Reqs |-> <<>>]
      /\ committed = [r \in Reqs |-> 0] /\ allocated = [r \in Reqs |-> 0]
      /\ freed = [r \in Reqs |-> FALSE] /\ pending = [r \in Reqs |-> 0] /\ chunk = NoChunk
      /\ cuts = 0 /\ cur = NoSegs /\ running = EmptyBatch /\ last = NoBatch /\ results = <<>>
      /\ ring = [k \in 1..FutureBufferLen |-> NoEntry] /\ future_ct = FutureStart
      /\ dev = [r \in Reqs |-> 0] /\ tail = FALSE /\ raised = FALSE
  BY DEF Init
<1>2. /\ last.kind = "none" /\ last.batch = EmptyBatch /\ cur.kind = "none" /\ cur.segs = <<>>
      /\ cur = [kind |-> cur.kind, segs |-> cur.segs] /\ Unmerged = EmptyBatch
      /\ last = [kind |-> last.kind, batch |-> last.batch]
  BY <1>1 DEF NoBatch, NoSegs, Unmerged
<1>3. LoopInv
  <2>1. last \in [kind : {"none", "extend", "decode"}, batch : BatchType]
    BY <1>2, EmptyBatchFacts
  <2>2. BatchOK(running) /\ BatchOK(last.batch) /\ Len(results) = 0
    BY <1>1, <1>2, EmptyBatchFacts
  <2>3. /\ pc # "launch" => cur = NoSegs
        /\ pc = "launch" => (cur.kind = "none" <=> running.reqs = <<>> /\ cur.segs = <<>>)
    BY <1>1
  <2>4. /\ Len(results) <= 2
        /\ pc \in {"recv", "pick"} => (Len(results) = IF last.kind = "none" THEN 0 ELSE 1)
        /\ pc = "launch" => Len(results) <= (IF last.kind = "none" THEN 0 ELSE 1)
        /\ pc = "drain" => (IF last.kind = "none" THEN Len(results) <= 1 ELSE Len(results) >= 1)
    BY <1>1, <1>2, <2>2
  <2>5. /\ tail \in BOOLEAN /\ pc \in {"recv", "pick", "launch", "drain"}
        /\ last.kind # "extend" => last.batch = EmptyBatch
        /\ cur.kind \in {"none", "extend", "decode"} /\ cur = [kind |-> cur.kind, segs |-> cur.segs]
        /\ cur.kind = "extend" <=> cur.segs # <<>>
    BY <1>1, <1>2
  <2> QED BY <2>1, <2>2, <2>3, <2>4, <2>5 DEF LoopInv
<1>4. ResultsInv
  BY <1>1, EmptySeq, EmptyList DEF ResultsInv
<1>5. ReqInv
  BY <1>1, EmptyList, OverlapAssumption DEF ReqInv
<1>6. PlaceInv
  BY <1>1, <1>2, EmptyBatchFacts, EmptyList, EmptySeq DEF PlaceInv
<1>7. TokenInv
  <2>1. \A r \in Reqs, k \in {1, 2} : ~Holds(k, r)
    BY <1>1, EmptyList DEF Holds
  <2>2. \A r \in Reqs : status[r] # "active"
    BY <1>1
  <2> QED BY <1>1, <2>1, <2>2 DEF TokenInv, FreshOK
<1>8. RowsInv
  BY <1>1, <1>2, EmptyBatchFacts DEF RowsInv
<1>9. RingInv
  <2>1. Taken = 0
    BY <1>1, <1>2, EmptyBatchFacts, EmptyList DEF Taken, Bit
  <2>2. Rounds(MaxCuts) /\ MaxCuts \in 0..(MaxChunks + MaxCuts) /\ cuts \in 0..MaxCuts
    <3>1. 0 \in 0..MaxChunks /\ MaxCuts = 0 + (MaxCuts - cuts)
      BY <1>1, ChunksFacts, RingFacts
    <3>2. Needs(0)
      BY <1>1 DEF Needs
    <3> QED BY <1>1, <3>1, <3>2, ChunksFacts, RingFacts DEF Rounds
  <2>3. Reach(running, MaxCuts) /\ Reach(Unmerged, MaxCuts)
    BY <1>1, <1>2, EmptyBatchFacts DEF Reach
  <2> QED BY <1>1, <2>1, <2>2, <2>3, RingFacts, FutureAssumption DEF RingInv
<1>10. PassInv
  BY <1>1, <1>2, EmptyBatchFacts DEF PassInv
<1> QED BY <1>3, <1>4, <1>5, <1>6, <1>7, <1>8, <1>9, <1>10 DEF OverlapInv

LEMMA StutterInv == OverlapInv /\ UNCHANGED vars => OverlapInv'
<1> SUFFICES ASSUME OverlapInv, UNCHANGED vars PROVE OverlapInv'
  OBVIOUS
<1>1. /\ UNCHANGED <<pc, chunk, cuts, cur, running, last, results, dev, tail, raised>>
      /\ UNCHANGED <<status, out, committed, allocated, freed, pending>>
      /\ UNCHANGED <<ring, future_ct>>
  BY DEF vars, reqVars, ringVars
<1>2. LoopInv' /\ ResultsInv' /\ ReqInv'
  BY <1>1 DEF OverlapInv, LoopInv, ResultsInv, ReqInv, Context
<1>3. PlaceInv'
  BY <1>1 DEF OverlapInv, PlaceInv, SegOK, InRows, InSegs, InChunk, Context, Unmerged
<1>4. TokenInv'
  <2>1. ASSUME NEW r, NEW k
        PROVE  /\ (Holds(k, r)' <=> Holds(k, r)) /\ RowIn(k, r)' = RowIn(k, r)
               /\ Accepted(k, r)' = Accepted(k, r) /\ Context(r)' = Context(r)
               /\ HeldOK(k, r)' <=> HeldOK(k, r)
    BY <1>1 DEF Holds, RowIn, Accepted, Context, HeldOK, Behind
  <2>2. ASSUME NEW r, NEW k
        PROVE  (Short(k, r)' <=> Short(k, r)) /\ (Full(k, r)' <=> Full(k, r)) /\ Gain(k, r)' = Gain(k, r)
    <3>1. Short(k, r)' <=> Short(k, r)
      BY <1>1, <2>1 DEF Short
    <3>2. Full(k, r)' <=> Full(k, r)
      BY <2>1, <3>1 DEF Full
    <3> QED BY <2>1, <3>1, <3>2 DEF Gain
  <2>3. ASSUME NEW r
        PROVE  /\ (Decoding(r)' <=> Decoding(r)) /\ (Prefilling(r)' <=> Prefilling(r))
               /\ InChunk(r)' <=> InChunk(r)
    BY <1>1 DEF Decoding, Prefilling, Unmerged, InRows, InSegs, InChunk
  <2>4. ASSUME NEW r PROVE PendingOK(r)' <=> PendingOK(r)
    BY <1>1, <2>1, <2>2, <2>3 DEF PendingOK, Bit
  <2>5. ASSUME NEW r PROVE CountOK(r)' <=> CountOK(r)
    BY <1>1, <2>1, <2>2 DEF CountOK, InFlight
  <2>6. FreshOK' <=> FreshOK
    BY <1>1, <2>1, <2>2 DEF FreshOK
  <2> QED BY <1>1, <2>1, <2>3, <2>4, <2>5, <2>6 DEF OverlapInv, TokenInv
<1>5. RowsInv' /\ PassInv'
  BY <1>1 DEF OverlapInv, RowsInv, RowOK, Unmerged, PassInv
<1>6. RingInv'
  <2>1. Taken' = Taken /\ Unmerged' = Unmerged /\ \A m : Rounds(m)' = Rounds(m)
    BY <1>1 DEF Taken, Bit, Unmerged, Rounds, Needs, Context
  <2>2. \A m : Spare(m)' = Spare(m)
    BY <1>1, <2>1 DEF Spare
  <2>3. \A k, e : Ago(k, e)' <=> Ago(k, e)
    BY <1>1 DEF Ago
  <2>4. \A m : (Reach(running, m)' <=> Reach(running, m)) /\ (Reach(Unmerged, m)' <=> Reach(Unmerged, m))
    BY <1>1, <2>1, <2>2, <2>3 DEF Reach
  <2> QED BY <1>1, <2>1, <2>4 DEF OverlapInv, RingInv
<1> QED BY <1>2, <1>3, <1>4, <1>5, <1>6 DEF OverlapInv

\* What a step leaves alone of the ring's account.
LEMMA RingSame ==
  ASSUME RingInv, UNCHANGED <<future_ct, running, cur, chunk, cuts, out>>,
         Unmerged' = Unmerged, pc' = "pick" <=> pc = "pick"
  PROVE  RingInv'
<1>1. Taken' = Taken /\ \A m : Rounds(m)' = Rounds(m)
  BY DEF Taken, Bit, Rounds, Needs, Context
<1>2. \A m : Spare(m)' = Spare(m)
  BY <1>1 DEF Spare
<1>3. \A k, e : Ago(k, e)' <=> Ago(k, e)
  BY DEF Ago
<1>4. \A m : (Reach(running, m)' <=> Reach(running, m)) /\ (Reach(Unmerged, m)' <=> Reach(Unmerged, m))
  BY <1>1, <1>2, <1>3 DEF Reach
<1> QED BY <1>1, <1>4 DEF RingInv

\* A request that is in no batch arrives or is aborted.
LEMMA StatusInv ==
  ASSUME OverlapInv, pc = "recv", NEW r \in Reqs, status[r] \in {"new", "waiting", "retracted"},
         NEW s \in {"waiting", "finished"}, status' = [status EXCEPT ![r] = s],
         UNCHANGED <<pc, out, committed, allocated, freed, pending, chunk, cuts, cur, running, last,
                     results, ring, future_ct, dev, tail, raised>>
  PROVE  OverlapInv'
<1>1. LoopInv' /\ ResultsInv'
  BY DEF OverlapInv, LoopInv, ResultsInv
<1>2. /\ status' \in [Reqs -> {"new", "waiting", "retracted", "active", "finished"}]
      /\ status'[r] = s /\ \A x \in Reqs : x # r => status'[x] = status[x]
  BY DEF OverlapInv, ReqInv
<1>3. ReqInv'
  BY <1>2 DEF OverlapInv, ReqInv
<1>4. \A x \in Reqs : status[x] \in {"active", "finished"} => x # r /\ status'[x] = status[x]
  BY <1>2
<1>5. \A x \in Reqs : status'[x] = "active" => status[x] = "active"
  BY <1>2
<1>6. Unmerged' = Unmerged /\ NoSegs.segs = <<>> /\ NoSegs.kind = "none"
  BY DEF Unmerged, NoSegs
<1>7. cur = NoSegs /\ BatchOK(running) /\ BatchOK(Unmerged)
  BY EmptyBatchFacts DEF OverlapInv, LoopInv, Unmerged
<1>8. /\ \A x \in Elements(running.reqs) : x \in Reqs
      /\ \A x \in Elements(Unmerged.reqs) : x \in Reqs
  BY <1>7, BatchTypes DEF BatchOK
<1>9. PlaceInv'
  <2>1. \A i \in 1..Len(cur.segs) : FALSE
    BY <1>6, <1>7
  <2>2. chunk # NoChunk => chunk.req \in Reqs /\ status[chunk.req] = "active"
    BY DEF OverlapInv, PlaceInv
  <2> QED BY <1>2, <1>4, <1>5, <1>6, <1>8, <2>1, <2>2
          DEF OverlapInv, PlaceInv, InRows, InSegs, InChunk, Context
<1>10. TokenInv'
  <2>1. \A x \in Reqs, k \in {1, 2} : Holds(k, x)' => status[x] \in {"active", "finished"}
    BY DEF OverlapInv, TokenInv, Holds, HeldOK
  <2>2. ASSUME NEW x \in Reqs, status'[x] = "active"
        PROVE  PendingOK(x)' /\ (Decoding(x)' => CountOK(x)')
    <3>1. status[x] = "active"
      BY <1>5, <2>2
    <3>2. PendingOK(x) /\ (Decoding(x) => CountOK(x))
      BY <3>1 DEF OverlapInv, TokenInv
    <3> QED BY <1>6, <3>2
            DEF PendingOK, CountOK, Decoding, Prefilling, InRows, InSegs, InChunk, Context, Holds,
                RowIn, Short, Full, Gain, InFlight, Accepted, Bit
  <2> QED BY <1>4, <2>1, <2>2 DEF TokenInv, FreshOK, HeldOK
<1>11. RowsInv' /\ PassInv'
  BY <1>6, <1>7 DEF OverlapInv, RowsInv, RowOK, PassInv
<1>12. RingInv'
  BY <1>6, RingSame DEF OverlapInv
<1> QED BY <1>1, <1>3, <1>9, <1>10, <1>11, <1>12 DEF OverlapInv

LEMMA ArrivalInv ==
  ASSUME OverlapInv, NEW r \in Reqs, Recv(r) \/ AbortWaiting(r)
  PROVE  OverlapInv'
<1>1. CASE Recv(r)
  BY <1>1, StatusInv DEF Recv, ringVars
<1>2. CASE AbortWaiting(r)
  BY <1>2, StatusInv DEF AbortWaiting, Queued, ringVars
<1> QED BY <1>1, <1>2

\* A step that moves the host on and leaves requests, rows, results and ring alone.
LEMMA QuietInv ==
  ASSUME OverlapInv, LoopInv', PassInv',
         UNCHANGED <<status, out, committed, allocated, freed, pending, chunk, cuts, cur, results, ring,
                     future_ct, dev, raised>>,
         running'.reqs = running.reqs, running'.futures = running.futures,
         running'.rows = running.rows, Unmerged' = Unmerged,
         \/ chunk = NoChunk
         \/ last' = last /\ (pc' = pc \/ (pc = "drain" /\ pc' = "recv")),
         pc' = "drain" => pc = "drain" \/ last'.batch = EmptyBatch,
         \A r \in Reqs, k \in {1, 2} : Holds(k, r) => HeldOK(k, r)'
  PROVE  OverlapInv'
<1>1. ResultsInv' /\ ReqInv'
  BY DEF OverlapInv, ResultsInv, ReqInv, ResultOK
<1>2. /\ \A r : InSegs(r)' <=> InSegs(r)
      /\ \A r : InChunk(r)' <=> InChunk(r)
      /\ \A r : InRows(running, r)' <=> InRows(running, r)
      /\ \A r : InRows(Unmerged, r)' <=> InRows(Unmerged, r)
      /\ \A r : Context(r)' = Context(r)
  BY DEF InSegs, InChunk, InRows, Context
<1>3. PlaceInv'
  <2>1. \A i \in 1..Len(cur.segs) : SegOK(cur.segs[i])'
    BY <1>2 DEF OverlapInv, PlaceInv, SegOK
  <2>2. chunk # NoChunk =>
          /\ pc' \in {"drain", "recv"} => InRows(last.batch, chunk.req)'
          /\ pc' = "launch" => InSegs(chunk.req)
    BY DEF OverlapInv, PlaceInv, InRows
  <2> QED BY <1>2, <2>1, <2>2 DEF OverlapInv, PlaceInv
<1>4. TokenInv'
  <2>1. \A r, k : /\ Holds(k, r)' <=> Holds(k, r)
                  /\ RowIn(k, r)' = RowIn(k, r)
                  /\ Short(k, r)' <=> Short(k, r)
                  /\ Full(k, r)' <=> Full(k, r)
                  /\ Gain(k, r)' = Gain(k, r)
    BY <1>2 DEF Holds, RowIn, Short, Full, Gain
  <2>2. \A r : InFlight(r)' = InFlight(r)
    BY DEF InFlight, Accepted
  <2>3. \A r : (Decoding(r)' <=> Decoding(r)) /\ (Prefilling(r)' <=> Prefilling(r))
    BY <1>2 DEF Decoding, Prefilling
  <2>4. \A r : (pc' = "launch" /\ InChunk(r)') <=> (pc = "launch" /\ InChunk(r))
    BY DEF InChunk
  <2>5. ASSUME NEW r \in Reqs, status[r] = "active"
        PROVE  PendingOK(r)' /\ (Decoding(r)' => CountOK(r)')
    <3>1. PendingOK(r) /\ (Decoding(r) => CountOK(r))
      BY <2>5 DEF OverlapInv, TokenInv
    <3>2. PendingOK(r)'
      BY <2>1, <2>3, <2>4, <3>1 DEF PendingOK, Bit
    <3>3. Decoding(r)' => CountOK(r)'
      BY <1>2, <2>1, <2>2, <2>3, <3>1 DEF CountOK
    <3> QED BY <3>2, <3>3
  <2>6. FreshOK'
    <3>1. CASE pc = "drain" /\ pc' = "drain"
      <4>1. last'.batch = last.batch
        BY <3>1 DEF Unmerged
      <4> QED BY <2>1, <3>1, <4>1 DEF FreshOK, OverlapInv, TokenInv
    <3>2. CASE pc' = "drain" /\ last'.batch = EmptyBatch
      BY <3>2, EmptyBatchFacts DEF FreshOK
    <3>3. CASE pc' # "drain"
      BY <3>3 DEF FreshOK
    <3> QED BY <3>1, <3>2, <3>3
  <2> QED BY <2>1, <2>5, <2>6 DEF TokenInv
<1>5. RowsInv'
  BY DEF OverlapInv, RowsInv, RowOK, Entry
<1>6. RingInv'
  <2>1. Taken' = Taken /\ \A m : Rounds(m)' = Rounds(m)
    <3>1. (pc' = "pick" /\ chunk' # NoChunk) <=> (pc = "pick" /\ chunk # NoChunk)
      OBVIOUS
    <3> QED BY <1>2, <3>1 DEF Taken, Bit, Rounds, Needs
  <2>2. \A m : Spare(m)' = Spare(m)
    BY <2>1 DEF Spare
  <2>3. \A k, e : Ago(k, e)' <=> Ago(k, e)
    BY DEF Ago
  <2>4. \A m : (Reach(running, m)' <=> Reach(running, m)) /\ (Reach(Unmerged, m)' <=> Reach(Unmerged, m))
    BY <2>2, <2>3 DEF Reach
  <2> QED BY <2>1, <2>4 DEF OverlapInv, RingInv
<1> QED BY <1>1, <1>3, <1>4, <1>5, <1>6 DEF OverlapInv

LEMMA EndPassInv == ASSUME OverlapInv, EndPass PROVE OverlapInv'
<1>1. /\ UNCHANGED <<pc, chunk, cuts, cur, running, last, results, dev, raised>>
      /\ UNCHANGED <<status, out, committed, allocated, freed, pending>>
      /\ UNCHANGED <<ring, future_ct>> /\ tail' = FALSE
  BY DEF EndPass, reqVars, ringVars
<1>2. LoopInv' /\ PassInv' /\ Unmerged' = Unmerged
  BY <1>1 DEF OverlapInv, LoopInv, PassInv, Unmerged
<1>3. \A r \in Reqs, k \in {1, 2} : Holds(k, r) => HeldOK(k, r)'
  BY <1>1 DEF OverlapInv, TokenInv, HeldOK, Behind
<1> QED BY <1>1, <1>2, <1>3, QuietInv

LEMMA ProcessNothingInv == ASSUME OverlapInv, ProcessNothing PROVE OverlapInv'
<1>1. /\ UNCHANGED <<chunk, cuts, cur, running, last, results, dev, tail, raised>>
      /\ UNCHANGED <<status, out, committed, allocated, freed, pending>>
      /\ UNCHANGED <<ring, future_ct>> /\ pc = "drain" /\ pc' = "recv" /\ ~Behind
  BY DEF ProcessNothing, reqVars, ringVars
<1>2. Len(results) \in Nat
  BY LenProperties DEF OverlapInv, ResultsInv
<1>3. Len(results) = IF last.kind = "none" THEN 0 ELSE 1
  <2>1. Len(results) <= 2 /\ (IF last.kind = "none" THEN Len(results) <= 1 ELSE Len(results) >= 1)
    BY <1>1 DEF OverlapInv, LoopInv
  <2>2. Len(results) # 2 /\ ~(Len(results) = 1 /\ last.kind = "none")
    BY <1>1 DEF Behind
  <2>3. \A n \in Nat : /\ n <= 1 /\ n # 1 => n = 0
                       /\ n <= 2 /\ n >= 1 /\ n # 2 => n = 1
    OBVIOUS
  <2> QED BY <1>2, <2>1, <2>2, <2>3
<1>4. LoopInv'
  BY <1>1, <1>3 DEF OverlapInv, LoopInv
<1>5. PassInv' /\ Unmerged' = Unmerged
  BY <1>1 DEF OverlapInv, PassInv, Unmerged
<1>6. \A r \in Reqs, k \in {1, 2} : Holds(k, r) => HeldOK(k, r)'
  BY <1>1 DEF OverlapInv, TokenInv, HeldOK
<1> QED BY <1>1, <1>4, <1>5, <1>6, QuietInv

LEMMA LaunchNothingInv == ASSUME OverlapInv, LaunchNothing PROVE OverlapInv'
<1>1. /\ UNCHANGED <<chunk, cuts, cur, running, results, dev, tail, raised>>
      /\ UNCHANGED <<status, out, committed, allocated, freed, pending>>
      /\ UNCHANGED <<ring, future_ct>> /\ pc = "launch" /\ pc' = "drain" /\ last' = NoBatch
      /\ cur.kind = "none"
  BY DEF LaunchNothing, reqVars, ringVars
<1>2. /\ last'.kind = "none" /\ last'.batch = EmptyBatch
      /\ last' \in [kind : {"none", "extend", "decode"}, batch : BatchType]
  BY <1>1, EmptyBatchFacts DEF NoBatch
<1>3. running.reqs = <<>> /\ cur = NoSegs /\ cur.segs = <<>> /\ Len(results) \in Nat
      /\ Len(results) <= 1
  BY <1>1, LenProperties DEF OverlapInv, LoopInv, ResultsInv, NoSegs
<1>4. LoopInv'
  BY <1>1, <1>2, <1>3, EmptyBatchFacts DEF OverlapInv, LoopInv
<1>5. PassInv'
  BY <1>1, <1>2 DEF OverlapInv, PassInv
<1>6. Unmerged' = Unmerged
  BY <1>1, <1>2 DEF Unmerged
<1>7. chunk = NoChunk
  BY <1>1, <1>3 DEF OverlapInv, PlaceInv, InSegs
<1>8. \A r \in Reqs, k \in {1, 2} : Holds(k, r) => HeldOK(k, r)'
  <2>1. ASSUME NEW r, NEW k \in {1, 2}, Holds(k, r) PROVE Len(results) = 1
    <3>1. k \in 1..Len(results)
      BY <2>1 DEF Holds
    <3>2. \A n \in Nat : n <= 1 /\ k \in 1..n => n = 1
      OBVIOUS
    <3> QED BY <1>3, <3>1, <3>2
  <2> QED BY <1>1, <1>2, <2>1 DEF OverlapInv, TokenInv, HeldOK, Behind
<1> QED BY <1>1, <1>2, <1>4, <1>5, <1>6, <1>7, <1>8, QuietInv

LEMMA PickIdleInv == ASSUME OverlapInv, PickIdle PROVE OverlapInv'
<1>1. /\ UNCHANGED <<chunk, cuts, last, results, dev, tail, raised>>
      /\ UNCHANGED <<status, out, committed, allocated, freed, pending>>
      /\ UNCHANGED <<ring, future_ct>> /\ pc = "pick" /\ pc' = "launch" /\ cur' = NoSegs
      /\ chunk = NoChunk /\ running.reqs = <<>>
  BY DEF PickIdle, reqVars, ringVars
<1>2. PICK full \in BOOLEAN : running' = [running EXCEPT !.full = full]
  BY DEF PickIdle
<1>3. /\ BatchOK(running') /\ running'.reqs = running.reqs /\ running'.futures = running.futures
      /\ running'.rows = running.rows
  BY <1>2, FullSet DEF OverlapInv, LoopInv
<1>4. cur = NoSegs /\ cur.kind = "none" /\ cur.segs = <<>> /\ Len(results) \in Nat
  BY <1>1, LenProperties DEF OverlapInv, LoopInv, ResultsInv, NoSegs
<1>5. LoopInv'
  <2>1. Len(results) = IF last.kind = "none" THEN 0 ELSE 1
    BY <1>1 DEF OverlapInv, LoopInv
  <2> QED BY <1>1, <1>3, <1>4, <2>1 DEF OverlapInv, LoopInv
<1>6. PassInv' /\ Unmerged' = Unmerged
  BY <1>1, <1>3, <1>4 DEF OverlapInv, PassInv, Unmerged
<1>7. \A r \in Reqs, k \in {1, 2} : Holds(k, r) => HeldOK(k, r)'
  BY <1>1 DEF OverlapInv, TokenInv, HeldOK
<1> QED BY <1>1, <1>3, <1>4, <1>5, <1>6, <1>7, QuietInv

-----------------------------------------------------------------------------
(* MergeLast. *)

\* A batch filtered of one row, or of none, is as much shorter.
LEMMA CutLen ==
  ASSUME NEW n \in Nat
  PROVE  /\ Len(Ascending(1..n)) = n
         /\ \A j \in 1..n : Len(Ascending((1..n) \ {j})) = n - 1
<1>1. IsFiniteSet(1..n) /\ Cardinality(1..n) = n /\ 1..n \in SUBSET Positive
  BY FS_Interval DEF Positive
<1>2. Len(Ascending(1..n)) = n
  BY <1>1, AscendingFacts
<1>3. ASSUME NEW j \in 1..n PROVE Len(Ascending((1..n) \ {j})) = n - 1
  <2>1. IsFiniteSet((1..n) \ {j}) /\ Cardinality((1..n) \ {j}) = n - 1
    BY <1>1, FS_RemoveElement
  <2>2. (1..n) \ {j} \in SUBSET Positive
    BY <1>1
  <2> QED BY <2>1, <2>2, AscendingFacts
<1> QED BY <1>2, <1>3

\* Row j of c is row k of b, as far as its length is not concerned.
RowFrom(c, j, b, k) ==
  c.reqs[j] = b.reqs[k] /\ c.futures[j] = b.futures[k] /\ c.rows[j] = b.rows[k]

\* d is b with the rows of c but the one of the chunked request.
JoinDone(b, c, d) ==
  /\ BatchOK(d)
  /\ Len(d.reqs) + Bit(chunk # NoChunk) = Len(b.reqs) + Len(c.reqs)
  /\ \A j \in 1..Len(d.reqs) :
       \/ \E k \in 1..Len(b.reqs) : RowFrom(d, j, b, k)
       \/ \E k \in 1..Len(c.reqs) : RowFrom(d, j, c, k) /\ ~InChunk(c.reqs[k])
  /\ \A k \in 1..Len(b.reqs) : \E j \in 1..Len(d.reqs) : RowFrom(d, j, b, k)
  /\ \A k \in 1..Len(c.reqs) : ~InChunk(c.reqs[k]) => \E j \in 1..Len(d.reqs) : RowFrom(d, j, c, k)
  /\ c.reqs = <<>> => d.reqs = b.reqs /\ d.lens = b.lens

LEMMA MergeLastRows ==
  ASSUME OverlapInv, MergeLast
  PROVE  JoinDone(running, last.batch, running')
<1> DEFINE c == last.batch
           read == [last.batch EXCEPT !.lens = ReadLens(@)]
           K == {i \in 1..Len(read.reqs) : MergedRow(read.reqs[i])}
           keep == Ascending(K)
           rest == Filtered(read, keep)
           full == running.full /\ Len(rest.reqs) = Len(read.reqs)
           d == running'
           n == Len(c.reqs)
<1>1. pc = "recv" /\ d = (IF rest.reqs = <<>> THEN [running EXCEPT !.full = full]
                          ELSE IF running.reqs = <<>> THEN rest
                          ELSE [Merged(running, rest) EXCEPT !.full = full])
  BY DEF MergeLast
<1>2. BatchOK(c) /\ BatchOK(running) /\ Unmerged = c
  BY <1>1 DEF OverlapInv, LoopInv, Unmerged
<1>3. /\ BatchOK(read) /\ read.reqs = c.reqs /\ read.futures = c.futures /\ read.rows = c.rows
  BY <1>2, LensRead
<1>4. /\ n \in Nat /\ c \in BatchType /\ running \in BatchType
      /\ \A i \in 1..n : c.reqs[i] \in Reqs /\ c.reqs[i] \in Elements(c.reqs)
      /\ (c.reqs # <<>> <=> n # 0)
  BY <1>2, BatchTypes DEF BatchOK
<1>5. \A i \in 1..n : status[c.reqs[i]] = "active" /\ ~InRows(running, c.reqs[i])
  BY <1>2, <1>4 DEF OverlapInv, PlaceInv
<1>6. K = {i \in 1..n : ~InChunk(c.reqs[i])}
  BY <1>3, <1>5 DEF MergedRow
<1> HIDE DEF read, K
<1>7. KeepOK(keep, n) /\ Elements(keep) = K /\ Len(keep) \in Nat
  <2>1. K \in SUBSET (1..n)
    BY <1>6
  <2> QED BY <1>4, <2>1, KeepRows
<1>8. Len(keep) + Bit(chunk # NoChunk) = n
  <2>1. CASE chunk = NoChunk
    <3>1. K = 1..n
      BY <1>6, <2>1 DEF InChunk
    <3>2. Len(keep) = n
      BY <1>4, <3>1, CutLen
    <3> QED BY <1>4, <2>1, <3>2 DEF Bit
  <2>2. CASE chunk # NoChunk
    <3>1. InRows(c, chunk.req)
      BY <1>1, <2>2 DEF OverlapInv, PlaceInv
    <3>2. PICK j \in 1..n : c.reqs[j] = chunk.req
      BY <1>4, <3>1, BatchTypes DEF InRows
    <3>3. InStep(c)
      BY <1>2, <1>4, <3>2 DEF BatchOK
    <3>4. \A i \in 1..n : c.reqs[i] = chunk.req <=> i = j
      BY <3>2, <3>3 DEF InStep, Unique
    <3>5. K = (1..n) \ {j}
      BY <1>6, <2>2, <3>4 DEF InChunk
    <3>6. Len(keep) = n - 1
      BY <1>4, <3>5, CutLen
    <3> QED BY <1>4, <2>2, <3>6 DEF Bit
  <2> QED BY <2>1, <2>2
<1>9. FilterDone(read, keep, rest)
  BY <1>3, <1>7, FilterFacts
<1> HIDE DEF keep, rest
<1>10. /\ BatchOK(rest) /\ Len(rest.reqs) = Len(keep)
       /\ \A j \in 1..Len(rest.reqs) : \E k \in 1..n : RowFrom(rest, j, c, k) /\ ~InChunk(c.reqs[k])
       /\ \A k \in 1..n : ~InChunk(c.reqs[k]) => \E j \in 1..Len(rest.reqs) : RowFrom(rest, j, c, k)
  <2>1. \A j, k : SameRow(rest, j, read, k) => RowFrom(rest, j, c, k)
    BY <1>3 DEF SameRow, RowFrom
  <2>2. \A k : k \in Elements(keep) <=> k \in 1..n /\ ~InChunk(c.reqs[k])
    BY <1>6, <1>7
  <2> QED BY <1>9, <2>1, <2>2 DEF FilterDone
<1>11. /\ full \in BOOLEAN /\ rest \in BatchType /\ Len(rest.reqs) \in Nat
       /\ (rest.reqs # <<>> <=> Len(rest.reqs) # 0) /\ Len(running.reqs) \in Nat
       /\ (running.reqs # <<>> <=> Len(running.reqs) # 0)
  <2>1. full \in BOOLEAN
    BY <1>4 DEF BatchType
  <2> QED BY <1>4, <1>10, <2>1, BatchTypes DEF BatchOK
<1> HIDE DEF full
<1>12. CASE rest.reqs = <<>>
  <2>1. d = [running EXCEPT !.full = full]
    BY <1>1, <1>12
  <2>2. /\ BatchOK(d) /\ d.reqs = running.reqs /\ d.futures = running.futures
        /\ d.rows = running.rows /\ d.lens = running.lens
    BY <1>2, <1>11, <2>1, FullSet
  <2>3. Len(d.reqs) + Bit(chunk # NoChunk) = Len(running.reqs) + n
    <3>1. Len(keep) = 0 /\ Len(d.reqs) = Len(running.reqs)
      BY <1>10, <1>11, <1>12, <2>2
    <3> DEFINE bit == Bit(chunk # NoChunk)
    <3>2. bit = n
      BY <1>4, <1>8, <3>1 DEF Bit
    <3> HIDE DEF bit
    <3> QED BY <3>1, <3>2 DEF bit
  <2>4. \A k \in 1..n : InChunk(c.reqs[k])
    BY <1>10, <1>11, <1>12
  <2>5. \A j : RowFrom(d, j, running, j)
    BY <2>2 DEF RowFrom
  <2> QED BY <2>2, <2>3, <2>4, <2>5 DEF JoinDone
<1>13. CASE rest.reqs # <<>> /\ running.reqs = <<>>
  <2>1. d = rest
    BY <1>1, <1>13
  <2>2. Len(d.reqs) + Bit(chunk # NoChunk) = Len(running.reqs) + n
    BY <1>4, <1>8, <1>10, <1>11, <1>13, <2>1
  <2>3. c.reqs # <<>>
    BY <1>4, <1>8, <1>10, <1>11, <1>13, <1>7 DEF Bit
  <2> QED BY <1>10, <1>11, <1>13, <2>1, <2>2, <2>3 DEF JoinDone
<1>14. CASE rest.reqs # <<>> /\ running.reqs # <<>>
  <2> DEFINE g == Merged(running, rest)
  <2>1. d = [g EXCEPT !.full = full]
    BY <1>1, <1>14
  <2>2. ASSUME NEW i \in 1..Len(running.reqs), NEW j \in 1..Len(rest.reqs)
        PROVE  running.reqs[i] # rest.reqs[j]
    <3>1. PICK k \in 1..n : rest.reqs[j] = c.reqs[k]
      BY <1>10 DEF RowFrom
    <3>2. running.reqs[i] \in Elements(running.reqs)
      BY <1>4, BatchTypes
    <3> QED BY <1>5, <3>1, <3>2 DEF InRows
  <2>3. MergeDone(running, rest, g)
    BY <1>2, <1>10, <1>14, <2>2, MergeFacts
  <2> HIDE DEF g
  <2>4. BatchOK(g)
    BY <2>3 DEF MergeDone
  <2>5. /\ BatchOK(d) /\ d.reqs = g.reqs /\ d.futures = g.futures /\ d.rows = g.rows
    BY <1>11, <2>1, <2>4, FullSet
  <2>6. Len(d.reqs) + Bit(chunk # NoChunk) = Len(running.reqs) + n
    <3>1. Len(d.reqs) = Len(running.reqs) + Len(keep)
      BY <1>10, <2>3, <2>5 DEF MergeDone
    <3> DEFINE bit == Bit(chunk # NoChunk)
    <3>2. bit \in Nat
      BY DEF Bit
    <3>4. Len(keep) + bit = n
      BY <1>8
    <3> HIDE DEF bit
    <3> DEFINE x == Len(running.reqs)
               y == Len(keep)
               z == Len(d.reqs)
               w == n
    <3>5. x \in Nat /\ y \in Nat /\ w \in Nat /\ z = x + y /\ y + bit = w
      BY <1>4, <1>7, <1>11, <3>1, <3>4
    <3> HIDE DEF x, y, z, w
    <3>6. z + bit = x + w
      BY <3>2, <3>5
    <3>3. Len(d.reqs) + bit = Len(running.reqs) + n
      BY <3>6 DEF x, y, z, w
    <3> QED BY <3>3 DEF bit
  <2>7. c.reqs # <<>>
    BY <1>4, <1>8, <1>10, <1>11, <1>14, <1>7 DEF Bit
  <2>8. \A j, k : SameRow(g, j, running, k) => RowFrom(d, j, running, k)
    BY <2>5 DEF SameRow, RowFrom
  <2>9. \A j, k, l : SameRow(g, j, rest, k) /\ RowFrom(rest, k, c, l) => RowFrom(d, j, c, l)
    BY <2>5 DEF SameRow, RowFrom
  <2>10. ASSUME NEW j \in 1..Len(d.reqs)
         PROVE  \/ \E k \in 1..Len(running.reqs) : RowFrom(d, j, running, k)
                \/ \E k \in 1..n : RowFrom(d, j, c, k) /\ ~InChunk(c.reqs[k])
    <3>1. CASE \E k \in 1..Len(running.reqs) : SameRow(g, j, running, k)
      BY <2>8, <3>1
    <3>2. CASE \E k \in 1..Len(rest.reqs) : SameRow(g, j, rest, k)
      BY <1>10, <2>9, <3>2
    <3> QED BY <2>3, <2>5, <3>1, <3>2 DEF MergeDone
  <2>11. ASSUME NEW k \in 1..n, ~InChunk(c.reqs[k])
         PROVE  \E j \in 1..Len(d.reqs) : RowFrom(d, j, c, k)
    <3>1. PICK l \in 1..Len(rest.reqs) : RowFrom(rest, l, c, k)
      BY <1>10, <2>11
    <3>2. PICK j \in 1..Len(g.reqs) : SameRow(g, j, rest, l)
      BY <2>3 DEF MergeDone
    <3> QED BY <2>5, <2>9, <3>1, <3>2
  <2>12. \A k \in 1..Len(running.reqs) : \E j \in 1..Len(d.reqs) : RowFrom(d, j, running, k)
    BY <2>3, <2>5, <2>8 DEF MergeDone
  <2> HIDE DEF c, n
  <2> QED BY <2>5, <2>6, <2>7, <2>10, <2>11, <2>12 DEF JoinDone, c, n
<1> QED BY <1>12, <1>13, <1>14

LEMMA MergeLastInv == ASSUME OverlapInv, MergeLast PROVE OverlapInv'
<1> DEFINE c == last.batch
           d == running'
<1>1. /\ UNCHANGED <<chunk, cuts, cur, last, results, dev, tail, raised>>
      /\ UNCHANGED <<status, out, committed, allocated, freed, pending>>
      /\ UNCHANGED <<ring, future_ct>> /\ pc = "recv" /\ pc' = "pick"
  BY DEF MergeLast, reqVars, ringVars
<1>2. JoinDone(running, c, d)
  BY MergeLastRows
<1> HIDE DEF d
<1>3. /\ Unmerged = c /\ Unmerged' = EmptyBatch /\ cur = NoSegs /\ cur.kind = "none"
      /\ cur.segs = <<>> /\ BatchOK(c) /\ BatchOK(running)
  BY <1>1 DEF OverlapInv, LoopInv, Unmerged, NoSegs
<1>4. BatchOK(d) /\ d \in BatchType /\ c \in BatchType /\ running \in BatchType
  BY <1>2, <1>3 DEF JoinDone, BatchOK
<1> HIDE DEF c
<1>5. LoopInv'
  BY <1>1, <1>4 DEF OverlapInv, LoopInv, d
<1>6. ResultsInv' /\ ReqInv'
  BY <1>1 DEF OverlapInv, ResultsInv, ReqInv, ResultOK
<1>7. /\ \A r : InSegs(r)' <=> InSegs(r)
      /\ \A r : InChunk(r)' <=> InChunk(r)
      /\ \A r : Context(r)' = Context(r)
  BY <1>1 DEF InSegs, InChunk, Context
<1>8. \A r : InRows(d, r) <=> InRows(running, r) \/ (InRows(c, r) /\ ~InChunk(r))
  <2>1. ASSUME NEW r, InRows(d, r) PROVE InRows(running, r) \/ (InRows(c, r) /\ ~InChunk(r))
    <3>1. PICK j \in 1..Len(d.reqs) : d.reqs[j] = r
      BY <1>4, <2>1, BatchTypes DEF InRows
    <3>2. \/ \E k \in 1..Len(running.reqs) : RowFrom(d, j, running, k)
          \/ \E k \in 1..Len(c.reqs) : RowFrom(d, j, c, k) /\ ~InChunk(c.reqs[k])
      BY <1>2 DEF JoinDone
    <3> QED BY <1>4, <3>1, <3>2, BatchTypes DEF RowFrom, InRows
  <2>2. ASSUME NEW r, InRows(running, r) PROVE InRows(d, r)
    <3>1. PICK k \in 1..Len(running.reqs) : running.reqs[k] = r
      BY <1>4, <2>2, BatchTypes DEF InRows
    <3>2. PICK j \in 1..Len(d.reqs) : RowFrom(d, j, running, k)
      BY <1>2 DEF JoinDone
    <3> QED BY <1>4, <3>1, <3>2, BatchTypes DEF RowFrom, InRows
  <2>3. ASSUME NEW r, InRows(c, r), ~InChunk(r) PROVE InRows(d, r)
    <3>1. PICK k \in 1..Len(c.reqs) : c.reqs[k] = r
      BY <1>4, <2>3, BatchTypes DEF InRows
    <3>2. PICK j \in 1..Len(d.reqs) : RowFrom(d, j, c, k)
      BY <1>2, <2>3, <3>1 DEF JoinDone
    <3> QED BY <1>4, <3>1, <3>2, BatchTypes DEF RowFrom, InRows
  <2> QED BY <2>1, <2>2, <2>3
<1>9. \A r : InRows(running, r)' <=> InRows(d, r)
  BY DEF InRows, d
<1>10. \A r : ~InRows(Unmerged, r)' /\ (InRows(Unmerged, r) <=> InRows(c, r))
  BY <1>3, EmptyBatchFacts DEF InRows
<1>11. PlaceInv'
  <2>1. \A i \in 1..Len(cur.segs) : FALSE
    BY <1>3, EmptyList
  <2>2. \A r \in Elements(d.reqs) : status[r] \in {"active", "finished"}
    BY <1>3, <1>8, <1>10 DEF OverlapInv, PlaceInv, InRows
  <2>3. \A r \in Elements(Unmerged.reqs)' : FALSE
    BY <1>10 DEF InRows
  <2>4. chunk # NoChunk =>
          /\ chunk \in [req : Reqs, filled : Nat \ {0}]
          /\ status[chunk.req] = "active" /\ ~InRows(d, chunk.req)
          /\ chunk.filled < Context(chunk.req)
    <3>1. chunk # NoChunk => InChunk(chunk.req)
      BY DEF InChunk
    <3> QED BY <1>8, <3>1 DEF OverlapInv, PlaceInv
  <2>5. \A r \in Reqs : status[r] = "active" =>
          InRows(d, r) \/ InRows(Unmerged, r)' \/ InSegs(r)' \/ InChunk(r)'
    BY <1>7, <1>8, <1>10 DEF OverlapInv, PlaceInv
  <2>6. cur.segs \in Seq([req : Reqs, from : Nat, to : Nat \ {0}])
    BY DEF OverlapInv, PlaceInv
  <2>7. \A r \in Elements(running.reqs)' : status'[r] \in {"active", "finished"}
    BY <1>1, <2>2 DEF d
  <2>8. chunk # NoChunk => ~InRows(running, chunk.req)'
    BY <1>1, <2>4 DEF InRows, d
  <2> QED BY <1>1, <1>7, <1>9, <2>1, <2>3, <2>4, <2>5, <2>6, <2>7, <2>8 DEF PlaceInv
<1>12. TokenInv'
  <2>1. \A r, k : /\ Holds(k, r)' <=> Holds(k, r)
                  /\ RowIn(k, r)' = RowIn(k, r)
                  /\ Short(k, r)' <=> Short(k, r)
                  /\ Full(k, r)' <=> Full(k, r)
                  /\ Gain(k, r)' = Gain(k, r)
    BY <1>1, <1>7 DEF Holds, RowIn, Short, Full, Gain
  <2>2. \A r : InFlight(r)' = InFlight(r)
    BY <1>1 DEF InFlight, Accepted
  <2>3. \A r : (Decoding(r)' <=> Decoding(r)) /\ (Prefilling(r)' <=> Prefilling(r))
    BY <1>7, <1>8, <1>9, <1>10 DEF Decoding, Prefilling
  <2>4. ASSUME NEW r \in Reqs, status[r] = "active"
        PROVE  PendingOK(r)' /\ (Decoding(r)' => CountOK(r)')
    <3>1. PendingOK(r) /\ (Decoding(r) => CountOK(r))
      BY <2>4 DEF OverlapInv, TokenInv
    <3>2. PendingOK(r)'
      BY <1>1, <2>1, <2>3, <3>1 DEF PendingOK, Bit
    <3>3. Decoding(r)' => CountOK(r)'
      BY <1>1, <1>7, <2>1, <2>2, <2>3, <3>1 DEF CountOK
    <3> QED BY <3>2, <3>3
  <2>5. \A r \in Reqs, k \in {1, 2} : Holds(k, r) => HeldOK(k, r)'
    BY <1>1 DEF OverlapInv, TokenInv, HeldOK
  <2> QED BY <1>1, <2>1, <2>4, <2>5 DEF TokenInv, FreshOK
<1>13. \A i \in 1..Len(running.reqs) : RowOK(running, i)
  BY DEF OverlapInv, RowsInv
<1>14. \A i \in 1..Len(c.reqs) : RowOK(c, i)
  BY <1>3 DEF OverlapInv, RowsInv
<1>15. RowsInv'
  <2>1. ASSUME NEW j \in 1..Len(d.reqs) PROVE RowOK(d, j)
    <3>1. \/ \E k \in 1..Len(running.reqs) : RowFrom(d, j, running, k)
          \/ \E k \in 1..Len(c.reqs) : RowFrom(d, j, c, k) /\ ~InChunk(c.reqs[k])
      BY <1>2 DEF JoinDone
    <3> QED BY <1>13, <1>14, <3>1 DEF RowOK, RowFrom
  <2>2. \A j \in 1..Len(running'.reqs) : RowOK(running, j)'
    BY <1>1, <2>1 DEF RowOK, d, Entry
  <2>3. \A i \in 1..Len(Unmerged'.reqs) : FALSE
    BY <1>3, EmptyBatchFacts
  <2> QED BY <1>1, <2>2, <2>3 DEF OverlapInv, RowsInv
<1>16. RingInv'
  <2>0. Len(d.reqs) \in Nat /\ Len(c.reqs) \in Nat /\ Len(running.reqs) \in Nat
    BY <1>4, BatchTypes
  <2>1. Taken' = Taken
    <3> DEFINE x == Len(d.reqs)
               y == Len(running.reqs)
               z == Len(c.reqs)
               bit == Bit(chunk # NoChunk)
    <3>1. x \in Nat /\ y \in Nat /\ z \in Nat
      BY <2>0
    <3>2. bit \in Nat
      BY DEF Bit
    <3>3. x + bit = y + z
      BY <1>2 DEF JoinDone
    <3>4. Taken = y + z + 0 + 0
      BY <1>1, <1>3, EmptyList DEF Taken, Bit
    <3>5. Taken' = x + 0 + 0 + bit
      BY <1>1, <1>3, EmptyBatchFacts, EmptyList DEF Taken, Bit, d
    <3> HIDE DEF x, y, z, bit
    <3> QED BY <3>1, <3>2, <3>3, <3>4, <3>5
  <2>2. \A m : Rounds(m)' = Rounds(m)
    BY <1>1, <1>7 DEF Rounds, Needs
  <2>3. \A m : Spare(m)' = Spare(m)
    BY <1>1, <2>1 DEF Spare
  <2>4. \A k, e : Ago(k, e)' <=> Ago(k, e)
    BY <1>1 DEF Ago
  <2>5. cur.kind # "decode"
    BY <1>3
  <2>6. PICK m \in 0..(MaxChunks + MaxCuts) : Rounds(m) /\ Reach(running, m) /\ Reach(Unmerged, m)
    BY <2>5 DEF OverlapInv, RingInv
  <2>7. ASSUME NEW j \in 1..Len(d.reqs) PROVE \E e \in 0..Spare(m) : Ago(d.futures[j], e)
    <3>1. \/ \E k \in 1..Len(running.reqs) : RowFrom(d, j, running, k)
          \/ \E k \in 1..Len(c.reqs) : RowFrom(d, j, c, k) /\ ~InChunk(c.reqs[k])
      BY <1>2 DEF JoinDone
    <3>2. /\ \A k \in 1..Len(running.reqs) : \E e \in 0..Spare(m) : Ago(running.futures[k], e)
          /\ \A k \in 1..Len(c.reqs) : \E e \in 0..Spare(m) : Ago(c.futures[k], e)
      BY <1>3, <2>6 DEF Reach
    <3> QED BY <3>1, <3>2 DEF RowFrom
  <2>8. Reach(running, m)'
    BY <2>3, <2>4, <2>7 DEF Reach, d
  <2>9. Reach(Unmerged, m)'
    BY <1>3, EmptyBatchFacts DEF Reach
  <2> QED BY <1>1, <2>1, <2>2, <2>6, <2>8, <2>9 DEF OverlapInv, RingInv
<1>17. PassInv'
  BY <1>1, <1>3 DEF PassInv
<1> QED BY <1>5, <1>6, <1>11, <1>12, <1>15, <1>16, <1>17 DEF OverlapInv

-----------------------------------------------------------------------------
(* The segments of a prefill batch. *)

SegFrom(order, i) == IF InChunk(order[i]) THEN chunk.filled ELSE 0
LeftAfter(order, l, i) == l - MinOf(l, Context(order[i]) - SegFrom(order, i))

\* g is the budget, request by request, and segs what it gives them.
Handed(order, rem, n, g, segs) ==
  /\ \A i \in 0..n : g[i] = IF i = 0 THEN rem ELSE LeftAfter(order, g[i - 1], i)
  /\ segs = [i \in 1..n |->
               [req |-> order[i], from |-> SegFrom(order, i),
                to |-> MinOf(Context(order[i]), SegFrom(order, i) + g[i - 1])]]

LEMMA SegmentsLoop ==
  ASSUME NEW order, NEW rem, NEW n \in Nat, n = Len(order), DOMAIN order = 1..n
  PROVE  \E g : Handed(order, rem, n, g, Segments(order, rem))
<1> DEFINE Turns(g, k) ==
             g = [i \in 0..k |-> IF i = 0 THEN rem ELSE LeftAfter(order, g[i - 1], i)]
           S == {k \in 0..n : \E g : Turns(g, k)}
           f == CHOOSE g : Turns(g, n)
<1>0. Segments(order, rem) =
        [i \in 1..n |->
           [req |-> order[i], from |-> SegFrom(order, i),
            to |-> MinOf(Context(order[i]), SegFrom(order, i) + f[i - 1])]]
  BY DEF Segments, SegFrom, LeftAfter
<1> HIDE DEF f
<1>1. 0 \in S
  <2> DEFINE g == [i \in 0..0 |-> rem]
  <2>1. \A i \in 0..0 : i = 0
    OBVIOUS
  <2>2. Turns(g, 0)
    BY <2>1
  <2>3. \E h : Turns(h, 0)
    BY <2>2
  <2> HIDE DEF Turns
  <2> QED BY <2>3
<1>2. ASSUME NEW k \in 0..(n - 1), k \in S PROVE k + 1 \in S
  <2>1. PICK g : Turns(g, k)
    BY <1>2
  <2> DEFINE h == [i \in 0..(k + 1) |-> IF i = k + 1 THEN LeftAfter(order, g[k], i) ELSE g[i]]
  <2>2. ASSUME NEW i \in 0..(k + 1)
        PROVE  h[i] = IF i = 0 THEN rem ELSE LeftAfter(order, h[i - 1], i)
    <3>1. CASE i = k + 1
      <4>1. i # 0 /\ i - 1 = k /\ k \in 0..(k + 1) /\ k # k + 1
        BY <3>1
      <4>2. h[i] = LeftAfter(order, g[k], i) /\ h[i - 1] = g[k]
        BY <3>1, <4>1
      <4> HIDE DEF h
      <4> QED BY <3>1, <4>1, <4>2
    <3>2. CASE i # k + 1
      <4>1. i \in 0..k /\ h[i] = g[i]
        BY <3>2
      <4>2. i # 0 => i - 1 \in 0..(k + 1) /\ i - 1 # k + 1 /\ h[i - 1] = g[i - 1]
        BY <3>2
      <4>3. g[i] = IF i = 0 THEN rem ELSE LeftAfter(order, g[i - 1], i)
        BY <2>1, <4>1
      <4> HIDE DEF h, Turns
      <4> QED BY <4>1, <4>2, <4>3
    <3> QED BY <3>1, <3>2
  <2>3. h = [i \in 0..(k + 1) |-> h[i]]
    OBVIOUS
  <2> HIDE DEF h
  <2>4. Turns(h, k + 1)
    BY <2>2, <2>3
  <2>5. k + 1 \in 0..n
    OBVIOUS
  <2> QED BY <2>4, <2>5
<1> HIDE DEF S
<1>3. n \in S
  <2>1. 0..n \subseteq S
    BY <1>1, <1>2, UpTo
  <2> QED BY <2>1
<1>4. \E g : Turns(g, n)
  BY <1>3 DEF S
<1>5. Turns(f, n)
  <2> HIDE DEF Turns
  <2> QED BY <1>4 DEF f
<1>6. \A i \in 0..n : f[i] = IF i = 0 THEN rem ELSE LeftAfter(order, f[i - 1], i)
  BY <1>5
<1> QED BY <1>0, <1>6 DEF Handed

\* A list of requests that can run: the chunked request and requests of the queue,
\* each once, and the batch has room for them.
OrderOK(order) ==
  /\ order \in Seq(Reqs) /\ Unique(order)
  /\ chunk = NoChunk => \A i \in 1..Len(order) : Queued(order[i])
  /\ chunk # NoChunk => /\ Len(order) >= 1 /\ order[1] = chunk.req
                        /\ \A i \in 2..Len(order) : Queued(order[i])
  /\ Len(order) > Bit(chunk # NoChunk) => Len(running.reqs) + Len(order) <= MaxRunning

LEMMA CanRunFacts ==
  ASSUME OverlapInv, NEW rem, NEW order \in CanRunLists(rem)
  PROVE  /\ OrderOK(order)
         /\ \A i \in 1..Len(order) : Segments(order, rem)[i].from < Segments(order, rem)[i].to
<1> DEFINE first == ChunkedFirst
<1>1. PICK k \in 0..MaxRunning : \E o \in [1..k -> Waiting] : order = first \o o
  <2> DEFINE more == IF running.full THEN {0} ELSE 0..MaxRunning
             all == UNION {[1..n -> Waiting] : n \in more}
  <2>1. order \in {first \o o : o \in all}
    BY DEF CanRunLists
  <2>2. PICK o \in all : order = first \o o
    BY <2>1
  <2>3. \A n \in more : n \in 0..MaxRunning
    BY OverlapAssumption
  <2> HIDE DEF more
  <2>4. PICK k \in more : o \in [1..k -> Waiting]
    BY <2>2
  <2> QED BY <2>2, <2>3, <2>4
<1>13. PICK o \in [1..k -> Waiting] : order = first \o o
  BY <1>1
<1>2. /\ Cardinality(Elements(order)) = Len(order)
      /\ Len(order) > Len(first) => Allocatable(Len(order) - 1) > 0
      /\ \A i \in DOMAIN order : Segments(order, rem)[i].from < Segments(order, rem)[i].to
  BY DEF CanRunLists
<1>3. k \in Nat /\ o \in Seq(Waiting) /\ Len(o) = k /\ \A i \in 1..k : o[i] \in Waiting
  BY <1>13, ListOf, OverlapAssumption
<1>4. first \in Seq(Reqs) /\ Len(first) = (IF chunk = NoChunk THEN 0 ELSE 1)
      /\ (chunk # NoChunk => first[1] = chunk.req)
  <2>1. chunk # NoChunk => chunk.req \in Reqs
    BY DEF OverlapInv, PlaceInv
  <2> QED BY <2>1, EmptySeq DEF ChunkedFirst
<1>5. o \in Seq(Reqs)
  <2>1. Waiting \subseteq Reqs
    BY DEF Waiting
  <2> QED BY <1>3, <2>1, SeqMonotonic
<1> HIDE DEF first
<1>6. Joined(Reqs, first, o, order)
  BY <1>13, <1>4, <1>5, ConcatJoins
<1> DEFINE n == Len(order)
<1>7. order \in Seq(Reqs) /\ n \in Nat /\ DOMAIN order = 1..n /\ n = Len(first) + k
  BY <1>3, <1>6, LenProperties DEF Joined
<1>8. Unique(order)
  <2>1. order \in Surjection(1..n, Elements(order))
    <3>1. order \in [1..n -> Elements(order)]
      BY <1>7 DEF Elements
    <3>2. \A t \in Elements(order) : \E i \in 1..n : order[i] = t
      BY <1>7 DEF Elements
    <3> QED BY <3>1, <3>2, Zenon DEF Surjection
  <2>2. IsFiniteSet(1..n) /\ Cardinality(1..n) = Cardinality(Elements(order))
    BY <1>2, <1>7, FS_Interval
  <2>3. order \in Injection(1..n, Elements(order))
    BY <2>1, <2>2, FS_SurjSameCardinalityImpliesInj
  <2> QED BY <2>3, Zenon DEF Injection, Unique, IsInjective
<1>9. \A r \in Waiting : Queued(r)
  BY DEF Waiting
<1>10. chunk = NoChunk => \A i \in 1..n : Queued(order[i])
  <2>1. SUFFICES ASSUME chunk = NoChunk, NEW i \in 1..n PROVE Queued(order[i])
    OBVIOUS
  <2>2. Len(first) = 0 /\ i \in 1..k /\ 0 + i = i
    BY <1>3, <1>4, <1>7, <2>1
  <2>3. order[i] = o[i]
    BY <1>3, <1>6, <2>2 DEF Joined
  <2> QED BY <1>3, <1>9, <2>2, <2>3
<1>11. chunk # NoChunk => /\ n >= 1 /\ order[1] = chunk.req
                          /\ \A i \in 2..n : Queued(order[i])
  <2>1. SUFFICES ASSUME chunk # NoChunk
                 PROVE  /\ n >= 1 /\ order[1] = chunk.req
                        /\ \A i \in 2..n : Queued(order[i])
    OBVIOUS
  <2>2. Len(first) = 1 /\ n = 1 + k /\ order[1] = chunk.req
    BY <1>4, <1>6, <1>7, <2>1 DEF Joined
  <2>3. ASSUME NEW i \in 2..n PROVE Queued(order[i])
    <3>1. i - 1 \in 1..k /\ 1 + (i - 1) = i
      BY <1>3, <2>2
    <3>2. order[1 + (i - 1)] = o[i - 1]
      BY <1>3, <1>6, <2>2, <3>1 DEF Joined
    <3> QED BY <1>3, <1>9, <3>1, <3>2
  <2> QED BY <1>3, <2>2, <2>3
<1>12. n > Bit(chunk # NoChunk) => Len(running.reqs) + n <= MaxRunning
  <2>1. SUFFICES ASSUME n > Bit(chunk # NoChunk) PROVE Len(running.reqs) + n <= MaxRunning
    OBVIOUS
  <2>2. n > Len(first)
    BY <1>4, <2>1 DEF Bit
  <2>3. MaxRunning - Len(running.reqs) - (n - 1) > 0
    BY <1>2, <2>2 DEF Allocatable
  <2>4. Len(running.reqs) \in Nat /\ MaxRunning \in Nat
    BY BatchTypes, OverlapAssumption DEF OverlapInv, LoopInv, BatchOK
  <2> DEFINE x == Len(running.reqs)
  <2>5. x \in Nat /\ MaxRunning - x - (n - 1) > 0
    BY <2>3, <2>4
  <2> HIDE DEF x, n
  <2>6. x + n <= MaxRunning
    BY <1>7, <2>4, <2>5
  <2> QED BY <2>6 DEF x
<1> QED BY <1>2, <1>7, <1>8, <1>10, <1>11, <1>12 DEF OrderOK

\* What a request has, and how long it can get while it is served.
LEMMA ContextFacts ==
  ASSUME OverlapInv, NEW r \in Reqs
  PROVE  /\ Context(r) \in Nat \ {0} /\ Len(out[r]) \in Nat /\ PromptLen(r) \in Nat
         /\ Context(r) = PromptLen(r) + Len(out[r])
         /\ status[r] # "finished" => Context(r) <= ContextLen
<1> DEFINE l == Len(out[r])
           p == PromptLen(r)
<1>1. l \in Nat
  <2>1. out[r] \in Seq(Nat)
    BY DEF OverlapInv, ReqInv
  <2> QED BY <2>1, LenProperties
<1>2. p \in Nat \ {0} /\ p + MaxNew <= ContextLen /\ ContextLen \in Nat /\ MaxNew \in Nat
  BY OverlapAssumption
<1>3. status[r] # "finished" => l < MaxNew
  BY DEF OverlapInv, ReqInv
<1>4. Context(r) = p + l
  BY DEF Context
<1> HIDE DEF l, p
<1>5. p + l \in Nat \ {0} /\ (l < MaxNew => p + l <= ContextLen)
  BY <1>1, <1>2
<1> QED BY <1>1, <1>2, <1>3, <1>4, <1>5 DEF l, p

SegType == [req : Reqs, from : Nat, to : Nat \ {0}]

\* The segments: only the last can end before its request's tokens do.
SegsOK(order, rem, segs) ==
  /\ segs \in Seq(SegType) /\ Len(segs) = Len(order)
  /\ \A i \in 1..Len(order) : segs[i].req = order[i] /\ segs[i].to <= Context(order[i])
  /\ \A i \in 1..(Len(order) - 1) : segs[i].to = Context(order[i])
  /\ chunk # NoChunk => segs[1].to = MinOf(Context(chunk.req), chunk.filled + rem)

LEMMA SegmentsFacts ==
  ASSUME OverlapInv, NEW rem \in Nat, NEW order, OrderOK(order),
         \A i \in 1..Len(order) : Segments(order, rem)[i].from < Segments(order, rem)[i].to
  PROVE  SegsOK(order, rem, Segments(order, rem))
<1> DEFINE n == Len(order)
           segs == Segments(order, rem)
<1>1. order \in Seq(Reqs) /\ n \in Nat /\ DOMAIN order = 1..n /\ \A i \in 1..n : order[i] \in Reqs
  BY LenProperties, ElementOfSeq DEF OrderOK
<1>2. PICK g : /\ \A i \in 0..n : g[i] = IF i = 0 THEN rem ELSE LeftAfter(order, g[i - 1], i)
               /\ segs = [i \in 1..n |->
                            [req |-> order[i], from |-> SegFrom(order, i),
                             to |-> MinOf(Context(order[i]), SegFrom(order, i) + g[i - 1])]]
  <2>1. PICK g : Handed(order, rem, n, g, segs)
    BY <1>1, SegmentsLoop
  <2> QED BY <2>1 DEF Handed
<1>3. \A i \in 1..n : /\ segs[i].req = order[i] /\ segs[i].from = SegFrom(order, i)
                      /\ segs[i].to = MinOf(Context(order[i]), SegFrom(order, i) + g[i - 1])
                      /\ segs[i] = [req |-> segs[i].req, from |-> segs[i].from, to |-> segs[i].to]
  BY <1>2
<1>4. DOMAIN segs = 1..n /\ segs = [i \in 1..n |-> segs[i]]
  BY <1>2
<1>5. \A i \in 1..n : segs[i].from < segs[i].to
  OBVIOUS
<1> HIDE DEF segs
<1>6. \A i \in 1..n : SegFrom(order, i) \in Nat /\ Context(order[i]) \in Nat \ {0}
  <2>1. chunk # NoChunk => chunk.filled \in Nat
    BY DEF OverlapInv, PlaceInv
  <2> QED BY <1>1, <2>1, ContextFacts DEF SegFrom, InChunk
<1>7. rem \in Nat
  OBVIOUS
<1> DEFINE S == {k \in 0..n : g[k] \in Nat}
<1>8. 0..n \subseteq S
  <2>1. 0 \in S
    BY <1>1, <1>2, <1>7
  <2>2. ASSUME NEW k \in 0..(n - 1), k \in S PROVE k + 1 \in S
    <3>1. k + 1 \in 1..n /\ k + 1 \in 0..n /\ (k + 1) - 1 = k /\ k + 1 # 0 /\ g[k] \in Nat
      BY <1>1, <2>2
    <3>2. g[k + 1] = LeftAfter(order, g[k], k + 1)
      BY <1>2, <3>1
    <3> DEFINE a == Context(order[k + 1])
               f == SegFrom(order, k + 1)
               l == g[k]
    <3>3. a \in Nat /\ f \in Nat /\ l \in Nat /\ g[k + 1] = l - MinOf(l, a - f)
      BY <1>6, <3>1, <3>2 DEF LeftAfter
    <3> HIDE DEF a, f, l
    <3>4. l - MinOf(l, a - f) \in Nat
      BY <3>3 DEF MinOf
    <3> QED BY <3>1, <3>3, <3>4
  <2> HIDE DEF S
  <2> QED BY <1>1, <2>1, <2>2, UpTo
<1>9. \A i \in 1..n : i - 1 \in 0..n /\ i \in 0..n /\ i # 0 /\ g[i - 1] \in Nat
  <2>1. \A i \in 1..n : i - 1 \in 0..n /\ i \in 0..n /\ i # 0
    BY <1>1
  <2> QED BY <1>8, <2>1
<1>10. ASSUME NEW i \in 1..n
       PROVE  /\ segs[i] \in SegType /\ segs[i].to <= Context(order[i])
  <2> DEFINE a == Context(order[i])
             f == SegFrom(order, i)
             l == g[i - 1]
             t == segs[i].to
  <2>1. a \in Nat /\ f \in Nat /\ l \in Nat /\ t = MinOf(a, f + l) /\ f < t
    BY <1>3, <1>5, <1>6, <1>9
  <2> HIDE DEF a, f, l, t
  <2>2. t \in Nat \ {0} /\ t <= a
    BY <2>1 DEF MinOf
  <2> USE DEF a, f, l, t
  <2>3. segs[i].from \in Nat /\ segs[i].req \in Reqs /\ segs[i].to \in Nat \ {0}
    BY <1>1, <1>3, <1>6, <2>2
  <2>4. segs[i] = [req |-> segs[i].req, from |-> segs[i].from, to |-> segs[i].to]
    BY <1>3
  <2>5. segs[i] \in SegType
    BY <2>3, <2>4, Zenon DEF SegType
  <2> QED BY <2>2, <2>5
<1>11. segs \in Seq(SegType) /\ Len(segs) = n
  <2>1. segs \in [1..n -> SegType]
    BY <1>4, <1>10
  <2> QED BY <1>1, <2>1, ListOf
<1>12. ASSUME NEW i \in 1..(n - 1) PROVE segs[i].to = Context(order[i])
  <2>1. i \in 1..n /\ i + 1 \in 1..n /\ (i + 1) - 1 = i
    BY <1>1
  <2> DEFINE a == Context(order[i])
             f == SegFrom(order, i)
             l == g[i - 1]
             t == segs[i].to
             l2 == g[i]
             f2 == SegFrom(order, i + 1)
             a2 == Context(order[i + 1])
             t2 == segs[i + 1].to
  <2>2. a \in Nat /\ f \in Nat /\ l \in Nat /\ t = MinOf(a, f + l)
    BY <1>3, <1>6, <1>9, <2>1
  <2>3. a2 \in Nat /\ f2 \in Nat /\ l2 \in Nat /\ t2 = MinOf(a2, f2 + l2) /\ f2 < t2
    BY <1>3, <1>5, <1>6, <1>9, <2>1
  <2>4. l2 = l - MinOf(l, a - f)
    BY <1>2, <1>9, <2>1 DEF LeftAfter
  <2> HIDE DEF a, f, l, t, a2, f2, l2, t2
  <2>5. l2 > 0
    BY <2>3 DEF MinOf
  <2>6. t = a
    BY <2>2, <2>4, <2>5 DEF MinOf
  <2> QED BY <2>6 DEF a, t
<1>13. chunk # NoChunk => segs[1].to = MinOf(Context(chunk.req), chunk.filled + rem)
  <2>1. SUFFICES ASSUME chunk # NoChunk
                 PROVE  segs[1].to = MinOf(Context(chunk.req), chunk.filled + rem)
    OBVIOUS
  <2>2. 1 \in 1..n /\ order[1] = chunk.req /\ 1 - 1 = 0 /\ 0 \in 0..n
    BY <1>1, <2>1 DEF OrderOK
  <2>3. SegFrom(order, 1) = chunk.filled
    BY <2>1, <2>2 DEF SegFrom, InChunk
  <2> QED BY <1>2, <1>3, <2>2, <2>3
<1> QED BY <1>3, <1>10, <1>11, <1>12, <1>13 DEF SegsOK, segs

-----------------------------------------------------------------------------
(* PickPrefill. *)

\* The potential: a segment more of the chunked request, or a row more.
LEMMA SpareArith ==
  ASSUME NEW b \in {0, 1}, NEW n \in Nat, NEW m \in Nat, NEW x \in Nat, NEW c \in Nat, NEW l \in Nat,
         n >= 1, NEW k \in Nat, k <= c, b = 1 => m >= 1,
         b = 1 /\ n = 1 => k + 1 <= m, x + b <= l, x + n <= l
  PROVE  n + (l - (x + n)) * (c + 1) + k <= (l - (x + b)) * (c + 1) + m
<1> DEFINE y == l - (x + n)
           a == n - b
<1>1. y \in Nat /\ a \in Nat /\ l - (x + b) = y + a /\ n = a + b
  OBVIOUS
<1> HIDE DEF y, a
<1>2. (y + a) * (c + 1) = y * (c + 1) + a * (c + 1) /\ a * (c + 1) = a * c + a
      /\ y * (c + 1) \in Nat /\ a * c \in Nat
  BY <1>1
<1>3. a >= 1 => a * c >= c
  BY <1>1
<1>4. n + k <= a * c + a + m
  <2>1. CASE a = 0
    BY <1>1, <1>2, <2>1
  <2>2. CASE a >= 1
    <3>1. a * c >= c
      BY <1>3, <2>2
    <3> DEFINE p == a * c
    <3>2. p \in Nat /\ p >= c
      BY <1>2, <3>1
    <3> HIDE DEF p
    <3>3. n + k <= p + a + m
      BY <1>1, <3>2
    <3> QED BY <3>3 DEF p
  <2> QED BY <1>1, <2>1, <2>2
<1> DEFINE q == y * (c + 1)
           p == a * c
<1>5. (y + a) * (c + 1) = q + (p + a) /\ q \in Nat /\ p \in Nat /\ n + k <= p + a + m
  BY <1>2, <1>4
<1> HIDE DEF q, p
<1>6. n + q + k <= (q + (p + a)) + m
  BY <1>1, <1>5
<1>7. n + y * (c + 1) + k <= (y + a) * (c + 1) + m
  BY <1>5, <1>6 DEF q
<1> QED BY <1>1, <1>7 DEF y

\* The segments the chunked request still needs after this batch.
LEMMA NextRounds ==
  ASSUME OverlapInv, NEW order, OrderOK(order), Len(order) >= 1, NEW rem \in RemTokens,
         NEW segs, SegsOK(order, rem, segs), NEW m \in 0..MaxChunks, Needs(m)
  PROVE  /\ chunk = NoChunk => m = 0
         /\ chunk # NoChunk => m >= 1
         /\ \E k \in 0..MaxChunks :
              /\ chunk # NoChunk /\ Len(order) = 1 => k + Bit(rem = ChunkSize) <= m
              /\ LET final == segs[Len(segs)]
                 IN  IF Truncated(final) THEN Context(final.req) <= final.to + k * ChunkSize
                     ELSE k = 0
<1> DEFINE n == Len(order)
           final == segs[Len(segs)]
<1>1. n \in Nat /\ n \in 1..n /\ final = segs[n] /\ final.req = order[n] /\ order[n] \in Reqs
  BY LenProperties, ElementOfSeq DEF OrderOK, SegsOK
<1>2. chunk = NoChunk => m = 0
  BY DEF Needs
<1>3. chunk # NoChunk => m >= 1 /\ m - 1 \in Nat
  <2>1. SUFFICES ASSUME chunk # NoChunk, m = 0 PROVE FALSE
    OBVIOUS
  <2>2. chunk.filled \in Nat /\ chunk.filled < Context(chunk.req) /\ chunk.req \in Reqs
    BY <2>1 DEF OverlapInv, PlaceInv
  <2>3. Context(chunk.req) <= chunk.filled + 0 * ChunkSize
    BY <2>1 DEF Needs
  <2>4. Context(chunk.req) \in Nat /\ 0 * ChunkSize = 0
    BY <2>2, ContextFacts, OverlapAssumption
  <2> DEFINE a == Context(chunk.req)
             f == chunk.filled
  <2>5. a \in Nat /\ f \in Nat /\ f < a /\ a <= f + 0
    BY <2>2, <2>3, <2>4
  <2> HIDE DEF a, f
  <2> QED BY <2>5
<1>4. ChunkSize \in Nat /\ ChunkSize >= 1 /\ ContextLen \in Nat /\ MaxChunks \in Nat
      /\ ContextLen <= MaxChunks * ChunkSize /\ m \in Nat /\ m <= MaxChunks /\ MaxChunks >= 1
  BY OverlapAssumption, ChunksFacts
<1> HIDE DEF final
<1>5. CASE ~Truncated(final)
  <2>1. 0 \in 0..MaxChunks /\ (chunk # NoChunk /\ n = 1 => 0 + Bit(rem = ChunkSize) <= m)
    BY <1>3, <1>4 DEF Bit
  <2> QED BY <1>2, <1>3, <1>5, <2>1 DEF final
<1>6. CASE Truncated(final) /\ chunk # NoChunk /\ n = 1 /\ rem = ChunkSize
  <2>1. final.req = chunk.req /\ final.to = MinOf(Context(chunk.req), chunk.filled + ChunkSize)
    BY <1>1, <1>6 DEF OrderOK, SegsOK
  <2>2. chunk.filled \in Nat /\ chunk.req \in Reqs
    BY <1>6 DEF OverlapInv, PlaceInv
  <2> DEFINE a == Context(chunk.req)
             f == chunk.filled
             t == final.to
  <2>3. a \in Nat /\ f \in Nat /\ t = MinOf(a, f + ChunkSize) /\ t < a /\ a <= f + m * ChunkSize
    BY <1>6, <2>1, <2>2, ContextFacts DEF Truncated, Needs
  <2> HIDE DEF a, f, t
  <2>4. t = f + ChunkSize
    BY <1>4, <2>3 DEF MinOf
  <2>5. m * ChunkSize = ChunkSize + (m - 1) * ChunkSize /\ (m - 1) * ChunkSize \in Nat
    BY <1>3, <1>4, <1>6
  <2>6. a <= t + (m - 1) * ChunkSize
    <3> DEFINE y == (m - 1) * ChunkSize
    <3>1. y \in Nat /\ a <= f + (ChunkSize + y)
      BY <2>3, <2>5
    <3> HIDE DEF y
    <3>2. a <= t + y
      BY <1>4, <2>3, <2>4, <3>1
    <3> QED BY <3>2 DEF y
  <2>7. Context(final.req) <= final.to + (m - 1) * ChunkSize
    BY <2>1, <2>6 DEF a, t
  <2>8. m - 1 \in 0..MaxChunks /\ (m - 1) + Bit(rem = ChunkSize) <= m
    BY <1>3, <1>4, <1>6 DEF Bit
  <2> QED BY <1>2, <1>3, <1>6, <2>7, <2>8 DEF final
<1>7. CASE Truncated(final) /\ ~(chunk # NoChunk /\ n = 1)
  <2>1. Queued(order[n])
    <3>1. CASE chunk = NoChunk
      BY <1>1, <3>1 DEF OrderOK
    <3>2. CASE chunk # NoChunk
      <4>1. n \in 2..n
        <5>1. n # 1
          BY <1>7, <3>2
        <5> HIDE DEF n
        <5> QED BY <1>1, <5>1
      <4> QED BY <3>2, <4>1 DEF OrderOK
    <3> QED BY <3>1, <3>2
  <2>2. Context(final.req) \in Nat /\ Context(final.req) <= ContextLen
    BY <1>1, <2>1, ContextFacts DEF Queued
  <2>3. final.to \in Nat
    <3>1. segs \in Seq(SegType) /\ n \in 1..Len(segs)
      BY <1>1 DEF SegsOK
    <3>2. final \in SegType
      BY <1>1, <3>1, ElementOfSeq
    <3> QED BY <3>2 DEF SegType
  <2> DEFINE a == Context(final.req)
             t == final.to
             y == MaxChunks * ChunkSize
  <2>4. a \in Nat /\ t \in Nat /\ y \in Nat /\ a <= ContextLen /\ ContextLen <= y
    BY <1>4, <2>2, <2>3
  <2> HIDE DEF a, t, y
  <2>5. a <= t + y
    BY <1>4, <2>4
  <2>6. Context(final.req) <= final.to + MaxChunks * ChunkSize /\ MaxChunks \in 0..MaxChunks
    BY <1>4, <2>5 DEF a, t, y
  <2> QED BY <1>2, <1>3, <1>7, <2>6 DEF final
<1>8. CASE Truncated(final) /\ chunk # NoChunk /\ n = 1 /\ rem # ChunkSize
  <2>1. final.req = chunk.req /\ final.to = MinOf(Context(chunk.req), chunk.filled + rem)
    BY <1>1, <1>8 DEF OrderOK, SegsOK
  <2>2. chunk.filled \in Nat /\ chunk.req \in Reqs /\ rem \in Nat
    BY <1>4, <1>8 DEF OverlapInv, PlaceInv, RemTokens
  <2> DEFINE a == Context(chunk.req)
             f == chunk.filled
             t == final.to
             y == m * ChunkSize
  <2>3. a \in Nat /\ f \in Nat /\ t = MinOf(a, f + rem) /\ t < a /\ a <= f + y /\ y \in Nat
    BY <1>4, <1>8, <2>1, <2>2, ContextFacts DEF Truncated, Needs
  <2> HIDE DEF a, f, t, y
  <2>4. a <= t + y
    BY <2>2, <2>3 DEF MinOf
  <2>5. Context(final.req) <= final.to + m * ChunkSize
    BY <2>1, <2>4 DEF a, t, y
  <2>6. m + Bit(rem = ChunkSize) <= m
    BY <1>4, <1>8 DEF Bit
  <2> QED BY <1>2, <1>3, <1>8, <2>5, <2>6 DEF final
<1> QED BY <1>5, <1>6, <1>7, <1>8

LEMMA PickPrefillInv ==
  ASSUME OverlapInv, pc = "pick", NEW rem \in RemTokens, NEW order \in CanRunLists(rem),
         NEW full \in BOOLEAN, PickPrefill(order, rem, full)
  PROVE  OverlapInv'
<1> DEFINE segs == Segments(order, rem)
           n == Len(order)
           final == segs[Len(segs)]
           Extended(f) == [r \in Reqs |-> IF r \in Elements(order) THEN segs[RowOf(order, r)].to
                                          ELSE f[r]]
<1>1. /\ order # <<>> /\ pc = "pick" /\ pc' = "launch"
      /\ cur' = [kind |-> "extend", segs |-> segs]
      /\ committed' = Extended(committed) /\ allocated' = Extended(allocated)
      /\ chunk' = (IF Truncated(final) THEN [req |-> final.req, filled |-> final.to] ELSE NoChunk)
      /\ pending' = [r \in Reqs |-> IF r = final.req /\ Truncated(final) THEN pending[r] + 1
                                    ELSE pending[r]]
      /\ status' = [r \in Reqs |-> IF r \in Elements(order) THEN "active" ELSE status[r]]
      /\ running' = [running EXCEPT !.full = full]
      /\ cuts' = (IF rem < ChunkSize THEN cuts + 1 ELSE cuts)
      /\ UNCHANGED <<out, freed, last, results, ring, future_ct, dev, tail, raised>>
  BY DEF PickPrefill, ringVars
<1>2. OrderOK(order) /\ SegsOK(order, rem, segs)
  <2>1. OrderOK(order) /\ \A i \in 1..n : segs[i].from < segs[i].to
    BY CanRunFacts
  <2>2. rem \in Nat
    BY OverlapAssumption DEF RemTokens
  <2> QED BY <2>1, <2>2, SegmentsFacts
<1> HIDE DEF segs
<1>3. /\ order \in Seq(Reqs) /\ n \in Nat /\ n >= 1 /\ Unique(order)
      /\ \A i \in 1..n : order[i] \in Reqs /\ order[i] \in Elements(order)
      /\ \A r \in Elements(order) : r \in Reqs /\ \E i \in 1..n : order[i] = r
  <2>1. order \in Seq(Reqs) /\ n \in Nat /\ DOMAIN order = 1..n /\ Unique(order)
    BY <1>2, LenProperties DEF OrderOK
  <2>2. n # 0
    BY <1>1, <2>1, EmptySeq
  <2>3. \A i \in 1..n : order[i] \in Reqs
    BY <2>1, ElementOfSeq
  <2> HIDE DEF n
  <2> QED BY <2>1, <2>2, <2>3 DEF Elements
<1>4. /\ segs \in Seq(SegType) /\ Len(segs) = n
      /\ \A i \in 1..n : /\ segs[i] \in SegType /\ segs[i].req = order[i]
                         /\ segs[i].to <= Context(order[i])
      /\ \A i \in 1..n : i # n => segs[i].to = Context(order[i])
  <2>1. segs \in Seq(SegType) /\ Len(segs) = n
    BY <1>2 DEF SegsOK
  <2>2. \A i \in 1..n : segs[i] \in SegType
    BY <2>1, ElementOfSeq
  <2>3. \A i \in 1..n : i # n => i \in 1..(n - 1)
    BY <1>3
  <2> QED BY <1>2, <2>1, <2>2, <2>3 DEF SegsOK
<1>5. \A i \in 1..n : segs[i].to \in Nat \ {0} /\ segs[i].from \in Nat
  BY <1>4 DEF SegType
<1>6. n \in 1..n /\ final = segs[n] /\ final.req = order[n] /\ order[n] \in Reqs
      /\ order[n] \in Elements(order) /\ final.to \in Nat \ {0} /\ final.to <= Context(order[n])
  BY <1>3, <1>4, <1>5
<1> HIDE DEF final
<1>7. /\ RowOf(order, order[n]) = n
      /\ \A i \in 1..n : RowOf(order, order[i]) = i
      /\ \A i, j \in 1..n : order[i] = order[j] => i = j
  BY <1>3, <1>6, RowOfFacts DEF Unique
<1>8. /\ cur'.kind = "extend" /\ cur'.segs = segs
      /\ cur' = [kind |-> cur'.kind, segs |-> cur'.segs]
  BY <1>1
<1>9. /\ cur = NoSegs /\ cur.kind = "none" /\ cur.segs = <<>> /\ Unmerged = EmptyBatch
      /\ Unmerged' = EmptyBatch /\ BatchOK(running) /\ Len(results) \in Nat
  BY <1>1, LenProperties DEF OverlapInv, LoopInv, Unmerged, NoSegs, ResultsInv
<1>10. /\ BatchOK(running') /\ running'.reqs = running.reqs /\ running'.futures = running.futures
       /\ running'.rows = running.rows /\ Len(running.reqs) \in Nat
       /\ \A r \in Elements(running.reqs) : r \in Reqs
  BY <1>1, <1>9, FullSet, BatchTypes DEF BatchOK
<1>11. \A r \in Elements(order) : Queued(r) \/ InChunk(r)
  <2>1. ASSUME NEW i \in 1..n PROVE Queued(order[i]) \/ InChunk(order[i])
    <3>1. CASE chunk = NoChunk
      BY <1>2, <3>1 DEF OrderOK
    <3>2. CASE chunk # NoChunk /\ i = 1
      BY <1>2, <3>2 DEF OrderOK, InChunk
    <3>3. CASE chunk # NoChunk /\ i # 1
      <4>1. i \in 2..n
        BY <1>3, <3>3
      <4> QED BY <1>2, <3>3, <4>1 DEF OrderOK
    <3> QED BY <3>1, <3>2, <3>3
  <2> QED BY <1>3, <2>1
<1>12. \A r : InChunk(r) => r \in Elements(order) /\ status[r] = "active" /\ ~InRows(running, r)
  <2>1. SUFFICES ASSUME NEW r, InChunk(r)
                 PROVE  r \in Elements(order) /\ status[r] = "active" /\ ~InRows(running, r)
    OBVIOUS
  <2>2. chunk # NoChunk /\ chunk.req = r
    BY <2>1 DEF InChunk
  <2>3. n >= 1 /\ order[1] = r
    BY <1>2, <2>2 DEF OrderOK
  <2>4. 1 \in 1..n
    BY <1>3
  <2> QED BY <1>3, <2>2, <2>3, <2>4 DEF OverlapInv, PlaceInv
<1>13. \A r \in Elements(order) : ~InRows(running, r) /\ status[r] # "finished"
  <2>1. \A r \in Elements(running.reqs) : status[r] \in {"active", "finished"}
    BY DEF OverlapInv, PlaceInv
  <2> QED BY <1>11, <1>12, <2>1 DEF InRows, Queued
<1>14. \A r : InChunk(r)' <=> r = final.req /\ Truncated(final)
  <2>1. [req |-> final.req, filled |-> final.to] # NoChunk
    BY DEF NoChunk
  <2> QED BY <1>1, <2>1 DEF InChunk
<1>15. \A r : Context(r)' = Context(r)
  BY <1>1 DEF Context
<1>16. /\ \A r : InSegs(r)' <=> r \in Elements(order)
       /\ \A r : InRows(running, r)' <=> InRows(running, r)
       /\ \A r : ~InRows(Unmerged, r)' /\ ~InRows(Unmerged, r) /\ ~InSegs(r)
  <2>1. \A r : InSegs(r)' <=> \E i \in 1..n : order[i] = r
    BY <1>4, <1>8 DEF InSegs
  <2>2. \A r : InSegs(r)' <=> r \in Elements(order)
    BY <1>3, <2>1
  <2> QED BY <1>9, <1>10, <2>2, EmptyBatchFacts, EmptyList DEF InRows, InSegs
<1>17. \A r \in Reqs : /\ r \in Elements(order) => status'[r] = "active"
                       /\ r \notin Elements(order) =>
                            status'[r] = status[r] /\ committed'[r] = committed[r]
                            /\ pending'[r] = pending[r]
  BY <1>1, <1>6
<1>18. \A i \in 1..n : committed'[order[i]] = segs[i].to
  BY <1>1, <1>3, <1>7
<1>19. LoopInv'
  <2>1. Len(results) = IF last.kind = "none" THEN 0 ELSE 1
    BY <1>1 DEF OverlapInv, LoopInv
  <2>2. cur'.segs # <<>>
    BY <1>3, <1>4, <1>8, EmptyList
  <2> QED BY <1>1, <1>8, <1>9, <1>10, <2>1, <2>2 DEF OverlapInv, LoopInv
<1>20. ResultsInv'
  BY <1>1 DEF OverlapInv, ResultsInv, ResultOK
<1>21. ReqInv'
  <2>1. \A r \in Elements(order) : segs[RowOf(order, r)].to \in Nat
    BY <1>3, <1>5, <1>7
  <2>2. /\ committed' \in [Reqs -> Int] /\ allocated' \in [Reqs -> Int]
    <3>1. ASSUME NEW f \in [Reqs -> Int] PROVE Extended(f) \in [Reqs -> Int]
      BY <2>1
    <3>2. committed \in [Reqs -> Int] /\ allocated \in [Reqs -> Int]
      BY DEF OverlapInv, ReqInv
    <3> HIDE DEF Extended
    <3> QED BY <1>1, <3>1, <3>2
  <2>3. pending' \in [Reqs -> Int]
    BY <1>1 DEF OverlapInv, ReqInv
  <2>4. status' \in [Reqs -> {"new", "waiting", "retracted", "active", "finished"}]
    BY <1>1 DEF OverlapInv, ReqInv
  <2>5. \A r \in Reqs : /\ status'[r] # "finished" => status[r] # "finished"
                        /\ status'[r] # "active" => pending'[r] = 0
                        /\ freed[r] => status'[r] = "finished"
    BY <1>13, <1>17 DEF OverlapInv, ReqInv
  <2> QED BY <1>1, <2>2, <2>3, <2>4, <2>5 DEF OverlapInv, ReqInv
<1>22. PlaceInv'
  <2>1. \A r \in Elements(running.reqs) : status'[r] \in {"active", "finished"}
    BY <1>10, <1>17 DEF OverlapInv, PlaceInv
  <2>2. ASSUME NEW i \in 1..n PROVE SegOK(cur.segs[i])'
    <3>1. segs[i] \in SegType /\ segs[i].req = order[i] /\ order[i] \in Elements(order)
          /\ order[i] \in Reqs /\ segs[i].to <= Context(order[i])
      BY <1>3, <1>4
    <3>2. status'[order[i]] = "active" /\ ~InRows(running, order[i])' /\ committed'[order[i]] = segs[i].to
      BY <1>13, <1>16, <1>17, <1>18, <3>1
    <3>3. segs[i].to < Context(order[i]) <=> InChunk(order[i])'
      <4>1. CASE i = n
        BY <1>6, <1>14, <4>1 DEF Truncated
      <4>2. CASE i # n
        <5>1. segs[i].to = Context(order[i]) /\ order[i] # order[n]
          BY <1>4, <1>6, <1>7, <4>2
        <5>2. segs[i].to \in Nat
          BY <1>5
        <5> DEFINE t == segs[i].to
        <5>3. t \in Nat /\ t = Context(order[i])
          BY <5>1, <5>2
        <5> HIDE DEF t
        <5>4. ~(t < Context(order[i]))
          BY <5>3
        <5> QED BY <1>6, <1>14, <5>1, <5>4 DEF t
      <4> QED BY <4>1, <4>2
    <3>4. cur'.segs[i] = segs[i]
      BY <1>8
    <3>5. /\ InRows(running, cur.segs[i].req)' <=> InRows(running, order[i])'
          /\ InChunk(cur.segs[i].req)' <=> InChunk(order[i])'
          /\ Context(cur.segs[i].req)' = Context(order[i])
      BY <1>1, <3>1, <3>4 DEF InRows, InChunk, Context
    <3> QED BY <3>1, <3>2, <3>3, <3>4, <3>5 DEF SegOK, SegType
  <2>3. \A i, j \in 1..n : segs[i].req = segs[j].req => i = j
    BY <1>4, <1>7
  <2>4. chunk' # NoChunk =>
          /\ chunk' \in [req : Reqs, filled : Nat \ {0}]
          /\ status'[chunk'.req] = "active" /\ ~InRows(running, chunk'.req)
          /\ chunk'.filled < Context(chunk'.req)
          /\ chunk'.req \in Elements(order)
          /\ \A i \in 1..n : segs[i].req = chunk'.req => segs[i].to = chunk'.filled
    <3>1. SUFFICES ASSUME chunk' # NoChunk, Truncated(final)
                   PROVE  /\ chunk' \in [req : Reqs, filled : Nat \ {0}]
                          /\ status'[chunk'.req] = "active" /\ ~InRows(running, chunk'.req)
                          /\ chunk'.filled < Context(chunk'.req)
                          /\ chunk'.req \in Elements(order)
                          /\ \A i \in 1..n : segs[i].req = chunk'.req => segs[i].to = chunk'.filled
      BY <1>1
    <3>2. chunk' = [req |-> final.req, filled |-> final.to]
      BY <1>1, <3>1
    <3>3. chunk'.req = order[n] /\ chunk'.filled = final.to
      BY <1>6, <3>2
    <3>4. \A i \in 1..n : segs[i].req = order[n] => i = n
      BY <1>4, <1>6, <1>7
    <3> QED BY <1>6, <1>13, <1>17, <3>1, <3>2, <3>3, <3>4 DEF Truncated
  <2>5. chunk' # NoChunk =>
          /\ ~InRows(running, chunk.req)' /\ chunk'.filled < Context(chunk.req)'
          /\ InSegs(chunk.req)'
    <3>1. InRows(running, chunk.req)' <=> InRows(running, chunk'.req)
      BY <1>10 DEF InRows
    <3>2. Context(chunk.req)' = Context(chunk'.req)
      BY <1>1 DEF Context
    <3>3. InSegs(chunk.req)' <=> \E i \in 1..n : segs[i].req = chunk'.req
      BY <1>4, <1>8 DEF InSegs
    <3> QED BY <1>3, <1>4, <2>4, <3>1, <3>2, <3>3
  <2>6. \A r \in Reqs : status'[r] = "active" => InRows(running, r)' \/ InSegs(r)'
    <3>1. \A r \in Reqs : status[r] = "active" => InRows(running, r) \/ InChunk(r)
      BY <1>16 DEF OverlapInv, PlaceInv
    <3> QED BY <1>12, <1>16, <1>17, <3>1
  <2>7. \A r \in Elements(Unmerged'.reqs) : FALSE
    BY <1>9, EmptyBatchFacts
  <2>8. \A i \in 1..Len(cur'.segs) : SegOK(cur.segs[i])'
    BY <1>4, <1>8, <2>2
  <2> QED BY <1>1, <1>4, <1>8, <1>10, <2>1, <2>3, <2>4, <2>5, <2>6, <2>7, <2>8, ZenonT(30)
          DEF PlaceInv, SegType
<1>23. TokenInv'
  <2>1. \A r, k : /\ Holds(k, r)' <=> Holds(k, r)
                  /\ RowIn(k, r)' = RowIn(k, r)
                  /\ Short(k, r)' <=> Short(k, r)
                  /\ Full(k, r)' <=> Full(k, r)
                  /\ Gain(k, r)' = Gain(k, r)
    BY <1>1, <1>15 DEF Holds, RowIn, Short, Full, Gain
  <2>2. \A r : InFlight(r)' = InFlight(r)
    BY <1>1 DEF InFlight, Accepted
  <2>3. \A r \in Reqs, k \in {1, 2} : Holds(k, r) => status[r] \in {"active", "finished"}
    BY <1>1 DEF OverlapInv, TokenInv, HeldOK
  <2>4. \A r \in Reqs, k \in {1, 2} : Holds(k, r) => HeldOK(k, r)'
    BY <1>17, <2>3 DEF HeldOK
  <2>5. ASSUME NEW r \in Reqs, status'[r] = "active"
        PROVE  PendingOK(r)' /\ (Decoding(r)' => CountOK(r)')
    <3>1. CASE r \notin Elements(order)
      <4>1. status[r] = "active" /\ pending'[r] = pending[r] /\ committed'[r] = committed[r]
        BY <1>17, <2>5, <3>1
      <4>2. PendingOK(r) /\ (Decoding(r) => CountOK(r))
        BY <4>1 DEF OverlapInv, TokenInv
      <4>3. ~InChunk(r) /\ ~InChunk(r)'
        BY <1>6, <1>12, <1>14, <3>1
      <4>4. PendingOK(r)'
        BY <1>16, <2>1, <3>1, <4>1, <4>2, <4>3 DEF PendingOK, Bit, Prefilling
      <4>5. Decoding(r)' => Decoding(r)
        BY <1>16 DEF Decoding
      <4>6. Decoding(r)' => CountOK(r)'
        BY <1>1, <1>15, <2>1, <2>2, <4>1, <4>2, <4>5 DEF CountOK
      <4> QED BY <4>4, <4>6
    <3>2. CASE r \in Elements(order)
      <4>1. ~Decoding(r)'
        BY <1>13, <1>16, <3>2 DEF Decoding
      <4>2. pending'[r] = pending[r] + Bit(InChunk(r)')
        BY <1>1, <1>14 DEF OverlapInv, ReqInv, Bit
      <4>3. /\ pending[r] = Bit(Short(1, r)) + Bit(Short(2, r)) + 0
            /\ Short(2, r) /\ Holds(1, r) => Short(1, r)
            /\ \A k \in {1, 2} : Holds(k, r) => Short(k, r)
        <5>1. CASE InChunk(r)
          <6>1. PendingOK(r)
            BY <1>12, <5>1 DEF OverlapInv, TokenInv
          <6> QED BY <1>1, <5>1, <6>1 DEF PendingOK, Prefilling, Bit
        <5>2. CASE Queued(r)
          <6>1. \A k \in {1, 2} : ~Holds(k, r)
            BY <2>3, <5>2 DEF Queued
          <6>2. pending[r] = 0
            BY <5>2 DEF OverlapInv, ReqInv, Queued
          <6> QED BY <6>1, <6>2 DEF Short, Bit
        <5> QED BY <1>11, <3>2, <5>1, <5>2
      <4>4. PendingOK(r)'
        BY <1>1, <2>1, <4>2, <4>3 DEF PendingOK, Bit
      <4> QED BY <4>1, <4>4
    <3> QED BY <3>1, <3>2
  <2> QED BY <1>1, <2>1, <2>4, <2>5 DEF TokenInv, FreshOK
<1>24. RowsInv'
  <2>1. \A i \in 1..Len(running.reqs) : RowOK(running, i)'
    BY <1>1, <1>10 DEF OverlapInv, RowsInv, RowOK, Entry
  <2>2. \A i \in 1..Len(Unmerged'.reqs) : FALSE
    BY <1>9, EmptyBatchFacts
  <2> QED BY <1>1, <1>10, <2>1, <2>2 DEF OverlapInv, RowsInv
<1>25. PassInv'
  BY <1>1, <1>8 DEF PassInv
<1>26. RingInv'
  <2> DEFINE x == Len(running.reqs)
             b == Bit(chunk # NoChunk)
             l == MaxRunning
             c == MaxChunks
  <2>1. b \in {0, 1} /\ (chunk = NoChunk => b = 0) /\ (chunk # NoChunk => b = 1)
    BY DEF Bit
  <2>2. x \in Nat /\ l \in Nat /\ c \in Nat
    BY <1>10, RingFacts, ChunksFacts
  <2>3. Taken = x + 0 + 0 + b
    BY <1>1, <1>9, EmptyBatchFacts, EmptyList DEF Taken, Bit
  <2>4. Taken' = x + 0 + n + 0
    BY <1>1, <1>4, <1>8, <1>9, <1>10, EmptyBatchFacts DEF Taken, Bit
  <2>5. PICK m \in 0..(MaxChunks + MaxCuts) :
               Rounds(m) /\ Reach(running, m) /\ Reach(Unmerged, m)
    BY <1>9 DEF OverlapInv, RingInv
  <2>20. PICK j \in 0..MaxChunks : Needs(j) /\ m = j + (MaxCuts - cuts)
    BY <2>5 DEF Rounds
  <2>6. /\ chunk = NoChunk => j = 0
        /\ chunk # NoChunk => j >= 1
        /\ \E k \in 0..MaxChunks :
             /\ chunk # NoChunk /\ n = 1 => k + Bit(rem = ChunkSize) <= j
             /\ IF Truncated(final) THEN Context(final.req) <= final.to + k * ChunkSize
                ELSE k = 0
    BY <1>2, <1>3, <2>20, NextRounds DEF final
  <2>7. PICK h \in 0..MaxChunks :
             /\ chunk # NoChunk /\ n = 1 => h + Bit(rem = ChunkSize) <= j
             /\ IF Truncated(final) THEN Context(final.req) <= final.to + h * ChunkSize
                ELSE h = 0
    BY <2>6
  <2>23. PICK k : k = h + (MaxCuts - cuts')
    OBVIOUS
  <2> DEFINE d == 1 - Bit(rem = ChunkSize)
  <2>21. /\ d \in {0, 1} /\ d + Bit(rem = ChunkSize) = 1 /\ Bit(rem = ChunkSize) \in {0, 1}
         /\ cuts' = cuts + d /\ cuts \in 0..MaxCuts /\ cuts' \in 0..MaxCuts /\ MaxCuts \in Nat
    <3>1. cuts \in 0..MaxCuts /\ MaxCuts \in Nat
      BY RingFacts DEF OverlapInv, RingInv
    <3>2. CASE rem = ChunkSize
      BY <1>1, <3>1, <3>2, OverlapAssumption DEF Bit
    <3>3. CASE rem # ChunkSize
      <4>1. rem < ChunkSize /\ cuts < MaxCuts
        BY <3>3, OverlapAssumption DEF RemTokens
      <4> QED BY <1>1, <3>1, <3>3, <4>1 DEF Bit
    <3> QED BY <3>2, <3>3
  <2>22. k \in 0..(MaxChunks + MaxCuts) /\ k \in Nat
    BY <2>7, <2>21, <2>23, ChunksFacts
  <2> HIDE DEF d
  <2>8. Rounds(k)'
    <3>1. CASE Truncated(final)
      <4>1. chunk' = [req |-> final.req, filled |-> final.to] /\ chunk' # NoChunk
        BY <1>1, <3>1 DEF NoChunk
      <4>2. Context(chunk.req)' = Context(final.req)
        BY <1>1, <4>1 DEF Context
      <4>3. Needs(h)'
        BY <2>7, <3>1, <4>1, <4>2 DEF Needs
      <4> QED BY <2>23, <4>3 DEF Rounds
    <3>2. CASE ~Truncated(final)
      <4>1. Needs(h)'
        BY <1>1, <2>7, <3>2 DEF Needs
      <4> QED BY <2>23, <4>1 DEF Rounds
    <3> QED BY <3>1, <3>2
  <2>9. x + b <= l
    BY <2>1, <2>2, <2>3 DEF OverlapInv, RingInv
  <2>10. x + n <= l
    <3>1. CASE n > b
      BY <1>2, <3>1 DEF OrderOK
    <3>2. CASE ~(n > b)
      <4> HIDE DEF n, b, x, l
      <4>1. n = 1 /\ b = 1
        BY <1>3, <2>1, <3>2
      <4> QED BY <2>9, <4>1
    <3> QED BY <3>1, <3>2
  <2> HIDE DEF x, b, l, c, n
  <2>11. n + (l - (x + n)) * (c + 1) + k <= (l - (x + b)) * (c + 1) + m
    <3>1. /\ b = 1 => j + d >= 1
          /\ b = 1 /\ n = 1 => h + 1 <= j + d
      BY <2>1, <2>6, <2>7, <2>21
    <3>2. h \in Nat /\ h <= c /\ j \in Nat /\ j + d \in Nat
      BY <2>2, <2>21 DEF c
    <3>3. n + (l - (x + n)) * (c + 1) + h <= (l - (x + b)) * (c + 1) + (j + d)
      BY <1>3, <2>1, <2>2, <2>9, <2>10, <3>1, <3>2, SpareArith
    <3> DEFINE u == (l - (x + n)) * (c + 1)
               v == (l - (x + b)) * (c + 1)
    <3>4. u \in Int /\ v \in Int /\ n + u + h <= v + (j + d)
      BY <1>3, <2>1, <2>2, <3>3
    <3>5. k = h + (MaxCuts - (cuts + d)) /\ m = j + (MaxCuts - cuts)
      BY <2>20, <2>21, <2>23
    <3> HIDE DEF u, v
    <3>6. n + u + k <= v + m
      BY <1>3, <2>21, <3>2, <3>4, <3>5
    <3> QED BY <3>6 DEF u, v
  <2>12. Spare(m) = FutureLimit - 1 - (0 + (l - (x + b)) * (c + 1) + m)
    <3>1. Taken = x + b /\ Len(cur.segs) = 0
      BY <1>9, <2>1, <2>2, <2>3, EmptyList
    <3> QED BY <3>1 DEF Spare, l, c
  <2>13. Spare(k)' = FutureLimit - 1 - (n + (l - (x + n)) * (c + 1) + k)
    <3>1. Taken' = x + n /\ Len(cur'.segs) = n
      BY <1>3, <1>4, <1>8, <2>2, <2>4
    <3> QED BY <3>1 DEF Spare, l, c
  <2>14. Spare(k)' \in Int /\ Spare(m) \in Int /\ Spare(m) <= Spare(k)'
    <3> DEFINE u == (l - (x + n)) * (c + 1)
               v == (l - (x + b)) * (c + 1)
    <3>1. u \in Int /\ v \in Int
      BY <1>3, <2>1, <2>2
    <3>2. k \in Int /\ m \in Int /\ n \in Int /\ FutureLimit \in Int
      BY <1>3, <2>22, ChunksFacts, RingFacts
    <3>3. n + u + k <= v + m
      BY <2>11
    <3>4. Spare(m) = FutureLimit - 1 - (0 + v + m) /\ Spare(k)' = FutureLimit - 1 - (n + u + k)
      BY <2>12, <2>13
    <3> HIDE DEF u, v
    <3> QED BY <3>1, <3>2, <3>3, <3>4
  <2>15. \A i, e : Ago(i, e)' <=> Ago(i, e)
    BY <1>1 DEF Ago
  <2>16. \A e \in 0..Spare(m) : e \in 0..Spare(k)'
    BY <2>14
  <2>17. Reach(running, k)'
    BY <1>10, <2>5, <2>15, <2>16 DEF Reach
  <2>18. Reach(Unmerged, k)'
    BY <1>9, EmptyBatchFacts DEF Reach
  <2>19. Taken' <= MaxRunning
    BY <1>3, <2>2, <2>4, <2>10 DEF l
  <2> QED BY <1>1, <2>8, <2>17, <2>18, <2>19, <2>21, <2>22 DEF OverlapInv, RingInv
<1> QED BY <1>19, <1>20, <1>21, <1>22, <1>23, <1>24, <1>25, <1>26 DEF OverlapInv

-----------------------------------------------------------------------------
(* PickDecode. *)

\* A result's row for a request.
LEMMA ResultRow ==
  ASSUME OverlapInv, NEW k, NEW r, Holds(k, r)
  PROVE  /\ r \in Reqs /\ RowIn(k, r).first \in Nat /\ RowIn(k, r).n \in Nat
         /\ 1 <= RowIn(k, r).n /\ RowIn(k, r).n <= MaxAccept + 1
         /\ results[k].kind \in {"extend", "decode"}
         /\ results[k].kind = "extend" => RowIn(k, r).n = 1
<1>1. k \in 1..Len(results) /\ r \in Elements(results[k].reqs)
  BY DEF Holds
<1> DEFINE res == results[k]
<1>2. res \in ResultType /\ ResultOK(res)
  <2>1. results \in Seq(ResultType) /\ \A j \in 1..Len(results) : ResultOK(results[j])
    BY DEF OverlapInv, ResultsInv
  <2> QED BY <1>1, <2>1, ElementOfSeq
<1> HIDE DEF res
<1>3. /\ res.reqs \in Seq(Reqs) /\ res.rows \in Seq(TokensType) /\ Len(res.rows) = Len(res.reqs)
      /\ Unique(res.reqs) /\ res.kind \in {"extend", "decode"}
  BY <1>2 DEF ResultType, ResultOK
<1> DEFINE i == RowOf(res.reqs, r)
<1>4. i \in 1..Len(res.reqs) /\ res.reqs[i] = r
  BY <1>1, <1>3, RowOfFacts DEF res
<1> HIDE DEF i
<1>5. r \in Reqs /\ res.rows[i] \in TokensType
  BY <1>3, <1>4, ElementOfSeq
<1>6. RowIn(k, r) = res.rows[i]
  BY DEF RowIn, res, i
<1>7. 1 <= res.rows[i].n /\ res.rows[i].n <= MaxAccept + 1 /\ (res.kind = "extend" => res.rows[i].n = 1)
  BY <1>2, <1>4 DEF ResultOK
<1> QED BY <1>3, <1>5, <1>6, <1>7 DEF TokensType, res

LEMMA AcceptedFacts ==
  ASSUME OverlapInv, NEW r, NEW k \in {1, 2}
  PROVE  /\ Accepted(k, r) \in 0..(MaxAccept + 1)
         /\ Accepted(k, r) = IF Holds(k, r) /\ results[k].kind = "decode" THEN RowIn(k, r).n ELSE 0
         /\ k > Len(results) => Accepted(k, r) = 0
<1>1. Len(results) \in Nat /\ MaxAccept \in Nat
  BY LenProperties, OverlapAssumption DEF OverlapInv, ResultsInv
<1>2. k \in 1..Len(results) <=> k <= Len(results)
  <2> DEFINE l == Len(results)
  <2>1. l \in Nat
    BY <1>1
  <2> HIDE DEF l
  <2>2. k \in 1..l <=> k <= l
    BY <2>1
  <2> QED BY <2>2 DEF l
<1>3. Accepted(k, r) = IF Holds(k, r) /\ results[k].kind = "decode" THEN RowIn(k, r).n ELSE 0
  BY <1>2 DEF Accepted, Holds, RowIn
<1>4. Holds(k, r) => RowIn(k, r).n \in 0..(MaxAccept + 1)
  <2>1. SUFFICES ASSUME Holds(k, r) PROVE RowIn(k, r).n \in 0..(MaxAccept + 1)
    OBVIOUS
  <2> DEFINE a == RowIn(k, r).n
  <2>2. a \in Nat /\ a <= MaxAccept + 1
    BY <2>1, ResultRow
  <2> HIDE DEF a
  <2>3. a \in 0..(MaxAccept + 1)
    BY <1>1, <2>2
  <2> QED BY <2>3 DEF a
<1>5. k > Len(results) => ~Holds(k, r)
  <2> DEFINE l == Len(results)
  <2>1. l \in Nat
    BY <1>1
  <2> HIDE DEF l
  <2>2. k > l => ~(k \in 1..l)
    BY <2>1
  <2> QED BY <2>2 DEF Holds, l
<1>6. 0 \in 0..(MaxAccept + 1)
  BY <1>1
<1> QED BY <1>3, <1>4, <1>5, <1>6

\* What update_running_batch leaves of the running batch b: rows of live requests,
\* and the live requests that are not among them were retracted.
DecodeDone(b, final, dropped, kept) ==
  /\ BatchOK(final) /\ Len(final.reqs) = kept
  /\ \A j \in 1..Len(final.reqs) : \E k \in 1..Len(b.reqs) : RowFrom(final, j, b, k)
  /\ \A r \in Elements(final.reqs) : InRows(b, r) /\ status[r] # "finished" /\ r \notin dropped
  /\ \A r \in dropped : InRows(b, r) /\ status[r] # "finished"
  /\ \A r \in Elements(b.reqs) : status[r] # "finished" => r \in dropped \/ InRows(final, r)
  /\ ~tail => \A j \in 1..Len(final.reqs) : \E k \in 1..Len(b.reqs) : final.lens[j] = b.lens[k]

LEMMA DecodeRows ==
  ASSUME OverlapInv, running.reqs # <<>>, NEW kept,
         NEW read, read = [running EXCEPT !.lens = IF last.kind = "decode" THEN ReadLens(@) ELSE @],
         NEW alive, alive = Ascending({i \in 1..Len(running.reqs) : KeptInDecode(running.reqs[i])}),
         NEW batch, batch = Filtered(read, alive), kept \in Retractions(Len(batch.reqs)),
         NEW final, final = Filtered(batch, [i \in 1..kept |-> i]),
         NEW dropped, dropped = Elements(batch.reqs) \ Elements(final.reqs)
  PROVE  DecodeDone(running, final, dropped, kept)
<1> DEFINE n == Len(running.reqs)
           K == {i \in 1..n : KeptInDecode(running.reqs[i])}
<1>1. /\ BatchOK(running) /\ running \in BatchType /\ n \in Nat
      /\ \A i \in 1..n : running.reqs[i] \in Elements(running.reqs)
      /\ \A r \in Elements(running.reqs) : \E i \in 1..n : running.reqs[i] = r
  BY BatchTypes DEF OverlapInv, LoopInv, BatchOK
<1>2. /\ BatchOK(read) /\ read.reqs = running.reqs /\ read.futures = running.futures
      /\ read.rows = running.rows /\ (~tail => read.lens = running.lens)
  <2>1. CASE last.kind = "decode"
    <3>1. read = [running EXCEPT !.lens = ReadLens(@)]
      BY <2>1
    <3> QED BY <1>1, <3>1, LensRead DEF ReadLens
  <2>2. CASE last.kind # "decode"
    <3>1. read = running
      BY <1>1, <2>2 DEF BatchType
    <3> QED BY <1>1, <3>1
  <2> QED BY <2>1, <2>2
<1>3. KeepOK(alive, n) /\ Elements(alive) = K /\ Len(alive) \in Nat
  <2>1. K \in SUBSET (1..n)
    OBVIOUS
  <2> QED BY <1>1, <2>1, KeepRows
<1>4. FilterDone(read, alive, batch)
  BY <1>2, <1>3, FilterFacts
<1>5. /\ BatchOK(batch) /\ batch \in BatchType /\ Len(batch.reqs) \in Nat
      /\ \A i \in 1..Len(batch.reqs) : batch.reqs[i] \in Elements(batch.reqs)
      /\ \A r \in Elements(batch.reqs) : \E i \in 1..Len(batch.reqs) : batch.reqs[i] = r
  <2>1. BatchOK(batch)
    BY <1>4 DEF FilterDone
  <2> QED BY <2>1, BatchTypes DEF BatchOK
<1>6. kept \in 0..Len(batch.reqs)
  BY <1>5 DEF Retractions
<1>7. KeepOK([i \in 1..kept |-> i], Len(batch.reqs)) /\ Len([i \in 1..kept |-> i]) = kept
      /\ Elements([i \in 1..kept |-> i]) = 1..kept
  BY <1>5, <1>6, FrontRows
<1>8. FilterDone(batch, [i \in 1..kept |-> i], final)
  BY <1>5, <1>7, FilterFacts
<1>9. BatchOK(final) /\ final \in BatchType /\ Len(final.reqs) = kept
  BY <1>7, <1>8 DEF FilterDone, BatchOK
<1>10. /\ \A i \in 1..Len(final.reqs) : final.reqs[i] \in Elements(final.reqs)
       /\ \A r \in Elements(final.reqs) : \E i \in 1..Len(final.reqs) : final.reqs[i] = r
  BY <1>9, BatchTypes
<1>11. ASSUME NEW j \in 1..Len(batch.reqs)
       PROVE  \E k \in 1..n : KeptInDecode(running.reqs[k]) /\ SameRow(batch, j, read, k)
  <2>1. PICK k \in Elements(alive) : SameRow(batch, j, read, k)
    BY <1>4 DEF FilterDone
  <2> QED BY <1>3, <2>1
<1>12. ASSUME NEW j \in 1..Len(final.reqs)
       PROVE  \E k \in 1..Len(batch.reqs) : SameRow(final, j, batch, k)
  <2>1. PICK k \in Elements([i \in 1..kept |-> i]) : SameRow(final, j, batch, k)
    BY <1>8 DEF FilterDone
  <2>2. k \in 1..Len(batch.reqs)
    BY <1>5, <1>6, <1>7
  <2> QED BY <2>1, <2>2
<1>13. ASSUME NEW j \in 1..Len(final.reqs)
       PROVE  \E k \in 1..n : SameRow(final, j, read, k)
  <2>1. PICK k \in 1..Len(batch.reqs) : SameRow(final, j, batch, k)
    BY <1>12
  <2>2. PICK l \in 1..n : SameRow(batch, k, read, l)
    BY <1>11
  <2>3. SameRow(final, j, read, l)
    BY <2>1, <2>2 DEF SameRow
  <2> QED BY <2>3
<1>14. \A r \in Elements(batch.reqs) : InRows(running, r) /\ status[r] # "finished"
  <2>1. SUFFICES ASSUME NEW r \in Elements(batch.reqs)
                 PROVE  InRows(running, r) /\ status[r] # "finished"
    OBVIOUS
  <2>2. PICK j \in 1..Len(batch.reqs) : batch.reqs[j] = r
    BY <1>5
  <2>3. PICK k \in 1..n : KeptInDecode(running.reqs[k]) /\ SameRow(batch, j, read, k)
    BY <1>11
  <2> QED BY <1>1, <1>2, <2>2, <2>3 DEF SameRow, KeptInDecode, InRows
<1>15. ASSUME NEW r \in Elements(final.reqs) PROVE r \in Elements(batch.reqs)
  <2>1. PICK j \in 1..Len(final.reqs) : final.reqs[j] = r
    BY <1>10
  <2>2. PICK k \in 1..Len(batch.reqs) : SameRow(final, j, batch, k)
    BY <1>12
  <2> QED BY <1>5, <2>1, <2>2 DEF SameRow
<1>16. ASSUME NEW r \in Elements(running.reqs), status[r] # "finished"
       PROVE  r \in dropped \/ InRows(final, r)
  <2>1. PICK k \in 1..n : running.reqs[k] = r
    BY <1>1
  <2>2. k \in Elements(alive)
    BY <1>3, <1>16, <2>1 DEF KeptInDecode
  <2>3. PICK j \in 1..Len(batch.reqs) : SameRow(batch, j, read, k)
    BY <1>4, <2>2 DEF FilterDone
  <2>4. r \in Elements(batch.reqs)
    BY <1>2, <1>5, <2>1, <2>3 DEF SameRow
  <2> QED BY <2>4 DEF InRows
<1>17. \A j, k : SameRow(final, j, read, k) => RowFrom(final, j, running, k)
  BY <1>2 DEF SameRow, RowFrom
<1>18. ~tail => \A j \in 1..Len(final.reqs) : \E k \in 1..n : final.lens[j] = running.lens[k]
  BY <1>2, <1>13 DEF SameRow
<1> QED BY <1>9, <1>13, <1>14, <1>15, <1>16, <1>17, <1>18 DEF DecodeDone

LEMMA PickDecodeInv ==
  ASSUME OverlapInv, NEW full \in BOOLEAN, NEW kept \in 0..Len(running.reqs),
         PickDecode(full, kept)
  PROVE  OverlapInv'
<1> DEFINE read == [running EXCEPT !.lens = IF last.kind = "decode" THEN ReadLens(@) ELSE @]
           alive == Ascending({i \in 1..Len(running.reqs) : KeptInDecode(running.reqs[i])})
           batch == Filtered(read, alive)
           final == Filtered(batch, [i \in 1..kept |-> i])
           dropped == Elements(batch.reqs) \ Elements(final.reqs)
           Reset(f, v) == [r \in Reqs |-> IF r \in dropped THEN v ELSE f[r]]
<1>1. /\ pc = "pick" /\ pc' = "launch" /\ chunk = NoChunk /\ running.reqs # <<>>
      /\ (MustWait => ~tail) /\ kept \in Retractions(Len(batch.reqs))
      /\ running' = [final EXCEPT !.full = FullAfterDecode(full, kept)]
      /\ raised' = (raised \/ \E r \in dropped : freed[r])
      /\ status' = Reset(status, "retracted") /\ committed' = Reset(committed, 0)
      /\ freed' = Reset(freed, FALSE) /\ pending' = Reset(pending, 0)
      /\ allocated' = [r \in Reqs |-> IF r \in dropped THEN 0
                         ELSE IF r \in Elements(final.reqs) THEN AllocAhead(r) ELSE allocated[r]]
      /\ cur' = [kind |-> IF kept = 0 THEN "none" ELSE "decode", segs |-> <<>>]
      /\ UNCHANGED <<out, chunk, cuts, last, results, ring, future_ct, dev, tail>>
  BY DEF PickDecode, ringVars
<1>2. DecodeDone(running, final, dropped, kept)
  BY <1>1, DecodeRows
<1> HIDE DEF final, dropped, batch, read, alive
<1>3. /\ BatchOK(final) /\ final \in BatchType /\ Len(final.reqs) = kept /\ kept \in Nat
      /\ BatchOK(running) /\ running \in BatchType /\ Len(running.reqs) \in Nat
      /\ (kept = 0 <=> final.reqs = <<>>)
      /\ \A r \in Elements(running.reqs) : r \in Reqs
  <2>1. BatchOK(final) /\ Len(final.reqs) = kept /\ BatchOK(running)
    BY <1>2 DEF DecodeDone, OverlapInv, LoopInv
  <2>2. Len(running.reqs) \in Nat
    BY <2>1, BatchTypes DEF BatchOK
  <2>3. kept \in Nat
    BY <2>2
  <2> QED BY <2>1, <2>2, <2>3, BatchTypes DEF BatchOK
<1>4. /\ BatchOK(running') /\ running'.reqs = final.reqs /\ running'.futures = final.futures
      /\ running'.rows = final.rows /\ running'.lens = final.lens
  <2>1. FullAfterDecode(full, kept) \in BOOLEAN
    BY DEF FullAfterDecode
  <2> QED BY <1>1, <1>3, <2>1, FullSet
<1>5. /\ cur = NoSegs /\ cur.kind = "none" /\ cur.segs = <<>> /\ Unmerged = EmptyBatch
      /\ Unmerged' = EmptyBatch /\ Len(results) \in Nat /\ Len(results) <= 1
      /\ Len(results) = (IF last.kind = "none" THEN 0 ELSE 1)
  <2>1. /\ cur = NoSegs /\ cur.kind = "none" /\ cur.segs = <<>> /\ Unmerged = EmptyBatch
        /\ Unmerged' = EmptyBatch /\ Len(results) \in Nat
        /\ Len(results) = (IF last.kind = "none" THEN 0 ELSE 1)
    BY <1>1, LenProperties DEF OverlapInv, LoopInv, Unmerged, NoSegs, ResultsInv
  <2>2. Len(results) <= 1
    BY <2>1
  <2> QED BY <2>1, <2>2
<1>6. /\ cur'.kind = (IF kept = 0 THEN "none" ELSE "decode") /\ cur'.segs = <<>>
      /\ cur' = [kind |-> cur'.kind, segs |-> cur'.segs]
  BY <1>1
<1>7. /\ \A r \in Elements(final.reqs) : InRows(running, r) /\ status[r] = "active"
                                         /\ r \notin dropped /\ r \in Reqs
      /\ \A r \in dropped : InRows(running, r) /\ status[r] = "active" /\ r \in Reqs
      /\ \A r \in Elements(running.reqs) : status[r] # "finished" => r \in dropped \/ InRows(final, r)
  <2>1. \A r \in Elements(running.reqs) : status[r] \in {"active", "finished"}
    BY DEF OverlapInv, PlaceInv
  <2> QED BY <1>2, <1>3, <2>1 DEF DecodeDone, InRows
<1>8. \A r \in Reqs :
        /\ r \in dropped => status'[r] = "retracted" /\ committed'[r] = 0 /\ pending'[r] = 0
                            /\ freed'[r] = FALSE
        /\ r \notin dropped => status'[r] = status[r] /\ committed'[r] = committed[r]
                               /\ pending'[r] = pending[r] /\ freed'[r] = freed[r]
  BY <1>1
<1>9. \A r : Context(r)' = Context(r) /\ ~InChunk(r) /\ ~InChunk(r)'
  BY <1>1 DEF Context, InChunk
<1>10. /\ \A r : InRows(running, r)' <=> InRows(final, r)
       /\ \A r : ~InRows(Unmerged, r)' /\ ~InRows(Unmerged, r) /\ ~InSegs(r) /\ ~InSegs(r)'
  BY <1>4, <1>5, <1>6, EmptyBatchFacts, EmptyList DEF InRows, InSegs
<1>11. LoopInv'
  <2>1. cur'.kind = "none" <=> running'.reqs = <<>> /\ cur'.segs = <<>>
    BY <1>3, <1>4, <1>6
  <2>2. cur'.kind \in {"none", "extend", "decode"} /\ (cur'.kind = "extend" <=> cur'.segs # <<>>)
    BY <1>6
  <2>3. Len(results) <= (IF last.kind = "none" THEN 0 ELSE 1)
    BY <1>5
  <2> QED BY <1>1, <1>4, <1>5, <1>6, <2>1, <2>2, <2>3 DEF OverlapInv, LoopInv
<1>12. ResultsInv'
  BY <1>1 DEF OverlapInv, ResultsInv, ResultOK
<1>13. ReqInv'
  <2>1. /\ committed \in [Reqs -> Int] /\ allocated \in [Reqs -> Int] /\ pending \in [Reqs -> Int]
        /\ freed \in [Reqs -> BOOLEAN] /\ raised = FALSE
        /\ status \in [Reqs -> {"new", "waiting", "retracted", "active", "finished"}]
        /\ \A r \in Reqs : freed[r] => status[r] = "finished"
    BY DEF OverlapInv, ReqInv
  <2>2. committed' \in [Reqs -> Int] /\ pending' \in [Reqs -> Int]
    BY <1>1, <2>1
  <2>3. status' \in [Reqs -> {"new", "waiting", "retracted", "active", "finished"}]
    BY <1>1, <2>1
  <2>4. freed' \in [Reqs -> BOOLEAN]
    BY <1>1, <2>1
  <2>5. allocated' \in [Reqs -> Int]
    <3>1. AllocLenPerDecode \in Nat
      BY OverlapAssumption DEF AllocLenPerDecode, MaxOf
    <3>2. \A r \in Reqs : AllocAhead(r) \in Int
      BY <2>1, <3>1 DEF AllocAhead
    <3> QED BY <1>1, <2>1, <3>2
  <2>6. raised' = FALSE
    BY <1>1, <1>7, <2>1
  <2>7. \A r \in Reqs : /\ status'[r] # "finished" => status[r] # "finished"
                        /\ status'[r] # "active" => pending'[r] = 0
                        /\ freed'[r] => status'[r] = "finished"
    BY <1>7, <1>8, <2>1 DEF OverlapInv, ReqInv
  <2> QED BY <1>1, <2>2, <2>3, <2>4, <2>5, <2>6, <2>7 DEF OverlapInv, ReqInv
<1>14. PlaceInv'
  <2>1. \A r \in Elements(running'.reqs) : status'[r] \in {"active", "finished"}
    BY <1>4, <1>7, <1>8
  <2>2. \A i \in 1..Len(cur'.segs) : FALSE
    BY <1>6, EmptyList
  <2>3. cur'.segs \in Seq([req : Reqs, from : Nat, to : Nat \ {0}])
    BY <1>6, EmptySeq
  <2>4. \A r \in Elements(Unmerged'.reqs) : FALSE
    BY <1>5, EmptyBatchFacts
  <2>5. \A r \in Reqs : status'[r] = "active" => InRows(running, r)'
    <3>1. \A r \in Reqs : status[r] = "active" => InRows(running, r)
      BY <1>9, <1>10 DEF OverlapInv, PlaceInv
    <3> QED BY <1>7, <1>8, <1>10, <3>1 DEF InRows
  <2> QED BY <1>1, <2>1, <2>2, <2>3, <2>4, <2>5 DEF PlaceInv
<1>15. TokenInv'
  <2>1. \A r, k : /\ Holds(k, r)' <=> Holds(k, r)
                  /\ RowIn(k, r)' = RowIn(k, r)
                  /\ Short(k, r)' <=> Short(k, r)
                  /\ Full(k, r)' <=> Full(k, r)
                  /\ Gain(k, r)' = Gain(k, r)
    BY <1>1, <1>9 DEF Holds, RowIn, Short, Full, Gain
  <2>2. \A r : InFlight(r)' = InFlight(r)
    BY <1>1 DEF InFlight, Accepted
  <2>3. ASSUME NEW r \in Reqs, NEW k \in {1, 2}, Holds(k, r) PROVE HeldOK(k, r)'
    <3>1. status[r] \in {"active", "finished"}
      BY <1>1, <2>3 DEF OverlapInv, TokenInv, HeldOK
    <3>2. k = 1
      <4> DEFINE l == Len(results)
      <4>1. l \in Nat /\ l <= 1 /\ k \in 1..l
        BY <1>5, <2>3 DEF Holds
      <4> HIDE DEF l
      <4> QED BY <4>1
    <3> QED BY <1>1, <1>8, <3>1, <3>2 DEF HeldOK
  <2>4. ASSUME NEW r \in Reqs, status'[r] = "active"
        PROVE  PendingOK(r)' /\ (Decoding(r)' => CountOK(r)')
    <3>1. status[r] = "active" /\ pending'[r] = pending[r] /\ committed'[r] = committed[r]
      BY <1>8, <2>4
    <3>2. PendingOK(r) /\ (Decoding(r) => CountOK(r))
      BY <3>1 DEF OverlapInv, TokenInv
    <3>3. PendingOK(r)'
      BY <1>9, <1>10, <2>1, <3>1, <3>2 DEF PendingOK, Bit, Prefilling
    <3>4. Decoding(r)' => Decoding(r)
      BY <1>7, <1>10 DEF Decoding, InRows
    <3>5. Decoding(r)' => CountOK(r)'
      BY <1>1, <1>9, <2>1, <2>2, <3>1, <3>2, <3>4 DEF CountOK
    <3> QED BY <3>3, <3>5
  <2> QED BY <1>1, <2>1, <2>3, <2>4 DEF TokenInv, FreshOK
<1>16. RowsInv'
  <2>1. ASSUME NEW j \in 1..Len(final.reqs) PROVE RowOK(running, j)'
    <3>1. PICK k \in 1..Len(running.reqs) : RowFrom(final, j, running, k)
      BY <1>2 DEF DecodeDone
    <3>2. RowOK(running, k)
      BY DEF OverlapInv, RowsInv
    <3> QED BY <1>1, <1>4, <3>1, <3>2 DEF RowOK, RowFrom, Entry
  <2>2. \A i \in 1..Len(Unmerged'.reqs) : FALSE
    BY <1>5, EmptyBatchFacts
  <2> QED BY <1>1, <1>4, <2>1, <2>2 DEF OverlapInv, RowsInv
<1>17. RingInv'
  <2>1. Taken' = kept + 0 + 0 + 0
    BY <1>1, <1>3, <1>4, <1>5, <1>6, EmptyBatchFacts, EmptyList DEF Taken, Bit
  <2>2. Taken = Len(running.reqs) + 0 + 0 + 0
    BY <1>1, <1>5, EmptyBatchFacts, EmptyList DEF Taken, Bit
  <2>3. Taken' <= MaxRunning
    <3> DEFINE x == Len(running.reqs)
    <3>1. x \in Nat /\ x + 0 + 0 + 0 <= MaxRunning /\ kept \in 0..x /\ MaxRunning \in Nat
      BY <1>3, <2>2, RingFacts DEF OverlapInv, RingInv
    <3> HIDE DEF x
    <3>2. kept + 0 + 0 + 0 <= MaxRunning
      BY <3>1
    <3> QED BY <2>1, <3>2
  <2>4. cur'.kind # "decode" =>
          \E m \in 0..(MaxChunks + MaxCuts) : Rounds(m)' /\ Reach(running, m)' /\ Reach(Unmerged, m)'
    <3>1. SUFFICES ASSUME cur'.kind # "decode"
                   PROVE  \E m \in 0..(MaxChunks + MaxCuts) :
                            Rounds(m)' /\ Reach(running, m)' /\ Reach(Unmerged, m)'
      OBVIOUS
    <3>2. kept = 0 /\ \A i \in 1..Len(running'.reqs) : FALSE
      BY <1>3, <1>4, <1>6, <3>1
    <3>3. \A m : Reach(running, m)' /\ Reach(Unmerged, m)'
      BY <1>5, <3>2, EmptyBatchFacts DEF Reach
    <3>4. PICK m : m = 0 + (MaxCuts - cuts)
      OBVIOUS
    <3>5. m \in 0..(MaxChunks + MaxCuts) /\ 0 \in 0..MaxChunks
      BY <3>4, ChunksFacts, RingFacts DEF OverlapInv, RingInv
    <3>6. Needs(0)'
      BY <1>1 DEF Needs
    <3>7. Rounds(m)'
      BY <1>1, <3>4, <3>5, <3>6 DEF Rounds
    <3> QED BY <3>3, <3>5, <3>7
  <2> QED BY <1>1, <2>3, <2>4 DEF OverlapInv, RingInv
<1>18. PassInv'
  <2>1. ASSUME NEW r \in Elements(final.reqs) PROVE dev[r] + DraftTokens <= allocated'[r]
    <3>1. r \in Reqs /\ r \notin dropped /\ status[r] = "active" /\ Decoding(r)
      BY <1>7 DEF Decoding
    <3>2. committed[r] + InFlight(r) = dev[r]
      BY <3>1 DEF OverlapInv, TokenInv, CountOK
    <3>3. allocated'[r] = AllocAhead(r)
      BY <1>1, <3>1
    <3> DEFINE a == AllocLenPerDecode
               c == committed[r]
               d == dev[r]
               x == Accepted(1, r)
               y == Accepted(2, r)
    <3>4. allocated'[r] = c + 2 * a /\ c + (x + y) = d
      BY <3>2, <3>3 DEF AllocAhead, InFlight
    <3>5. x \in 0..(MaxAccept + 1) /\ y \in 0..(MaxAccept + 1) /\ (2 > Len(results) => y = 0)
      BY AcceptedFacts
    <3>6. 2 > Len(results)
      <4> DEFINE l == Len(results)
      <4>1. l \in Nat /\ l <= 1
        BY <1>5
      <4> HIDE DEF l
      <4>2. 2 > l
        BY <4>1
      <4> QED BY <4>2 DEF l
    <3>7. a \in Nat /\ a >= DraftTokens /\ DraftTokens \in Nat /\ DraftTokens >= MaxAccept + 1
          /\ MaxAccept \in Nat
      BY OverlapAssumption DEF AllocLenPerDecode, MaxOf
    <3>8. c \in Int /\ d \in Nat
      BY <3>1 DEF OverlapInv, ReqInv
    <3> HIDE DEF a, c, d, x, y
    <3>9. d + DraftTokens <= c + 2 * a
      BY <3>4, <3>5, <3>6, <3>7, <3>8
    <3> QED BY <3>4, <3>9 DEF d
  <2> QED BY <1>1, <1>4, <2>1 DEF PassInv
<1> QED BY <1>11, <1>12, <1>13, <1>14, <1>15, <1>16, <1>17, <1>18 DEF OverlapInv

-----------------------------------------------------------------------------
(* Launches. *)

\* Entries are stored at the pointer, and the pointer moves on by as many.
LEMMA PointerArith ==
  ASSUME NEW f \in Nat, NEW l \in Nat, f < l, NEW n \in Nat, n < l
  PROVE  \E p \in {0, 1} : /\ f + n = ((f + n) % l) + p * l
                           /\ (f + n) % l \in 0..(l - 1)
<1> DEFINE g == (f + n) % l
           q == (f + n) \div l
           a == f + n
<1>1. l > 0 /\ a \in Nat /\ a < 2 * l
  OBVIOUS
<1>2. g \in 0..(l - 1) /\ q \in Int /\ a = l * q + g
  <2>1. g = a % l /\ q = a \div l
    OBVIOUS
  <2> HIDE DEF a, g, q
  <2> QED BY <1>1, <2>1
<1> HIDE DEF g, q, a
<1>3. q \in {0, 1}
  <2>1. CASE q <= -1
    <3>1. l * q <= -l
      BY <1>1, <1>2, <2>1
    <3> DEFINE t == l * q
    <3>2. t \in Int /\ t <= -l /\ a = t + g
      BY <1>2, <3>1
    <3> HIDE DEF t
    <3> QED BY <1>1, <1>2, <3>2
  <2>2. CASE q >= 2
    <3>1. l * q >= 2 * l
      BY <1>1, <1>2, <2>2
    <3> DEFINE t == l * q
    <3>2. t \in Int /\ t >= 2 * l /\ a = t + g
      BY <1>2, <3>1
    <3> HIDE DEF t
    <3> QED BY <1>1, <1>2, <3>2
  <2> QED BY <1>2, <2>1, <2>2
<1>4. a = g + q * l
  BY <1>1, <1>2, <1>3
<1> QED BY <1>2, <1>3, <1>4 DEF a, g

\* The ring after a launch: the new entries are there, and an entry that was not
\* stored too long ago is still there.
RingDone(n, f, entries) ==
  /\ DOMAIN ring' = 1..FutureBufferLen /\ future_ct' \in 0..(FutureLimit - 1)
  /\ \A i \in 1..n : /\ f + i \in 1..FutureBufferLen /\ ring'[f + i] = entries[i]
                     /\ Ago(f + i, n - i)'
  /\ \A k \in 1..FutureBufferLen, e \in Nat :
       Ago(k, e) /\ e + n <= FutureLimit - 1 => ring'[k] = ring[k] /\ Ago(k, e + n)'

LEMMA StoreFacts ==
  ASSUME NEW f, f = future_ct, f \in 0..(FutureLimit - 1), DOMAIN ring = 1..FutureBufferLen,
         NEW n \in 1..MaxRunning, NEW entries,
         ring' = Stored([i \in 1..n |-> f + i], entries), future_ct' = FutureCt(n)
  PROVE  RingDone(n, f, entries)
<1> DEFINE L == FutureLimit
           B == FutureBufferLen
           s == [i \in 1..n |-> f + i]
<1>1. L \in Nat /\ L >= 4 * MaxRunning /\ MaxRunning \in Nat /\ MaxRunning >= 1
      /\ B = L + 2 * MaxRunning
  BY RingFacts
<1>2. f \in Nat /\ f < L /\ n \in Nat /\ n >= 1 /\ n <= MaxRunning /\ n < L /\ f <= L - 1
  BY <1>1
<1>3. PICK p \in {0, 1} : f + n = ((f + n) % L) + p * L /\ (f + n) % L \in 0..(L - 1)
  <2> HIDE DEF L
  <2> QED BY <1>1, <1>2, PointerArith, ZenonT(30)
<1> DEFINE g == (f + n) % L
<1>4. future_ct' = g
  BY DEF FutureCt
<1>5. f + n = g + p * L /\ g \in 0..(L - 1)
  BY <1>3
<1> HIDE DEF g, L, B
<1>6. DOMAIN ring' = 1..B
  BY DEF Stored, B
<1>7. Elements(s) = {f + i : i \in 1..n}
  BY DEF Elements
<1>8. \A k \in 1..B : ring'[k] = IF k \in Elements(s) THEN entries[RowOf(s, k)] ELSE ring[k]
  <2> HIDE DEF s
  <2> QED BY DEF Stored, B, s
<1>9. \A i \in 1..n : RowOf(s, f + i) = i
  <2> SUFFICES ASSUME NEW i \in 1..n PROVE RowOf(s, f + i) = i
    OBVIOUS
  <2>1. DOMAIN s = 1..n /\ \A j \in 1..n : s[j] = f + j
    OBVIOUS
  <2> HIDE DEF s
  <2>2. \A j \in 1..n : f + j = f + i <=> j = i
    BY <1>2
  <2>3. \A j \in 1..n : s[j] = f + i <=> j = i
    BY <2>1, <2>2
  <2> QED BY <2>1, <2>3 DEF RowOf
<1> HIDE DEF s
<1>10. ASSUME NEW i \in 1..n
       PROVE  /\ f + i \in 1..B /\ ring'[f + i] = entries[i]
              /\ Ago(f + i, n - i)'
  <2>1. f + i \in 1..B
    BY <1>1, <1>2
  <2>2. ring'[f + i] = entries[i]
    BY <1>7, <1>8, <1>9, <2>1
  <2>3. g + p * L = (f + i) + (n - i)
    <3>1. (f + i) + (n - i) = f + n
      BY <1>2
    <3> QED BY <1>5, <3>1
  <2>4. p \in 0..2
    OBVIOUS
  <2>5. Ago(f + i, n - i)' <=> \E q \in 0..2 : g + q * L = (f + i) + (n - i)
    BY <1>4 DEF Ago, L
  <2> QED BY <2>1, <2>2, <2>3, <2>4, <2>5
<1>11. ASSUME NEW k \in 1..B, NEW e \in Nat, Ago(k, e), e + n <= L - 1
       PROVE  ring'[k] = ring[k] /\ Ago(k, e + n)'
  <2>1. PICK q \in 0..2 : f + q * L = k + e
    BY <1>11 DEF Ago, L
  <2>2. k \notin Elements(s)
    <3>1. SUFFICES ASSUME NEW j \in 1..n, k = f + j PROVE FALSE
      BY <1>7
    <3>2. q * L = j + e
      <4> DEFINE t == q * L
      <4>1. t \in Int /\ f + t = (f + j) + e
        BY <1>1, <2>1, <3>1
      <4> HIDE DEF t
      <4>2. t = j + e
        BY <1>2, <4>1
      <4> QED BY <4>2 DEF t
    <3>3. q = 0 => q * L = 0
      BY <1>1
    <3>4. q # 0 => q * L >= L
      BY <1>1
    <3> DEFINE t == q * L
    <3>5. t \in Int /\ (t = 0 \/ t >= L) /\ t = j + e
      BY <1>1, <3>2, <3>3, <3>4
    <3> HIDE DEF t
    <3> QED BY <1>1, <1>2, <1>11, <3>5
  <2>3. g + (p + q) * L = k + (e + n)
    <3>1. (p + q) * L = p * L + q * L
      BY <1>1
    <3> DEFINE t == q * L
               u == p * L
    <3>2. t \in Int /\ u \in Int /\ f + t = k + e /\ f + n = g + u
      BY <1>1, <1>5, <2>1
    <3> HIDE DEF t, u
    <3>3. g + (u + t) = k + (e + n)
      BY <1>2, <1>5, <3>2
    <3> QED BY <3>1, <3>3 DEF t, u
  <2>4. p + q \in 0..2
    <3>1. p + q \in 0..3
      OBVIOUS
    <3>2. p + q = 3 => FALSE
      <4>1. SUFFICES ASSUME p + q = 3 PROVE FALSE
        OBVIOUS
      <4>2. g + 3 * L = k + (e + n)
        BY <2>3, <4>1
      <4> QED BY <1>1, <1>2, <1>5, <1>11, <4>2
    <3> QED BY <3>1, <3>2
  <2>5. Ago(k, e + n)' <=> \E z \in 0..2 : g + z * L = k + (e + n)
    BY <1>4 DEF Ago, L
  <2> QED BY <1>8, <2>2, <2>3, <2>4, <2>5
<1> QED BY <1>4, <1>5, <1>6, <1>10, <1>11 DEF RingDone, L, B

\* The queue with one more result.
ResultAdded(l, res) ==
  /\ l \in {0, 1} /\ Len(results') = l + 1 /\ results'[l + 1] = res
  /\ ResultsInv'
  /\ \A r : \A k \in {1, 2} : k # l + 1 =>
       /\ Holds(k, r)' <=> Holds(k, r)
       /\ Short(k, r)' <=> Short(k, r)
       /\ Full(k, r)' <=> Full(k, r)
       /\ Gain(k, r)' = Gain(k, r)
       /\ Holds(k, r) => RowIn(k, r)' = RowIn(k, r)
       /\ Holds(k, r) => results'[k] = results[k]
       /\ Accepted(k, r)' = Accepted(k, r)
  /\ \A r : Holds(l + 1, r)' <=> r \in Elements(res.reqs)
  /\ \A r : RowIn(l + 1, r)' = res.rows[RowOf(res.reqs, r)]
  /\ \A r : ~Holds(l + 1, r) /\ Gain(l + 1, r) = 0 /\ Accepted(l + 1, r) = 0
  /\ \A r : \A k \in {1, 2} : Holds(k, r) => k = 1 /\ l = 1

LEMMA AppendResult ==
  ASSUME OverlapInv, NEW l, l = Len(results), l <= 1, NEW res \in ResultType, ResultOK(res),
         results' = Append(results, res), UNCHANGED out
  PROVE  ResultAdded(l, res)
<1>1. results \in Seq(ResultType) /\ l \in Nat /\ \A k \in 1..l : ResultOK(results[k])
  BY LenProperties DEF OverlapInv, ResultsInv
<1>2. l \in {0, 1}
  BY <1>1
<1>3. results' \in Seq(ResultType) /\ Len(results') = l + 1
      /\ results'[l + 1] = res /\ \A k \in 1..l : results'[k] = results[k]
  BY <1>1, AppendProperties
<1>4. ResultsInv'
  <2>1. ASSUME NEW k \in 1..(l + 1) PROVE ResultOK(results'[k])
    <3>1. k \in 1..l \/ k = l + 1
      BY <1>1
    <3> QED BY <1>1, <1>3, <3>1
  <2>2. \A k \in 1..Len(results') : ResultOK(results[k])'
    BY <1>3, <2>1 DEF ResultOK
  <2> QED BY <1>3, <2>2 DEF ResultsInv
<1>5. \A r : Context(r)' = Context(r)
  BY DEF Context
<1>6. ASSUME NEW r, NEW k \in {1, 2}, k # l + 1
      PROVE  /\ Holds(k, r)' <=> Holds(k, r)
             /\ Short(k, r)' <=> Short(k, r)
             /\ Full(k, r)' <=> Full(k, r)
             /\ Gain(k, r)' = Gain(k, r)
             /\ Holds(k, r) => RowIn(k, r)' = RowIn(k, r)
             /\ Holds(k, r) => results'[k] = results[k]
             /\ Accepted(k, r)' = Accepted(k, r)
  <2>1. /\ k \in 1..Len(results') <=> k \in 1..Len(results)
        /\ k <= Len(results') <=> k <= Len(results)
        /\ k <= Len(results) => k \in 1..l
    BY <1>2, <1>3, <1>6
  <2>2. k \in 1..l => results'[k] = results[k]
    BY <1>3
  <2>3. /\ Holds(k, r)' <=> Holds(k, r)
        /\ Holds(k, r) => RowIn(k, r)' = RowIn(k, r)
        /\ Holds(k, r) => results'[k] = results[k]
    BY <2>1, <2>2 DEF Holds, RowIn
  <2>4. Short(k, r)' <=> Short(k, r)
    BY <1>5, <2>3 DEF Short
  <2>5. Full(k, r)' <=> Full(k, r)
    BY <2>3, <2>4 DEF Full
  <2>6. Gain(k, r)' = Gain(k, r)
    BY <2>3, <2>5 DEF Gain, Full
  <2>7. Accepted(k, r)' = Accepted(k, r)
    BY <2>1, <2>2 DEF Accepted
  <2> QED BY <2>3, <2>4, <2>5, <2>6, <2>7
<1>7. \A r : Holds(l + 1, r)' <=> r \in Elements(res.reqs)
  <2>1. l + 1 \in 1..(l + 1)
    BY <1>1
  <2> QED BY <1>3, <2>1 DEF Holds
<1>8. \A r : RowIn(l + 1, r)' = res.rows[RowOf(res.reqs, r)]
  BY <1>3 DEF RowIn
<1>9. \A r : ~Holds(l + 1, r) /\ Gain(l + 1, r) = 0 /\ Accepted(l + 1, r) = 0
  <2>1. ~(l + 1 \in 1..l) /\ ~(l + 1 <= l)
    BY <1>1
  <2>2. \A r : ~Holds(l + 1, r)
    BY <2>1 DEF Holds
  <2> QED BY <2>1, <2>2 DEF Gain, Full, Accepted
<1>10. ASSUME NEW r, NEW k \in {1, 2}, Holds(k, r) PROVE k = 1 /\ l = 1
  <2>1. k \in 1..l
    BY <1>10 DEF Holds
  <2> QED BY <1>2, <2>1
<1> QED BY <1>2, <1>3, <1>4, <1>6, <1>7, <1>8, <1>9, <1>10 DEF ResultAdded

\* The spare room of the ring, before and after a prefill is launched.
LEMMA SpareRoom ==
  ASSUME NEW l \in Nat, l >= 1, NEW c \in Nat, NEW t \in Nat, t >= 1, t <= l, NEW n \in 0..t,
         NEW cap \in 0..(2 * l - 1), NEW m \in 0..(c + cap), NEW lim, lim = l * (c + 1) + 2 * l
  PROVE  /\ n <= lim - 1 - (0 + (l - t) * (c + 1) + m)
         /\ lim - 1 - (0 + (l - t) * (c + 1) + m) = (lim - 1 - (n + (l - t) * (c + 1) + m)) + n
         /\ (lim - 1 - (n + (l - t) * (c + 1) + m)) + n <= lim - 1
         /\ lim - 1 - (n + (l - t) * (c + 1) + m) \in Int
<1> DEFINE y == l - t
<1>1. y \in Nat /\ l = y + t
  OBVIOUS
<1> HIDE DEF y
<1>2. l * (c + 1) = y * (c + 1) + t * (c + 1)
  BY <1>1
<1>3. t * (c + 1) >= c + t /\ t * (c + 1) \in Nat /\ y * (c + 1) \in Nat
  <2>1. t * (c + 1) = t * c + t /\ t * c >= c /\ t * c \in Nat
    OBVIOUS
  <2>2. t * (c + 1) >= c + t
    BY <2>1
  <2> QED BY <1>1, <2>1, <2>2
<1> DEFINE u == y * (c + 1)
           v == t * (c + 1)
<1>4. lim = u + v + 2 * l /\ u \in Nat /\ v \in Nat /\ v >= c + t
  BY <1>2, <1>3
<1> HIDE DEF u, v
<1>5. /\ n <= lim - 1 - (0 + u + m)
      /\ lim - 1 - (0 + u + m) = (lim - 1 - (n + u + m)) + n
      /\ (lim - 1 - (n + u + m)) + n <= lim - 1
      /\ lim - 1 - (n + u + m) \in Int
  BY <1>4
<1> QED BY <1>5 DEF u, y

\* The rows of a batch after a launch of n entries that does not serve them.
LEMMA RowsKept ==
  ASSUME NEW n \in 1..MaxRunning, NEW f, NEW entries, RingDone(n, f, entries), NEW b,
         \A i \in 1..Len(b.reqs) : b.futures[i] \in 1..FutureBufferLen,
         NEW s \in Int, s + n <= FutureLimit - 1,
         \A i \in 1..Len(b.reqs) : \E e \in 0..s : Ago(b.futures[i], e)
  PROVE  \A i \in 1..Len(b.reqs) : /\ ring'[b.futures[i]] = ring[b.futures[i]]
                                   /\ \E e \in 0..(s + n) : Ago(b.futures[i], e)'
<1> SUFFICES ASSUME NEW i \in 1..Len(b.reqs)
             PROVE  /\ ring'[b.futures[i]] = ring[b.futures[i]]
                    /\ \E e \in 0..(s + n) : Ago(b.futures[i], e)'
  OBVIOUS
<1>1. PICK e \in 0..s : Ago(b.futures[i], e)
  OBVIOUS
<1>2. n \in Nat /\ FutureLimit \in Nat
  BY RingFacts
<1>3. e \in Nat /\ e + n <= FutureLimit - 1 /\ e + n \in 0..(s + n)
  BY <1>2
<1>4. ring'[b.futures[i]] = ring[b.futures[i]] /\ Ago(b.futures[i], e + n)'
  BY <1>1, <1>3 DEF RingDone
<1> QED BY <1>3, <1>4

\* The tokens of a row in a result.
LEMMA TokensFacts ==
  ASSUME NEW a \in Nat, NEW b \in Nat
  PROVE  Tokens(a, b) \in TokensType /\ Tokens(a, b).first = a /\ Tokens(a, b).n = b
BY DEF Tokens, TokensType

LEMMA LaunchPrefillInv == ASSUME OverlapInv, LaunchPrefill PROVE OverlapInv'
<1>1. /\ pc = "launch" /\ cur.kind = "extend" /\ UNCHANGED <<chunk, cuts, running, raised>>
      /\ UNCHANGED <<status, out, committed, allocated, freed, pending>>
  BY DEF LaunchPrefill, reqVars
<1>2. PICK segs : segs = cur.segs
  OBVIOUS
<1>3. PICK names : names = [i \in DOMAIN segs |-> segs[i].req]
  OBVIOUS
<1>4. PICK entries : entries = [i \in DOMAIN names |-> Entry(names[i], segs[i].to)]
  OBVIOUS
<1>5. PICK tokens : tokens = [i \in DOMAIN names |-> Tokens(segs[i].to + 1, 1)]
  OBVIOUS
<1>6. PICK f : f = future_ct
  OBVIOUS
<1>7. PICK l : l = Len(results)
  OBVIOUS
<1>8. /\ Launched("extend", names, entries, tokens)
      /\ last' = [kind |-> "extend",
                  batch |-> [reqs |-> names, lens |-> [i \in DOMAIN names |-> entries[i].len],
                             futures |-> FutureIndices(Len(names)), rows |-> entries,
                             full |-> FALSE]]
  BY <1>2, <1>3, <1>4, <1>5 DEF LaunchPrefill
<1>9. PICK n : n = Len(segs)
  OBVIOUS
<1>10. /\ segs \in Seq(SegType) /\ n \in Nat /\ n >= 1 /\ DOMAIN segs = 1..n
       /\ \A i \in 1..n : segs[i] \in SegType
  <2>1. segs \in Seq(SegType) /\ segs # <<>>
    BY <1>1, <1>2 DEF OverlapInv, LoopInv, PlaceInv, SegType
  <2>2. n \in Nat /\ n # 0 /\ DOMAIN segs = 1..n
    BY <1>9, <2>1, EmptySeq, LenProperties
  <2> QED BY <1>9, <2>1, <2>2, ElementOfSeq
<1>11. \A i \in 1..n : segs[i].req \in Reqs /\ segs[i].to \in Nat \ {0}
  BY <1>10 DEF SegType
<1>12. \A i \in 1..n : SegOK(segs[i])
  BY <1>2, <1>9 DEF OverlapInv, PlaceInv
<1>13. \A i, j \in 1..n : segs[i].req = segs[j].req => i = j
  BY <1>2, <1>9 DEF OverlapInv, PlaceInv
<1>14. /\ names \in Seq(Reqs) /\ Len(names) = n /\ DOMAIN names = 1..n /\ Unique(names)
       /\ \A i \in 1..n : names[i] = segs[i].req
  <2>1. names \in [1..n -> Reqs] /\ \A i \in 1..n : names[i] = segs[i].req
    BY <1>3, <1>10, <1>11
  <2>2. names \in Seq(Reqs) /\ Len(names) = n
    BY <1>10, <2>1, ListOf
  <2> QED BY <1>13, <2>1, <2>2 DEF Unique
<1>15. /\ entries \in Seq(EntryType) /\ Len(entries) = n
       /\ \A i \in 1..n : entries[i] = Entry(names[i], segs[i].to) /\ entries[i].len = segs[i].to
  <2>1. \A i \in 1..n : entries[i] = Entry(names[i], segs[i].to)
    BY <1>4, <1>14
  <2>2. \A i \in 1..n : Entry(names[i], segs[i].to) \in EntryType /\ Entry(names[i], segs[i].to).len = segs[i].to
    BY <1>11, <1>14 DEF Entry, EntryType
  <2>3. entries \in [1..n -> EntryType]
    BY <1>4, <1>14, <2>2
  <2> QED BY <1>10, <2>1, <2>2, <2>3, ListOf
<1>16. /\ tokens \in Seq(TokensType) /\ Len(tokens) = n
       /\ \A i \in 1..n : tokens[i].first = segs[i].to + 1 /\ tokens[i].n = 1
  <2>1. \A i \in 1..n : tokens[i] = Tokens(segs[i].to + 1, 1)
    BY <1>5, <1>14
  <2>2. \A i \in 1..n : segs[i].to + 1 \in Nat
    BY <1>11
  <2>3. \A i \in 1..n : tokens[i] \in TokensType /\ tokens[i].first = segs[i].to + 1 /\ tokens[i].n = 1
    BY <2>1, <2>2, TokensFacts
  <2>4. tokens \in [1..n -> TokensType]
    BY <1>5, <1>14, <2>3
  <2> QED BY <1>10, <2>3, <2>4, ListOf
<1>17. PICK res : res = [kind |-> "extend", reqs |-> names, rows |-> tokens]
  OBVIOUS
<1>18. res \in ResultType /\ ResultOK(res) /\ res.kind = "extend" /\ res.reqs = names /\ res.rows = tokens
  <2>1. res.kind = "extend" /\ res.reqs = names /\ res.rows = tokens
    BY <1>17
  <2>2. res \in ResultType
    BY <1>14, <1>16, <1>17 DEF ResultType
  <2>3. 1 <= 1 /\ 1 <= MaxAccept + 1
    BY OverlapAssumption
  <2> QED BY <1>14, <1>16, <2>1, <2>2, <2>3 DEF ResultOK
<1>19. /\ ring' = Stored([i \in 1..n |-> f + i], entries) /\ future_ct' = FutureCt(n)
       /\ results' = Append(results, res) /\ tail' = TRUE /\ cur' = NoSegs /\ pc' = "drain"
       /\ dev' = [r \in Reqs |-> IF r \in Elements(names) THEN entries[RowOf(names, r)].len ELSE dev[r]]
  BY <1>6, <1>8, <1>14, <1>17 DEF Launched, FutureIndices
<1>20. /\ BatchOK(running) /\ running \in BatchType /\ Len(running.reqs) \in Nat /\ Unmerged = EmptyBatch
       /\ l \in Nat /\ l <= 1 /\ (l = 1 => last.kind # "none")
  <2>1. BatchOK(running) /\ Unmerged = EmptyBatch /\ results \in Seq(ResultType)
        /\ l <= (IF last.kind = "none" THEN 0 ELSE 1)
    BY <1>1, <1>7 DEF OverlapInv, LoopInv, Unmerged, ResultsInv
  <2>2. l \in Nat
    BY <1>7, <2>1, LenProperties
  <2>3. l <= 1 /\ (l = 1 => last.kind # "none")
    BY <2>1, <2>2
  <2> QED BY <2>1, <2>2, <2>3, BatchTypes DEF BatchOK
<1>21. ResultAdded(l, res)
  BY <1>1, <1>7, <1>18, <1>19, <1>20, AppendResult
<1>22. Taken = Len(running.reqs) + 0 + n + 0 /\ Taken <= MaxRunning
  BY <1>1, <1>2, <1>9, <1>20, EmptyBatchFacts DEF Taken, Bit, OverlapInv, RingInv
<1>23. n \in 1..MaxRunning
  <2> DEFINE x == Len(running.reqs)
  <2>1. x \in Nat /\ x + 0 + n + 0 <= MaxRunning /\ MaxRunning \in Nat
    BY <1>20, <1>22, RingFacts
  <2> HIDE DEF x
  <2> QED BY <1>10, <2>1
<1>24. RingDone(n, f, entries) /\ f \in 0..(FutureLimit - 1)
  <2>1. f \in 0..(FutureLimit - 1) /\ DOMAIN ring = 1..FutureBufferLen
    BY <1>6 DEF OverlapInv, RingInv, RowsInv
  <2> QED BY <1>6, <1>19, <1>23, <2>1, StoreFacts
<1>25. PICK b : b = [reqs |-> names, lens |-> [i \in 1..n |-> entries[i].len],
                     futures |-> [i \in 1..n |-> f + i], rows |-> entries, full |-> FALSE]
  OBVIOUS
<1>26. /\ last' = [kind |-> "extend", batch |-> b] /\ last'.kind = "extend" /\ last'.batch = b
       /\ Unmerged' = b
  BY <1>6, <1>8, <1>14, <1>19, <1>25 DEF FutureIndices, Unmerged
<1>27. /\ BatchOK(b) /\ b \in BatchType /\ b.reqs = names /\ b.rows = entries
       /\ \A i \in 1..n : b.futures[i] = f + i
  <2>1. b.reqs = names /\ b.rows = entries /\ b.lens = [i \in 1..n |-> entries[i].len]
        /\ b.futures = [i \in 1..n |-> f + i]
    BY <1>25
  <2>2. b.lens \in [1..n -> Nat \cup {Unknown}]
    BY <1>11, <1>15, <2>1
  <2>3. b.futures \in [1..n -> Nat]
    BY <1>24, <2>1
  <2>4. b.lens \in Seq(Nat \cup {Unknown}) /\ Len(b.lens) = n
    BY <1>10, <2>2, ListOf
  <2>5. b.futures \in Seq(Nat) /\ Len(b.futures) = n
    BY <1>10, <2>3, ListOf
  <2>6. b \in BatchType
    BY <1>14, <1>15, <1>25, <2>1, <2>4, <2>5 DEF BatchType
  <2> QED BY <1>14, <1>15, <2>1, <2>4, <2>5, <2>6 DEF BatchOK, InStep
<1>28. /\ \A r \in Elements(names) : /\ r \in Reqs /\ RowOf(names, r) \in 1..n
                                     /\ names[RowOf(names, r)] = r
       /\ \A i \in 1..n : names[i] \in Elements(names) /\ RowOf(names, names[i]) = i
  <2>1. \A i \in 1..n : names[i] \in Reqs
    BY <1>11, <1>14
  <2> QED BY <1>14, <2>1, RowOfFacts
<1>29. /\ cur'.kind = "none" /\ cur'.segs = <<>> /\ cur' = [kind |-> cur'.kind, segs |-> cur'.segs]
  BY <1>19 DEF NoSegs
<1>30. LoopInv'
  <2>1. last' \in [kind : {"none", "extend", "decode"}, batch : BatchType]
    BY <1>26, <1>27
  <2>2. Len(results') <= 2 /\ Len(results') >= 1
    <3>1. Len(results') = l + 1
      BY <1>21 DEF ResultAdded
    <3> QED BY <1>20, <3>1
  <2> QED BY <1>1, <1>19, <1>20, <1>26, <1>27, <1>29, <2>1, <2>2 DEF LoopInv
<1>31. ResultsInv'
  BY <1>21 DEF ResultAdded
<1>32. ReqInv'
  <2>1. dev' \in [Reqs -> Nat]
    <3>1. dev \in [Reqs -> Nat]
      BY DEF OverlapInv, ReqInv
    <3>2. \A r \in Elements(names) : entries[RowOf(names, r)].len \in Nat
      BY <1>11, <1>15, <1>28
    <3> QED BY <1>19, <3>1, <3>2
  <2> QED BY <1>1, <2>1 DEF OverlapInv, ReqInv
<1>33. /\ \A r : Context(r)' = Context(r)
       /\ \A r : InChunk(r)' <=> InChunk(r)
       /\ \A r : InRows(running, r)' <=> InRows(running, r)
       /\ \A r : InRows(Unmerged, r)' <=> r \in Elements(names)
       /\ \A r : ~InRows(Unmerged, r)
       /\ \A r : ~InSegs(r)'
       /\ \A r : InSegs(r) <=> r \in Elements(names)
  <2>1. \A r : InSegs(r) <=> r \in Elements(names)
    <3>1. \A r : InSegs(r) <=> \E i \in 1..n : names[i] = r
      BY <1>2, <1>9, <1>14 DEF InSegs
    <3> QED BY <1>14, <3>1 DEF Elements
  <2>2. \A r : ~InSegs(r)'
    BY <1>29, EmptyList DEF InSegs
  <2> QED BY <1>1, <1>20, <1>26, <1>27, <2>1, <2>2, EmptyBatchFacts DEF Context, InChunk, InRows
<1>34. ASSUME NEW r \in Elements(names)
       PROVE  /\ status[r] = "active" /\ ~InRows(running, r)
              /\ \E i \in 1..n : /\ RowOf(names, r) = i /\ committed[r] = segs[i].to
                                 /\ segs[i].to <= Context(r)
                                 /\ segs[i].to < Context(r) <=> InChunk(r)
                                 /\ dev'[r] = segs[i].to
  <2> DEFINE i == RowOf(names, r)
  <2>1. i \in 1..n /\ names[i] = r /\ r \in Reqs
    BY <1>28
  <2> HIDE DEF i
  <2>2. segs[i].req = r /\ SegOK(segs[i])
    BY <1>12, <1>14, <2>1
  <2>3. dev'[r] = entries[i].len
    BY <1>19, <2>1, <1>34 DEF i
  <2>4. dev'[r] = segs[i].to
    BY <1>15, <2>1, <2>3
  <2>5. /\ status[r] = "active" /\ ~InRows(running, r) /\ committed[r] = segs[i].to
        /\ segs[i].to <= Context(r) /\ (segs[i].to < Context(r) <=> InChunk(r))
    BY <2>2 DEF SegOK
  <2> QED BY <2>1, <2>4, <2>5 DEF i
<1>35. \A r \in Reqs : r \notin Elements(names) => dev'[r] = dev[r]
  BY <1>19
<1>36. PlaceInv'
  <2>1. \A r \in Elements(Unmerged'.reqs) : status'[r] = "active" /\ ~InRows(running, r)'
    BY <1>1, <1>26, <1>27, <1>33, <1>34
  <2>2. \A i \in 1..Len(cur'.segs) : FALSE
    BY <1>29, EmptyList
  <2>3. cur'.segs \in Seq([req : Reqs, from : Nat, to : Nat \ {0}])
    BY <1>29, EmptySeq
  <2>4. chunk # NoChunk => chunk.req \in Elements(names)
    BY <1>1, <1>33 DEF OverlapInv, PlaceInv
  <2>5. chunk # NoChunk => InRows(last.batch, chunk.req)'
    BY <1>1, <1>26, <1>27, <2>4 DEF InRows
  <2>6. \A r \in Reqs : status'[r] = "active" =>
          InRows(running, r)' \/ InRows(Unmerged, r)' \/ InChunk(r)'
    BY <1>1, <1>33 DEF OverlapInv, PlaceInv
  <2>7. chunk' # NoChunk => /\ chunk' \in [req : Reqs, filled : Nat \ {0}]
                            /\ status'[chunk'.req] = "active" /\ ~InRows(running, chunk.req)'
                            /\ chunk'.filled < Context(chunk.req)'
    <3>1. (~InRows(running, chunk.req)' <=> ~InRows(running, chunk.req))
          /\ Context(chunk.req)' = Context(chunk.req)
      BY <1>1 DEF InRows, Context
    <3> QED BY <1>1, <3>1 DEF OverlapInv, PlaceInv
  <2>8. \A r \in Elements(running'.reqs) : status'[r] \in {"active", "finished"}
    BY <1>1 DEF OverlapInv, PlaceInv
  <2> QED BY <1>1, <1>19, <2>1, <2>2, <2>3, <2>5, <2>6, <2>7, <2>8 DEF PlaceInv
<1>37. \A r \in Reqs, k \in {1, 2} : Accepted(k, r)' = Accepted(k, r)
  <2>1. l + 1 \in {1, 2} /\ results'[l + 1] = res
    BY <1>21 DEF ResultAdded
  <2>2. \A r : Accepted(l + 1, r)' = 0
    BY <1>18, <2>1 DEF Accepted
  <2>3. \A r, k : k \in {1, 2} /\ k # l + 1 => Accepted(k, r)' = Accepted(k, r)
    BY <1>21 DEF ResultAdded
  <2>4. \A r : Accepted(l + 1, r) = 0
    BY <1>21 DEF ResultAdded
  <2> QED BY <2>1, <2>2, <2>3, <2>4
<1>38. ASSUME NEW r \in Reqs, r \notin Elements(names), NEW k \in {1, 2}
       PROVE  /\ Holds(k, r)' <=> Holds(k, r)
              /\ Short(k, r)' <=> Short(k, r)
              /\ Full(k, r)' <=> Full(k, r)
              /\ Gain(k, r)' = Gain(k, r)
              /\ Full(k, r) => RowIn(k, r)' = RowIn(k, r)
  <2>1. CASE k # l + 1
    BY <1>21, <2>1 DEF ResultAdded, Full
  <2>2. CASE k = l + 1
    <3>1. ~Holds(k, r)' /\ ~Holds(k, r)
      BY <1>18, <1>21, <1>38, <2>2 DEF ResultAdded
    <3> QED BY <3>1 DEF Short, Full, Gain
  <2> QED BY <2>1, <2>2
<1>39. ASSUME NEW r \in Elements(names)
       PROVE  /\ \A k \in {1, 2} : k # l + 1 => (Holds(k, r)' => Short(k, r)' /\ Short(k, r))
              /\ \A k \in {1, 2} : k # l + 1 => /\ Short(k, r)' <=> Short(k, r)
                                                /\ Gain(k, r)' = 0 /\ ~Full(k, r)'
              /\ Short(l + 1, r)' <=> InChunk(r)
              /\ ~Short(l + 1, r) /\ Holds(l + 1, r)'
              /\ ~InChunk(r) => /\ Full(l + 1, r)' /\ Gain(l + 1, r)' = 1
                                /\ RowIn(l + 1, r).first' = Context(r) + 1
                                /\ committed[r] = Context(r) /\ dev'[r] = Context(r)
  <2>1. r \in Reqs /\ status[r] = "active" /\ Prefilling(r)
    BY <1>28, <1>33, <1>34 DEF Prefilling
  <2>2. \A k \in {1, 2} : Holds(k, r) => Short(k, r)
    BY <2>1 DEF OverlapInv, TokenInv, PendingOK
  <2>3. ASSUME NEW k \in {1, 2}, k # l + 1
        PROVE  /\ Holds(k, r)' => Short(k, r)' /\ Short(k, r)
               /\ Short(k, r)' <=> Short(k, r)
               /\ Gain(k, r)' = 0 /\ ~Full(k, r)'
    BY <1>21, <2>2, <2>3 DEF ResultAdded, Full, Gain
  <2>4. PICK i \in 1..n : /\ RowOf(names, r) = i /\ committed[r] = segs[i].to
                          /\ segs[i].to <= Context(r)
                          /\ segs[i].to < Context(r) <=> InChunk(r)
                          /\ dev'[r] = segs[i].to
    BY <1>34
  <2>5. Holds(l + 1, r)' /\ RowIn(l + 1, r)' = tokens[i] /\ results'[l + 1] = res
    BY <1>18, <1>21, <2>4 DEF ResultAdded
  <2> DEFINE t == segs[i].to
             a == Context(r)
  <2>6. t \in Nat /\ a \in Nat /\ t <= a /\ (t < a <=> InChunk(r))
    BY <1>11, <2>1, <2>4, ContextFacts
  <2> HIDE DEF t, a
  <2>7. (t + 1 <= a <=> InChunk(r)) /\ (~InChunk(r) => t = a)
    BY <2>6
  <2>8. Short(l + 1, r)' <=> t + 1 <= a
    BY <1>16, <1>18, <1>33, <2>5 DEF Short, t, a
  <2>9. Short(l + 1, r)' <=> InChunk(r)
    BY <2>7, <2>8
  <2>10. ~InChunk(r) => Full(l + 1, r)' /\ Gain(l + 1, r)' = 1
    BY <1>16, <2>5, <2>9 DEF Full, Gain
  <2>11. ~InChunk(r) => /\ RowIn(l + 1, r).first' = Context(r) + 1
                        /\ committed[r] = Context(r) /\ dev'[r] = Context(r)
    BY <1>16, <2>4, <2>5, <2>7 DEF t, a
  <2>12. ~Short(l + 1, r)
    BY <1>21 DEF ResultAdded, Short
  <2> QED BY <2>3, <2>5, <2>9, <2>10, <2>11, <2>12
<1>40. TokenInv'
  <2>1. ASSUME NEW r \in Reqs, NEW k \in {1, 2}, Holds(k, r)' PROVE HeldOK(k, r)'
    <3>1. CASE k = l + 1
      <4>1. r \in Elements(names)
        BY <1>18, <1>21, <2>1, <3>1 DEF ResultAdded
      <4> QED BY <1>1, <1>34, <4>1 DEF HeldOK
    <3>2. CASE k # l + 1
      <4>1. Holds(k, r)
        BY <1>21, <2>1, <3>2 DEF ResultAdded
      <4>2. l = 1 /\ Len(results') = 2
        BY <1>21, <4>1 DEF ResultAdded
      <4>3. HeldOK(k, r)
        BY <4>1 DEF OverlapInv, TokenInv
      <4> QED BY <1>1, <1>19, <4>2, <4>3 DEF HeldOK, Behind
    <3> QED BY <3>1, <3>2
  <2>2. ASSUME NEW r \in Reqs, status[r] = "active"
        PROVE  PendingOK(r)' /\ (Decoding(r)' => CountOK(r)')
    <3>1. PendingOK(r) /\ (Decoding(r) => CountOK(r))
      BY <2>2 DEF OverlapInv, TokenInv
    <3>2. CASE r \notin Elements(names)
      <4>1. ~InChunk(r)
        BY <1>1, <1>33, <3>2 DEF OverlapInv, PlaceInv, InChunk
      <4>2. PendingOK(r)'
        BY <1>1, <1>33, <1>38, <3>1, <3>2, <4>1 DEF PendingOK, Bit, Prefilling
      <4>3. Decoding(r)' => Decoding(r)
        BY <1>33, <3>2 DEF Decoding
      <4>4. CountOK(r) => CountOK(r)'
        BY <1>1, <1>33, <1>35, <1>37, <1>38, <3>2 DEF CountOK, InFlight
      <4> QED BY <3>1, <4>2, <4>3, <4>4
    <3>3. CASE r \in Elements(names)
      <4>1. /\ pending[r] = Bit(Short(1, r)) + Bit(Short(2, r)) + Bit(InChunk(r))
        BY <1>1, <3>1 DEF PendingOK, Bit
      <4>2. CASE l = 0
        <5>1. l + 1 = 1 /\ 2 # l + 1
          BY <4>2
        <5>2. /\ ~Short(1, r) /\ (Short(1, r)' <=> InChunk(r)) /\ (Short(2, r)' <=> Short(2, r))
              /\ (Holds(2, r)' => Short(2, r)') /\ Gain(2, r)' = 0 /\ ~Full(2, r)'
              /\ ~InChunk(r) => Full(1, r)' /\ Gain(1, r)' = 1 /\ RowIn(1, r).first' = Context(r) + 1
                                /\ committed[r] = Context(r) /\ dev'[r] = Context(r)
          BY <1>39, <3>3, <5>1
        <5>3. ~Short(2, r)
          BY <1>21, <4>2 DEF ResultAdded, Short
        <5>4. PendingOK(r)'
          BY <1>1, <1>19, <1>33, <4>1, <5>2, <5>3 DEF PendingOK, Bit, Prefilling
        <5>5. ~InChunk(r) => CountOK(r)'
          <6>1. SUFFICES ASSUME ~InChunk(r) PROVE CountOK(r)'
            OBVIOUS
          <6>2. Accepted(1, r)' = 0 /\ Accepted(2, r)' = 0
            BY <1>18, <1>21, <4>2, <5>1 DEF ResultAdded, Accepted, Holds
          <6>3. InFlight(r)' = 0
            BY <6>2 DEF InFlight
          <6>4. Context(r) \in Nat
            BY ContextFacts
          <6> QED BY <1>1, <1>33, <5>2, <6>1, <6>3, <6>4 DEF CountOK
        <5> QED BY <1>33, <1>34, <3>3, <5>4, <5>5 DEF Decoding
      <4>3. CASE l = 1
        <5>1. l + 1 = 2 /\ 1 # l + 1
          BY <4>3
        <5>2. /\ ~Short(2, r) /\ (Short(2, r)' <=> InChunk(r)) /\ (Short(1, r)' <=> Short(1, r))
              /\ (Holds(1, r)' => Short(1, r)') /\ Gain(1, r)' = 0 /\ ~Full(1, r)'
              /\ ~InChunk(r) => Full(2, r)' /\ Gain(2, r)' = 1 /\ RowIn(2, r).first' = Context(r) + 1
                                /\ committed[r] = Context(r) /\ dev'[r] = Context(r)
          BY <1>39, <3>3, <5>1
        <5>3. PendingOK(r)'
          BY <1>1, <1>19, <1>33, <4>1, <5>2 DEF PendingOK, Bit, Prefilling
        <5>4. ~InChunk(r) => CountOK(r)'
          <6>1. SUFFICES ASSUME ~InChunk(r) PROVE CountOK(r)'
            OBVIOUS
          <6>2. Accepted(1, r)' = 0 /\ Accepted(2, r)' = 0
            <7>1. Accepted(2, r)' = 0
              BY <1>21, <1>37, <5>1 DEF ResultAdded
            <7>2. Holds(1, r) => results[1].kind = "extend"
              BY <1>39, <1>21, <3>3, <5>1 DEF ResultAdded, Short
            <7>3. Accepted(1, r) = 0
              BY <7>2, AcceptedFacts
            <7> QED BY <1>37, <7>1, <7>3
          <6>3. InFlight(r)' = 0
            BY <6>2 DEF InFlight
          <6>4. Context(r) \in Nat
            BY ContextFacts
          <6> QED BY <1>1, <1>33, <5>2, <6>1, <6>3, <6>4 DEF CountOK
        <5> QED BY <1>33, <1>34, <3>3, <5>3, <5>4 DEF Decoding
      <4> QED BY <1>21, <4>2, <4>3 DEF ResultAdded
    <3> QED BY <3>2, <3>3
  <2>3. FreshOK'
    <3>1. SUFFICES ASSUME Len(results') = 2, NEW r \in Elements(names), Holds(1, r)' PROVE Short(1, r)'
      BY <1>26, <1>27 DEF FreshOK
    <3>2. 1 # l + 1
      BY <1>21, <3>1 DEF ResultAdded
    <3> QED BY <1>39, <3>1, <3>2
  <2> QED BY <1>1, <2>1, <2>2, <2>3 DEF TokenInv
<1>41. PICK c : c = running
  OBVIOUS
<1>42. PICK m \in 0..(MaxChunks + MaxCuts) : Rounds(m) /\ Reach(running, m) /\ Reach(Unmerged, m)
  BY <1>1 DEF OverlapInv, RingInv
<1>43. PICK x : x = Len(c.reqs)
  OBVIOUS
<1>44. PICK s : s = FutureLimit - 1 - (n + (MaxRunning - (x + n)) * (MaxChunks + 1) + m)
  OBVIOUS
<1>45. /\ x \in Nat /\ s \in Int /\ s + n <= FutureLimit - 1 /\ n <= s + n
       /\ s + n = FutureLimit - 1 - (0 + (MaxRunning - (x + n)) * (MaxChunks + 1) + m)
       /\ Spare(m) = s /\ Spare(m)' = s + n /\ Taken' <= MaxRunning
  <2>1. x \in Nat /\ x + 0 + n + 0 <= MaxRunning /\ MaxRunning \in Nat /\ MaxRunning >= 1
        /\ MaxChunks \in Nat /\ FutureLimit = MaxRunning * (MaxChunks + 1) + 2 * MaxRunning
        /\ MaxCuts \in 0..(2 * MaxRunning - 1)
    BY <1>20, <1>22, <1>41, <1>43, RingFacts, ChunksFacts
  <2>2. x + n \in Nat /\ x + n >= 1 /\ x + n <= MaxRunning /\ n \in 0..(x + n)
    BY <1>10, <2>1
  <2>3. /\ n <= FutureLimit - 1 - (0 + (MaxRunning - (x + n)) * (MaxChunks + 1) + m)
        /\ FutureLimit - 1 - (0 + (MaxRunning - (x + n)) * (MaxChunks + 1) + m) = s + n
        /\ s + n <= FutureLimit - 1
        /\ s \in Int
    BY <1>44, <2>1, <2>2, SpareRoom
  <2>4. Taken = x + n
    BY <1>10, <1>22, <1>41, <1>43, <2>1
  <2>5. Taken' = x + n + 0 + 0
    BY <1>1, <1>14, <1>19, <1>26, <1>27, <1>29, <1>41, <1>43, EmptyList DEF Taken, Bit
  <2>6. Taken' = x + n
    BY <1>10, <2>1, <2>5
  <2>7. Spare(m) = s
    BY <1>2, <1>9, <1>44, <2>4 DEF Spare
  <2>8. Spare(m)' = FutureLimit - 1 - (0 + (MaxRunning - (x + n)) * (MaxChunks + 1) + m)
    BY <1>29, <2>6, EmptyList DEF Spare
  <2> QED BY <2>1, <2>2, <2>3, <2>6, <2>7, <2>8
<1>46. \A i \in 1..Len(c.reqs) : /\ ring'[c.futures[i]] = ring[c.futures[i]]
                                 /\ \E e \in 0..(s + n) : Ago(c.futures[i], e)'
  <2>1. \A i \in 1..Len(c.reqs) : c.futures[i] \in 1..FutureBufferLen
    BY <1>41 DEF OverlapInv, RowsInv, RowOK
  <2>2. \A i \in 1..Len(c.reqs) : \E e \in 0..s : Ago(c.futures[i], e)
    BY <1>41, <1>42, <1>45 DEF Reach
  <2> QED BY <1>23, <1>24, <1>45, <2>1, <2>2, RowsKept
<1>47. RowsInv'
  <2>1. DOMAIN ring' = 1..FutureBufferLen
    BY <1>24 DEF RingDone
  <2>2. ASSUME NEW i \in 1..Len(c.reqs) PROVE RowOK(running, i)'
    <3>1. RowOK(running, i)
      BY <1>41 DEF OverlapInv, RowsInv
    <3>2. c.reqs[i] \in Reqs /\ c.reqs[i] \notin Elements(names)
      <4>1. c.reqs[i] \in Reqs /\ InRows(running, c.reqs[i])
        BY <1>20, <1>41, BatchTypes DEF InRows
      <4> QED BY <1>34, <4>1
    <3>3. dev'[c.reqs[i]] = dev[c.reqs[i]]
      BY <1>35, <3>2
    <3> QED BY <1>1, <1>41, <1>46, <3>1, <3>3 DEF RowOK
  <2>3. ASSUME NEW i \in 1..n PROVE RowOK(Unmerged, i)'
    <3>1. /\ f + i \in 1..FutureBufferLen /\ ring'[f + i] = entries[i]
      BY <1>24 DEF RingDone
    <3>2. dev'[names[i]] = segs[i].to
      BY <1>34, <1>28
    <3>3. entries[i] = Entry(names[i], dev'[names[i]])
      BY <1>15, <3>2
    <3> QED BY <1>26, <1>27, <3>1, <3>3 DEF RowOK
  <2> QED BY <1>1, <1>14, <1>26, <1>27, <1>41, <2>1, <2>2, <2>3 DEF RowsInv
<1>48. RingInv'
  <2>1. Rounds(m)'
    <3>1. chunk # NoChunk => Context(chunk.req)' = Context(chunk.req)
      BY <1>1 DEF Context
    <3> QED BY <1>1, <1>42, <3>1 DEF Rounds, Needs
  <2>2. Reach(running, m)'
    BY <1>1, <1>41, <1>45, <1>46 DEF Reach
  <2>3. ASSUME NEW i \in 1..n PROVE \E e \in 0..(s + n) : Ago(f + i, e)'
    <3>1. Ago(f + i, n - i)'
      BY <1>24 DEF RingDone
    <3>2. n - i \in 0..(s + n)
      BY <1>10, <1>45
    <3> QED BY <3>1, <3>2
  <2>4. Reach(Unmerged, m)'
    <3>1. \A i \in 1..n : \E e \in 0..Spare(m)' : Ago(Unmerged.futures[i], e)'
      BY <1>26, <1>27, <1>45, <2>3 DEF Ago
    <3> QED BY <1>14, <1>26, <1>27, <3>1 DEF Reach
  <2>5. future_ct' \in 0..(FutureLimit - 1)
    BY <1>24 DEF RingDone
  <2>6. cuts' \in 0..MaxCuts
    BY <1>1 DEF OverlapInv, RingInv
  <2> QED BY <1>45, <2>1, <2>2, <2>4, <2>5, <2>6 DEF RingInv
<1>49. PassInv'
  BY <1>26, <1>29 DEF PassInv
<1> QED BY <1>30, <1>31, <1>32, <1>36, <1>40, <1>47, <1>48, <1>49 DEF OverlapInv

LEMMA LaunchDecodeInv ==
  ASSUME OverlapInv, NEW acc \in [DOMAIN running.reqs -> 0..MaxAccept], LaunchDecode(acc)
  PROVE  OverlapInv'
<1>1. /\ pc = "launch" /\ cur.kind = "decode" /\ UNCHANGED <<chunk, raised>> /\ cuts' = 0
      /\ UNCHANGED <<status, out, committed, allocated, freed, pending>>
      /\ last' = [kind |-> "decode", batch |-> EmptyBatch]
  BY DEF LaunchDecode, reqVars
<1>2. PICK b : b = running
  OBVIOUS
<1>3. PICK names : names = b.reqs
  OBVIOUS
<1>4. PICK n : n = Len(names)
  OBVIOUS
<1>5. PICK d : d = dev
  OBVIOUS
<1>6. PICK f : f = future_ct
  OBVIOUS
<1>7. PICK l : l = Len(results)
  OBVIOUS
<1>8. cur.segs = <<>> /\ Len(cur.segs) = 0 /\ chunk = NoChunk /\ Unmerged = EmptyBatch /\ names # <<>>
  <2>1. cur.segs = <<>> /\ Unmerged = EmptyBatch /\ names # <<>>
    BY <1>1, <1>2, <1>3 DEF OverlapInv, LoopInv, Unmerged
  <2>2. Len(cur.segs) = 0
    BY <2>1, EmptyList
  <2>3. ~InSegs(chunk.req)
    BY <2>2 DEF InSegs
  <2> QED BY <1>1, <2>1, <2>2, <2>3 DEF OverlapInv, PlaceInv
<1>9. /\ BatchOK(b) /\ b \in BatchType /\ names \in Seq(Reqs) /\ n \in Nat /\ n >= 1 /\ DOMAIN names = 1..n
      /\ Unique(names) /\ InStep(b) /\ DOMAIN b.futures = 1..n
      /\ b = [reqs |-> names, lens |-> b.lens, futures |-> b.futures, rows |-> b.rows, full |-> b.full]
      /\ b.full \in BOOLEAN
  <2>1. BatchOK(b) /\ b \in BatchType /\ InStep(b)
    BY <1>2, <1>3, <1>8 DEF OverlapInv, LoopInv, BatchOK
  <2>2. names \in Seq(Reqs) /\ n \in Nat /\ n # 0 /\ DOMAIN names = 1..n /\ b.futures \in Seq(Nat)
        /\ b = [reqs |-> names, lens |-> b.lens, futures |-> b.futures, rows |-> b.rows, full |-> b.full]
        /\ b.full \in BOOLEAN
    BY <1>3, <1>4, <1>8, <2>1, BatchTypes
  <2>3. DOMAIN b.futures = 1..n
    BY <1>3, <1>4, <2>1, <2>2, LenProperties DEF InStep
  <2> QED BY <1>3, <2>1, <2>2, <2>3 DEF InStep
<1>10. /\ DOMAIN acc = 1..n /\ Len(acc) = n
       /\ \A i \in 1..n : acc[i] \in Nat /\ acc[i] + 1 \in Nat /\ 1 <= acc[i] + 1 /\ acc[i] + 1 <= MaxAccept + 1
  <2>1. MaxAccept \in Nat
    BY OverlapAssumption
  <2>2. acc \in [1..n -> 0..MaxAccept]
    BY <1>2, <1>3, <1>9
  <2>3. Len(acc) = n
    BY <1>9, <2>2, ListOf
  <2>4. ASSUME NEW i \in 1..n
        PROVE  acc[i] \in Nat /\ acc[i] + 1 \in Nat /\ 1 <= acc[i] + 1 /\ acc[i] + 1 <= MaxAccept + 1
    <3>1. acc[i] \in 0..MaxAccept
      BY <2>2
    <3> QED BY <2>1, <3>1
  <2> QED BY <2>2, <2>3, <2>4
<1>11. /\ d \in [Reqs -> Nat]
       /\ \A i \in 1..n : names[i] \in Reqs /\ d[names[i]] \in Nat
  <2>1. d \in [Reqs -> Nat]
    BY <1>5 DEF OverlapInv, ReqInv
  <2>2. \A i \in 1..n : names[i] \in Reqs
    BY <1>4, <1>9, ElementOfSeq
  <2> QED BY <2>1, <2>2
<1>12. PICK entries : entries = [i \in 1..n |-> Entry(names[i], d[names[i]] + acc[i] + 1)]
  OBVIOUS
<1>13. PICK tokens : tokens = [i \in 1..n |-> Tokens(d[names[i]] + 2, acc[i] + 1)]
  OBVIOUS
<1>14. \A i \in 1..n : Resolved(running)[i].req = names[i] /\ Resolved(running)[i].len = d[names[i]]
  <2> SUFFICES ASSUME NEW i \in 1..n
               PROVE  Resolved(running)[i].req = names[i] /\ Resolved(running)[i].len = d[names[i]]
    OBVIOUS
  <2>1. Resolved(running)[i] = ring[b.futures[i]]
    BY <1>2, <1>9 DEF Resolved
  <2>2. ring[b.futures[i]] = Entry(names[i], d[names[i]])
    BY <1>2, <1>3, <1>4, <1>5 DEF OverlapInv, RowsInv, RowOK
  <2> QED BY <2>1, <2>2 DEF Entry
<1>15. /\ Launched("decode", names, entries, tokens)
       /\ running' = [b EXCEPT !.lens = [i \in 1..n |-> entries[i].len],
                               !.futures = FutureIndices(n), !.rows = entries]
  <2> DEFINE old == Resolved(running)
             E == [i \in DOMAIN acc |-> Entry(old[i].req, old[i].len + acc[i] + 1)]
             T == [i \in DOMAIN acc |-> Tokens(old[i].len + 2, acc[i] + 1)]
  <2>1. /\ Launched("decode", running.reqs, E, T)
        /\ running' = [running EXCEPT !.lens = [i \in DOMAIN acc |-> E[i].len],
                                      !.futures = FutureIndices(Len(acc)), !.rows = E]
    BY DEF LaunchDecode
  <2>2. \A i \in 1..n : old[i].req = names[i] /\ old[i].len = d[names[i]]
    BY <1>14
  <2> HIDE DEF old
  <2>3. E = entries
    BY <1>10, <1>12, <2>2
  <2>4. T = tokens
    BY <1>10, <1>13, <2>2
  <2> HIDE DEF E, T
  <2> QED BY <1>2, <1>3, <1>10, <2>1, <2>3, <2>4
<1>16. /\ entries \in Seq(EntryType) /\ Len(entries) = n
       /\ \A i \in 1..n : /\ entries[i] = Entry(names[i], d[names[i]] + acc[i] + 1)
                          /\ entries[i].len = d[names[i]] + acc[i] + 1 /\ entries[i].len \in Nat
  <2>1. ASSUME NEW i \in 1..n
        PROVE  /\ entries[i] = Entry(names[i], d[names[i]] + acc[i] + 1) /\ entries[i] \in EntryType
               /\ entries[i].len = d[names[i]] + acc[i] + 1 /\ entries[i].len \in Nat
    <3> DEFINE x == d[names[i]] + acc[i] + 1
    <3>1. x \in Nat
      BY <1>10, <1>11
    <3>2. entries[i] = Entry(names[i], x)
      BY <1>12
    <3> HIDE DEF x
    <3>3. Entry(names[i], x) \in EntryType /\ Entry(names[i], x).len = x
      BY <1>11, <3>1 DEF Entry, EntryType
    <3> QED BY <3>1, <3>2, <3>3 DEF x
  <2>2. entries \in [1..n -> EntryType]
    BY <1>12, <2>1
  <2> QED BY <1>9, <2>1, <2>2, ListOf
<1>17. /\ tokens \in Seq(TokensType) /\ Len(tokens) = n
       /\ \A i \in 1..n : tokens[i].first = d[names[i]] + 2 /\ tokens[i].n = acc[i] + 1
  <2>1. ASSUME NEW i \in 1..n
        PROVE  tokens[i] \in TokensType /\ tokens[i].first = d[names[i]] + 2 /\ tokens[i].n = acc[i] + 1
    <3>1. d[names[i]] + 2 \in Nat /\ acc[i] + 1 \in Nat
      BY <1>10, <1>11
    <3>2. tokens[i] = Tokens(d[names[i]] + 2, acc[i] + 1)
      BY <1>13
    <3> QED BY <3>1, <3>2, TokensFacts
  <2>2. tokens \in [1..n -> TokensType]
    BY <1>13, <2>1
  <2> QED BY <1>9, <2>1, <2>2, ListOf
<1>18. PICK res : res = [kind |-> "decode", reqs |-> names, rows |-> tokens]
  OBVIOUS
<1>19. res \in ResultType /\ ResultOK(res) /\ res.kind = "decode" /\ res.reqs = names /\ res.rows = tokens
  <2>1. res.kind = "decode" /\ res.reqs = names /\ res.rows = tokens
    BY <1>18
  <2>2. res \in ResultType
    BY <1>9, <1>17, <1>18 DEF ResultType
  <2> QED BY <1>4, <1>9, <1>10, <1>17, <2>1, <2>2 DEF ResultOK
<1>20. /\ ring' = Stored([i \in 1..n |-> f + i], entries) /\ future_ct' = FutureCt(n)
       /\ results' = Append(results, res) /\ tail' = TRUE /\ cur' = NoSegs /\ pc' = "drain"
       /\ dev' = [r \in Reqs |-> IF r \in Elements(names) THEN entries[RowOf(names, r)].len ELSE dev[r]]
  BY <1>4, <1>6, <1>15, <1>18 DEF Launched, FutureIndices
<1>21. /\ l \in Nat /\ l <= 1
  <2>1. results \in Seq(ResultType) /\ l <= (IF last.kind = "none" THEN 0 ELSE 1)
    BY <1>1, <1>7 DEF OverlapInv, LoopInv, ResultsInv
  <2>2. l \in Nat
    BY <1>7, <2>1, LenProperties
  <2> QED BY <2>1, <2>2
<1>22. ResultAdded(l, res)
  BY <1>1, <1>7, <1>19, <1>20, <1>21, AppendResult
<1>23. n \in 1..MaxRunning
  <2>1. Taken = n + 0 + 0 + 0 /\ Taken <= MaxRunning
    BY <1>1, <1>2, <1>3, <1>4, <1>8, EmptyBatchFacts DEF Taken, Bit, OverlapInv, RingInv
  <2> QED BY <1>9, <2>1, RingFacts
<1>24. RingDone(n, f, entries) /\ f \in 0..(FutureLimit - 1) /\ f \in Nat
  <2>1. f \in 0..(FutureLimit - 1) /\ DOMAIN ring = 1..FutureBufferLen
    BY <1>6 DEF OverlapInv, RingInv, RowsInv
  <2> QED BY <1>6, <1>20, <1>23, <2>1, StoreFacts
<1>25. PICK c : c = [reqs |-> names, lens |-> [i \in 1..n |-> entries[i].len],
                     futures |-> [i \in 1..n |-> f + i], rows |-> entries, full |-> b.full]
  OBVIOUS
<1>26. running' = c
  <2> DEFINE lens == [i \in 1..n |-> entries[i].len]
             futures == [i \in 1..n |-> f + i]
  <2>1. running' = [b EXCEPT !.lens = lens, !.futures = futures, !.rows = entries]
    BY <1>6, <1>15 DEF FutureIndices
  <2>2. c = [reqs |-> names, lens |-> lens, futures |-> futures, rows |-> entries, full |-> b.full]
    BY <1>25
  <2> HIDE DEF lens, futures
  <2> DEFINE Fields == {"reqs", "lens", "futures", "rows", "full"}
             e == [b EXCEPT !.lens = lens, !.futures = futures, !.rows = entries]
  <2>3. b = [x \in Fields |-> b[x]]
    BY <1>9 DEF BatchType
  <2>4. e = [b EXCEPT !.lens = lens, !.futures = futures, !.rows = entries]
    OBVIOUS
  <2> HIDE DEF e
  <2>5. e = [x \in Fields |-> e[x]]
    BY <2>3, <2>4
  <2>6. /\ e.reqs = names /\ e.lens = lens /\ e.futures = futures /\ e.rows = entries /\ e.full = b.full
        /\ e = [reqs |-> e.reqs, lens |-> e.lens, futures |-> e.futures, rows |-> e.rows, full |-> e.full]
    BY <1>3, <2>3, <2>4, <2>5
  <2> QED BY <2>1, <2>2, <2>4, <2>6
<1>27. /\ BatchOK(c) /\ c \in BatchType /\ c.reqs = names /\ c.rows = entries
       /\ Len(c.lens) = n /\ \A i \in 1..n : c.lens[i] \in Nat
       /\ \A i \in 1..n : c.futures[i] = f + i
  <2>1. c.reqs = names /\ c.rows = entries /\ c.lens = [i \in 1..n |-> entries[i].len]
        /\ c.futures = [i \in 1..n |-> f + i]
    BY <1>25
  <2>2. c.lens \in [1..n -> Nat \cup {Unknown}] /\ \A i \in 1..n : c.lens[i] \in Nat
    BY <1>16, <2>1
  <2>3. c.futures \in [1..n -> Nat]
    BY <1>24, <2>1
  <2>4. c.lens \in Seq(Nat \cup {Unknown}) /\ Len(c.lens) = n
    BY <1>9, <2>2, ListOf
  <2>5. c.futures \in Seq(Nat) /\ Len(c.futures) = n
    BY <1>9, <2>3, ListOf
  <2>6. c \in BatchType
    BY <1>9, <1>16, <1>25, <2>1, <2>4, <2>5 DEF BatchType
  <2> QED BY <1>4, <1>9, <1>16, <2>1, <2>2, <2>4, <2>5, <2>6 DEF BatchOK, InStep
<1>28. /\ \A r \in Elements(names) : /\ r \in Reqs /\ RowOf(names, r) \in 1..n
                                     /\ names[RowOf(names, r)] = r
       /\ \A i \in 1..n : names[i] \in Elements(names) /\ RowOf(names, names[i]) = i
  BY <1>4, <1>9, <1>11, RowOfFacts
<1>29. /\ cur'.kind = "none" /\ cur'.segs = <<>> /\ cur' = [kind |-> cur'.kind, segs |-> cur'.segs]
  BY <1>20 DEF NoSegs
<1>30. /\ last'.kind = "decode" /\ last'.batch = EmptyBatch /\ Unmerged' = EmptyBatch
  BY <1>1, <1>20 DEF Unmerged
<1>31. LoopInv'
  <2>1. last' \in [kind : {"none", "extend", "decode"}, batch : BatchType]
    BY <1>1, EmptyBatchFacts
  <2>2. Len(results') <= 2 /\ Len(results') >= 1
    <3>1. Len(results') = l + 1
      BY <1>22 DEF ResultAdded
    <3> QED BY <1>21, <3>1
  <2> QED BY <1>20, <1>26, <1>27, <1>29, <1>30, <2>1, <2>2, EmptyBatchFacts DEF LoopInv
<1>32. ResultsInv'
  BY <1>22 DEF ResultAdded
<1>33. ReqInv'
  <2>1. dev' \in [Reqs -> Nat]
    <3>1. dev \in [Reqs -> Nat]
      BY DEF OverlapInv, ReqInv
    <3>2. \A r \in Elements(names) : entries[RowOf(names, r)].len \in Nat
      BY <1>16, <1>28
    <3> QED BY <1>20, <3>1, <3>2
  <2> QED BY <1>1, <2>1 DEF OverlapInv, ReqInv
<1>34. /\ \A r : Context(r)' = Context(r)
       /\ \A r : ~InChunk(r)' /\ ~InChunk(r)
       /\ \A r : InRows(running, r)' <=> r \in Elements(names)
       /\ \A r : InRows(running, r) <=> r \in Elements(names)
       /\ \A r : ~InRows(Unmerged, r)' /\ ~InRows(Unmerged, r)
       /\ \A r : ~InSegs(r)' /\ ~InSegs(r)
  <2>1. \A r : ~InSegs(r)' /\ ~InSegs(r)
    BY <1>8, <1>29, EmptyList DEF InSegs
  <2> QED BY <1>1, <1>2, <1>3, <1>8, <1>26, <1>27, <1>30, <2>1, EmptyBatchFacts DEF Context, InChunk, InRows
<1>35. PlaceInv'
  <2>1. \A r \in Elements(running'.reqs) : status'[r] \in {"active", "finished"}
    BY <1>1, <1>2, <1>3, <1>26, <1>27 DEF OverlapInv, PlaceInv
  <2>2. \A r \in Elements(Unmerged'.reqs) : FALSE
    BY <1>30, EmptyBatchFacts
  <2>3. \A i \in 1..Len(cur'.segs) : FALSE
    BY <1>29, EmptyList
  <2>4. cur'.segs \in Seq([req : Reqs, from : Nat, to : Nat \ {0}])
    BY <1>29, EmptySeq
  <2>5. \A r \in Reqs : status'[r] = "active" => InRows(running, r)'
    BY <1>1, <1>34 DEF OverlapInv, PlaceInv
  <2> QED BY <1>1, <1>8, <2>1, <2>2, <2>3, <2>4, <2>5 DEF PlaceInv
<1>36. ASSUME NEW r \in Elements(names)
       PROVE  /\ RowOf(names, r) \in 1..n /\ names[RowOf(names, r)] = r
              /\ dev'[r] = dev[r] + acc[RowOf(names, r)] + 1
              /\ Holds(l + 1, r)' /\ ~Short(l + 1, r)' /\ Full(l + 1, r)'
              /\ Gain(l + 1, r)' = acc[RowOf(names, r)] + 1
              /\ Accepted(l + 1, r)' = acc[RowOf(names, r)] + 1
              /\ RowIn(l + 1, r).first' = dev[r] + 2
              /\ status[r] \in {"active", "finished"}
  <2> DEFINE i == RowOf(names, r)
  <2>1. i \in 1..n /\ names[i] = r /\ r \in Reqs
    BY <1>28
  <2> HIDE DEF i
  <2>2. dev'[r] = entries[i].len
    BY <1>20, <1>36, <2>1 DEF i
  <2>3. dev'[r] = dev[r] + acc[i] + 1
    BY <1>5, <1>16, <2>1, <2>2
  <2>4. /\ Holds(l + 1, r)' /\ RowIn(l + 1, r)' = tokens[i] /\ results'[l + 1] = res
        /\ Len(results') = l + 1
    BY <1>19, <1>22, <1>36 DEF ResultAdded, i
  <2>5. ~Short(l + 1, r)'
    BY <1>19, <2>4 DEF Short
  <2>6. Full(l + 1, r)'
    BY <2>4, <2>5 DEF Full
  <2>7. Gain(l + 1, r)' = acc[i] + 1 /\ RowIn(l + 1, r).first' = dev[r] + 2
    BY <1>5, <1>17, <2>1, <2>4, <2>6 DEF Gain
  <2>8. Accepted(l + 1, r)' = RowIn(l + 1, r).n'
    <3>1. l + 1 <= Len(results')
      BY <1>21, <2>4
    <3> QED BY <1>19, <1>36, <2>4, <3>1 DEF Accepted, RowIn
  <2>9. Accepted(l + 1, r)' = acc[i] + 1
    BY <1>17, <2>1, <2>4, <2>8
  <2>10. status[r] \in {"active", "finished"}
    BY <1>2, <1>3, <1>36 DEF OverlapInv, PlaceInv
  <2> QED BY <2>1, <2>3, <2>4, <2>5, <2>6, <2>7, <2>9, <2>10 DEF i
<1>37. TokenInv'
  <2>1. ASSUME NEW r \in Reqs, NEW k \in {1, 2}, Holds(k, r)' PROVE HeldOK(k, r)'
    <3>1. CASE k = l + 1
      <4>1. r \in Elements(names)
        BY <1>19, <1>22, <2>1, <3>1 DEF ResultAdded
      <4> QED BY <1>1, <1>36, <4>1 DEF HeldOK
    <3>2. CASE k # l + 1
      <4>1. Holds(k, r)
        BY <1>22, <2>1, <3>2 DEF ResultAdded
      <4>2. l = 1 /\ Len(results') = 2
        BY <1>22, <4>1 DEF ResultAdded
      <4>3. HeldOK(k, r)
        BY <4>1 DEF OverlapInv, TokenInv
      <4> QED BY <1>1, <1>20, <4>2, <4>3 DEF HeldOK, Behind
    <3> QED BY <3>1, <3>2
  <2>2. ASSUME NEW r \in Reqs, status[r] = "active"
        PROVE  PendingOK(r)' /\ CountOK(r)'
    <3>1. r \in Elements(names) /\ Decoding(r)
      BY <1>34, <2>2 DEF OverlapInv, PlaceInv, Decoding
    <3>2. PendingOK(r) /\ CountOK(r)
      BY <2>2, <3>1 DEF OverlapInv, TokenInv
    <3> DEFINE a == acc[RowOf(names, r)]
               x == Context(r)
               e == dev[r]
               g == Gain(1, r)
               w == committed[r]
               y == Accepted(1, r)
    <3>3. /\ dev'[r] = e + a + 1 /\ Full(l + 1, r)' /\ ~Short(l + 1, r)' /\ Gain(l + 1, r)' = a + 1
          /\ Accepted(l + 1, r)' = a + 1 /\ RowIn(l + 1, r).first' = e + 2
      BY <1>36, <3>1
    <3>4. /\ a \in Nat /\ x \in Nat /\ e \in Nat /\ w \in Int
      BY <1>10, <1>28, <2>2, <3>1, ContextFacts DEF OverlapInv, ReqInv
    <3>5. g \in Nat /\ y \in Nat
      <4>1. y \in 0..(MaxAccept + 1)
        BY AcceptedFacts
      <4>2. Holds(1, r) => RowIn(1, r).n \in Nat
        BY ResultRow
      <4>3. g \in Nat
        BY <4>2 DEF Gain, Full
      <4> QED BY <4>1, <4>3, OverlapAssumption
    <3>6. \A k \in {1, 2} : Short(k, r)' <=> Short(k, r)
      <4>1. ~Short(l + 1, r)
        BY <1>22 DEF ResultAdded, Short
      <4> QED BY <1>22, <3>3, <4>1 DEF ResultAdded
    <3>7. /\ x + g + Gain(2, r) = e + 1 /\ w + (y + Accepted(2, r)) = e
          /\ Full(1, r) => RowIn(1, r).first = x + 1
      BY <3>2 DEF CountOK, InFlight
    <3>8. CASE l = 0
      <4>1. /\ g = 0 /\ y = 0 /\ Gain(2, r) = 0 /\ Accepted(2, r) = 0
            /\ ~Holds(1, r) /\ ~Holds(2, r)
        <5>1. l + 1 = 1 /\ ~Holds(1, r) /\ ~Holds(2, r)
          BY <1>22, <3>8 DEF ResultAdded
        <5> QED BY <5>1, AcceptedFacts DEF Gain, Full
      <4>2. /\ ~Full(2, r)' /\ Gain(2, r)' = 0 /\ Accepted(2, r)' = 0 /\ ~Holds(2, r)'
        <5>1. 2 # l + 1
          BY <3>8
        <5> QED BY <1>22, <4>1, <5>1 DEF ResultAdded, Full
      <4>3. Full(1, r)' /\ Gain(1, r)' = a + 1 /\ Accepted(1, r)' = a + 1 /\ RowIn(1, r).first' = e + 2
        <5>1. l + 1 = 1
          BY <3>8
        <5> QED BY <3>3, <5>1
      <4>4. PendingOK(r)'
        BY <1>1, <1>20, <1>34, <3>2, <3>6, <4>1, <4>2 DEF PendingOK, Bit, Prefilling, Short
      <4>5. Context(r)' = x /\ committed'[r] = w /\ InFlight(r)' = (a + 1) + 0
        BY <1>1, <1>34, <4>2, <4>3 DEF InFlight
      <4> HIDE DEF a, x, e, g, w, y
      <4>6. /\ x + (a + 1) + 0 = (e + a + 1) + 1 /\ e + 2 = x + 1
            /\ w + ((a + 1) + 0) = e + a + 1
        BY <3>4, <3>7, <4>1
      <4>7. CountOK(r)'
        BY <3>3, <4>2, <4>3, <4>5, <4>6 DEF CountOK
      <4> QED BY <4>4, <4>7
    <3>9. CASE l = 1
      <4>1. /\ Gain(2, r) = 0 /\ Accepted(2, r) = 0 /\ ~Holds(2, r)
        <5>1. l + 1 = 2 /\ ~Holds(2, r)
          BY <1>22, <3>9 DEF ResultAdded
        <5> QED BY <5>1, AcceptedFacts DEF Gain, Full
      <4>2. /\ Full(1, r)' <=> Full(1, r)
            /\ Full(1, r) => RowIn(1, r)' = RowIn(1, r)
            /\ Gain(1, r)' = g /\ Accepted(1, r)' = y
        <5>1. 1 # l + 1
          BY <3>9
        <5> QED BY <1>22, <5>1 DEF ResultAdded, Full
      <4>3. Full(2, r)' /\ Gain(2, r)' = a + 1 /\ Accepted(2, r)' = a + 1 /\ RowIn(2, r).first' = e + 2
            /\ ~Short(2, r)'
        <5>1. l + 1 = 2
          BY <3>9
        <5> QED BY <3>3, <5>1
      <4>4. PendingOK(r)'
        BY <1>1, <1>20, <1>34, <3>2, <3>6, <4>3 DEF PendingOK, Bit, Prefilling
      <4>5. Context(r)' = x /\ committed'[r] = w /\ InFlight(r)' = y + (a + 1)
        BY <1>1, <1>34, <4>2, <4>3 DEF InFlight
      <4>6. Full(1, r)' => RowIn(1, r).first' = x + 1
        BY <3>7, <4>2
      <4> HIDE DEF a, x, e, g, w, y
      <4>7. /\ x + g + (a + 1) = (e + a + 1) + 1 /\ e + 2 = x + g + 1
            /\ w + (y + (a + 1)) = e + a + 1
        BY <3>4, <3>5, <3>7, <4>1
      <4>8. CountOK(r)'
        BY <3>3, <4>2, <4>3, <4>5, <4>6, <4>7 DEF CountOK
      <4> QED BY <4>4, <4>8
    <3> QED BY <1>22, <3>8, <3>9 DEF ResultAdded
  <2>3. FreshOK'
    BY <1>30, EmptyBatchFacts DEF FreshOK
  <2> QED BY <1>1, <2>1, <2>2, <2>3 DEF TokenInv
<1>38. RowsInv'
  <2>1. DOMAIN ring' = 1..FutureBufferLen
    BY <1>24 DEF RingDone
  <2>2. ASSUME NEW i \in 1..n PROVE RowOK(running, i)'
    <3>1. /\ f + i \in 1..FutureBufferLen /\ ring'[f + i] = entries[i]
      BY <1>24 DEF RingDone
    <3>2. dev'[names[i]] = d[names[i]] + acc[i] + 1
      BY <1>5, <1>28, <1>36
    <3>3. entries[i] = Entry(names[i], dev'[names[i]])
      BY <1>16, <3>2
    <3> QED BY <1>26, <1>27, <3>1, <3>3 DEF RowOK
  <2>3. \A i \in 1..Len(Unmerged'.reqs) : FALSE
    BY <1>30, EmptyBatchFacts
  <2> QED BY <1>4, <1>26, <1>27, <2>1, <2>2, <2>3 DEF RowsInv
<1>39. RingInv'
  <2>0. PICK z : z = MaxCuts
    OBVIOUS
  <2>1. Taken' = n + 0 + 0 + 0
    BY <1>4, <1>20, <1>26, <1>27, <1>29, <1>30, EmptyBatchFacts, EmptyList DEF Taken, Bit
  <2>2. Taken' = n
    BY <1>9, <2>1
  <2>3. Spare(z)' = FutureLimit - 1 - (0 + (MaxRunning - n) * (MaxChunks + 1) + z)
    BY <1>29, <2>2, EmptyList DEF Spare
  <2>4. n <= FutureLimit - 1 - (0 + (MaxRunning - n) * (MaxChunks + 1) + z)
        /\ FutureLimit - 1 - (0 + (MaxRunning - n) * (MaxChunks + 1) + z) \in Int
    <3>1. n \in 0..n /\ n >= 1 /\ n <= MaxRunning /\ z \in 0..(MaxChunks + MaxCuts) /\ MaxRunning \in Nat
          /\ MaxRunning >= 1 /\ MaxChunks \in Nat
          /\ FutureLimit = MaxRunning * (MaxChunks + 1) + 2 * MaxRunning
          /\ MaxCuts \in 0..(2 * MaxRunning - 1)
      BY <1>9, <1>23, <2>0, RingFacts, ChunksFacts
    <3>2. PICK m \in 0..(MaxChunks + MaxCuts) : m = z
      BY <3>1
    <3>3. /\ n <= FutureLimit - 1 - (0 + (MaxRunning - n) * (MaxChunks + 1) + m)
          /\ FutureLimit - 1 - (0 + (MaxRunning - n) * (MaxChunks + 1) + m)
               = (FutureLimit - 1 - (n + (MaxRunning - n) * (MaxChunks + 1) + m)) + n
          /\ FutureLimit - 1 - (n + (MaxRunning - n) * (MaxChunks + 1) + m) \in Int
      <4> HIDE <3>2
      <4> QED BY <1>9, <3>1, SpareRoom
    <3>4. FutureLimit - 1 - (0 + (MaxRunning - n) * (MaxChunks + 1) + m) \in Int
      BY <1>9, <3>3
    <3> QED BY <3>2, <3>3, <3>4
  <2>5. PICK s \in Int : s = FutureLimit - 1 - (0 + (MaxRunning - n) * (MaxChunks + 1) + z)
    BY <2>4
  <2>6. ASSUME NEW i \in 1..n PROVE \E e \in 0..s : Ago(f + i, e)'
    <3>1. Ago(f + i, n - i)'
      BY <1>24 DEF RingDone
    <3>2. n - i \in 0..s
      BY <1>9, <2>4, <2>5
    <3> QED BY <3>1, <3>2
  <2>7. Reach(running, z)'
    <3>1. \A i \in 1..n : \E e \in 0..Spare(z)' : Ago(running.futures[i], e)'
      BY <1>26, <1>27, <2>3, <2>5, <2>6 DEF Ago
    <3> QED BY <1>4, <1>26, <1>27, <3>1 DEF Reach
  <2>8. Reach(Unmerged, z)'
    BY <1>30, EmptyBatchFacts DEF Reach
  <2>9. Rounds(z)' /\ z \in 0..(MaxChunks + MaxCuts) /\ cuts' \in 0..MaxCuts
    <3>1. 0 \in 0..MaxChunks /\ z = 0 + (MaxCuts - 0)
      BY <2>0, ChunksFacts, RingFacts
    <3>2. Needs(0)'
      BY <1>1, <1>8 DEF Needs
    <3>3. Rounds(z)'
      BY <1>1, <3>1, <3>2 DEF Rounds
    <3> QED BY <1>1, <2>0, <3>3, ChunksFacts, RingFacts
  <2>10. future_ct' \in 0..(FutureLimit - 1)
    BY <1>24 DEF RingDone
  <2>11. Taken' <= MaxRunning
    BY <1>23, <2>2, RingFacts
  <2> QED BY <2>7, <2>8, <2>9, <2>10, <2>11 DEF RingInv
<1>40. PassInv'
  BY <1>26, <1>27, <1>29 DEF PassInv
<1> QED BY <1>31, <1>32, <1>33, <1>35, <1>37, <1>38, <1>39, <1>40 DEF OverlapInv

-----------------------------------------------------------------------------
(* Results. *)

\* The queue without its first result.
ResultPopped ==
  /\ ResultsInv' /\ Len(results) \in {1, 2} /\ Len(results') = Len(results) - 1
  /\ \A r : /\ Holds(1, r)' <=> Holds(2, r)
            /\ ~Holds(2, r)'
            /\ Holds(2, r) => RowIn(1, r)' = RowIn(2, r) /\ results'[1].kind = results[2].kind
            /\ Accepted(1, r)' = Accepted(2, r) /\ Accepted(2, r)' = 0

LEMMA PopResult ==
  ASSUME OverlapInv, results # <<>>, results' = Tail(results)
  PROVE  ResultPopped /\ Head(results) = results[1]
<1>1. PICK l : l = Len(results)
  OBVIOUS
<1>2. results \in Seq(ResultType) /\ l \in {1, 2} /\ \A k \in 1..l : ResultOK(results[k])
  <2>1. results \in Seq(ResultType) /\ l <= 2 /\ \A k \in 1..l : ResultOK(results[k])
    BY <1>1 DEF OverlapInv, LoopInv, ResultsInv
  <2>2. l \in Nat /\ l # 0
    BY <1>1, <2>1, LenProperties, EmptySeq
  <2> QED BY <2>1, <2>2
<1>3. /\ results' \in Seq(ResultType) /\ Len(results') = l - 1 /\ Head(results) = results[1]
      /\ \A k \in 1..(l - 1) : results'[k] = results[k + 1]
  BY <1>1, <1>2, HeadTailProperties
<1>4. ResultsInv'
  <2>1. ASSUME NEW k \in 1..(l - 1) PROVE ResultOK(results'[k])
    <3>1. k + 1 \in 1..l
      BY <1>2
    <3> QED BY <1>2, <1>3, <3>1
  <2>2. \A k \in 1..Len(results') : ResultOK(results[k])'
    BY <1>3, <2>1 DEF ResultOK
  <2> QED BY <1>3, <2>2 DEF ResultsInv
<1>5. /\ 1 \in 1..Len(results') <=> 2 \in 1..Len(results)
      /\ 1 <= Len(results') <=> 2 <= Len(results)
      /\ 2 \notin 1..Len(results') /\ ~(2 <= Len(results'))
      /\ 2 \in 1..Len(results) <=> 2 <= Len(results)
  BY <1>1, <1>2, <1>3
<1>6. 2 \in 1..Len(results) => results'[1] = results[2]
  BY <1>1, <1>2, <1>3
<1>7. \A r : (Holds(1, r)' <=> Holds(2, r)) /\ ~Holds(2, r)'
  BY <1>5, <1>6 DEF Holds
<1>8. \A r : Holds(2, r) => RowIn(1, r)' = RowIn(2, r) /\ results'[1].kind = results[2].kind
  BY <1>6 DEF Holds, RowIn
<1>9. \A r : Accepted(1, r)' = Accepted(2, r) /\ Accepted(2, r)' = 0
  BY <1>5, <1>6 DEF Accepted
<1> QED BY <1>1, <1>2, <1>3, <1>4, <1>7, <1>8, <1>9 DEF ResultPopped

\* A request that is served decodes, and the result brings its next tokens; an active
\* request that is not served still has segments of its prompt to come.
ServedOK(r) ==
  /\ Holds(1, r) /\ status[r] = "active" /\ Full(1, r) /\ ~Short(1, r) /\ ~Short(2, r)
  /\ ~Prefilling(r) /\ Decoding(r) /\ CountOK(r) /\ pending[r] = 0

LEMMA ServedFacts ==
  ASSUME OverlapInv, results # <<>>, NEW r \in Reqs
  PROVE  /\ r \in Served(results[1]) => ServedOK(r)
         /\ Holds(1, r) <=> r \in Elements(results[1].reqs)
         /\ status[r] = "active" /\ Holds(1, r) /\ r \notin Served(results[1])
              => Short(1, r) /\ results[1].kind = "extend" /\ StillChunked(r)
<1>1. Holds(1, r) <=> r \in Elements(results[1].reqs)
  <2>1. results \in Seq(ResultType)
    BY DEF OverlapInv, ResultsInv
  <2>2. Len(results) \in Nat /\ Len(results) # 0
    BY <2>1, LenProperties, EmptySeq
  <2>3. \A n \in Nat : n # 0 => 1 \in 1..n
    OBVIOUS
  <2> QED BY <2>2, <2>3 DEF Holds
<1>2. Holds(1, r) => results[1].kind \in {"extend", "decode"}
  BY ResultRow
<1>3. status[r] = "active" =>
        /\ pending[r] = Bit(Short(1, r)) + Bit(Short(2, r)) + Bit(pc = "launch" /\ InChunk(r))
        /\ Short(2, r) /\ Holds(1, r) => Short(1, r)
        /\ Prefilling(r) => (Holds(1, r) => Short(1, r))
        /\ Decoding(r) => CountOK(r)
  BY DEF OverlapInv, TokenInv, PendingOK
<1>4. ASSUME r \in Served(results[1]) PROVE ServedOK(r)
  <2>1. Holds(1, r) /\ status[r] = "active"
    <3>1. Holds(1, r) /\ ~Skipped(r)
      BY <1>1, <1>4 DEF Served
    <3>2. HeldOK(1, r)
      BY <3>1 DEF OverlapInv, TokenInv
    <3> QED BY <3>1, <3>2 DEF HeldOK, Skipped
  <2>2. ~Short(1, r)
    <3>1. SUFFICES ASSUME Short(1, r) PROVE FALSE
      OBVIOUS
    <3>2. results[1].kind = "extend"
      BY <3>1 DEF Short
    <3>3. ~(pending[r] > 0)
      BY <1>4, <3>2 DEF Served, StillChunked
    <3>4. pending[r] > 0
      BY <1>3, <2>1, <3>1 DEF Bit
    <3> QED BY <3>3, <3>4
  <2>3. ~Short(2, r) /\ ~Prefilling(r)
    BY <1>3, <2>1, <2>2
  <2>4. pending[r] = 0
    BY <1>3, <2>1, <2>2, <2>3 DEF Bit, Prefilling
  <2>5. Decoding(r)
    BY <2>1, <2>3 DEF OverlapInv, PlaceInv, Prefilling, Decoding
  <2> QED BY <1>3, <2>1, <2>2, <2>3, <2>4, <2>5 DEF ServedOK, Full
<1>5. ASSUME status[r] = "active", Holds(1, r), r \notin Served(results[1])
      PROVE  Short(1, r) /\ results[1].kind = "extend" /\ StillChunked(r)
  <2>1. results[1].kind = "extend" /\ pending[r] > 0 /\ StillChunked(r)
    BY <1>1, <1>2, <1>5 DEF Served, Skipped, StillChunked
  <2>2. Short(1, r) \/ Short(2, r) \/ InChunk(r)
    BY <1>3, <1>5, <2>1 DEF Bit
  <2> QED BY <1>3, <1>5, <2>1, <2>2 DEF Prefilling
<1> QED BY <1>1, <1>4, <1>5

\* What a served request has then: its tokens, in order, with those of the result.
LEMMA DeliveredFacts ==
  ASSUME OverlapInv, results # <<>>, NEW r \in Reqs, r \in Served(results[1])
  PROVE  /\ Delivered(results[1], r) \in Seq(Nat)
         /\ Len(Delivered(results[1], r)) = Len(out[r]) + RowIn(1, r).n
         /\ \A k \in 1..Len(Delivered(results[1], r)) : Delivered(results[1], r)[k] = PromptLen(r) + k
         /\ Gain(1, r) = RowIn(1, r).n /\ RowIn(1, r).n \in Nat
<1> DEFINE row == RowIn(1, r)
           n == row.n
           first == row.first
           l == Len(out[r])
           p == PromptLen(r)
           o == out[r]
           g == [j \in 1..n |-> first + j - 1]
<1>1. ServedOK(r)
  BY ServedFacts
<1>2. n \in Nat /\ Gain(1, r) = n
  BY <1>1, ResultRow DEF ServedOK, Gain
<1>3. first = Context(r) + 1
  BY <1>1 DEF ServedOK, CountOK
<1>4. /\ o \in Seq(Nat) /\ l \in Nat /\ p \in Nat /\ \A k \in 1..l : o[k] = p + k
      /\ first = p + l + 1
  BY <1>3, ContextFacts DEF OverlapInv, ReqInv
<1>5. Delivered(results[1], r) = o \o g
  BY DEF Delivered, RowIn
<1>6. Len(o) = l
  OBVIOUS
<1> HIDE DEF n, first, l, p, o
<1>7. g \in [1..n -> Nat] /\ \A j \in 1..n : g[j] = p + (l + j)
  BY <1>2, <1>4
<1>8. g \in Seq(Nat) /\ Len(g) = n
  BY <1>2, <1>7, ListOf
<1> HIDE DEF g
<1>9. Joined(Nat, o, g, o \o g)
  BY <1>4, <1>8, ConcatJoins
<1>10. ASSUME NEW k \in 1..(l + n) PROVE (o \o g)[k] = p + k
  <2>1. CASE k <= l
    <3>1. k \in 1..l
      BY <1>4, <2>1
    <3> QED BY <1>4, <1>6, <1>9, <3>1 DEF Joined
  <2>2. CASE k > l
    <3>1. PICK j \in 1..n : k = l + j
      <4>1. k - l \in 1..n /\ k = l + (k - l)
        BY <1>2, <1>4, <2>2
      <4> QED BY <4>1
    <3>2. (o \o g)[l + j] = g[j]
      BY <1>6, <1>8, <1>9 DEF Joined
    <3> QED BY <1>7, <3>1, <3>2
  <2>3. k <= l \/ k > l
    BY <1>2, <1>4
  <2> QED BY <2>1, <2>2, <2>3
<1>11. o \o g \in Seq(Nat) /\ Len(o \o g) = l + n
  BY <1>6, <1>8, <1>9 DEF Joined
<1> DEFINE D == Delivered(results[1], r)
<1>12. D = o \o g
  BY <1>5
<1> HIDE DEF D
<1>13. D \in Seq(Nat) /\ Len(D) = l + n /\ \A k \in 1..Len(D) : D[k] = p + k
  BY <1>10, <1>11, <1>12
<1> QED BY <1>2, <1>13 DEF n, l, p, D

\* Handling the oldest result, before or after the launch.
LEMMA ApplyInv ==
  ASSUME OverlapInv, NEW stops \in SUBSET Reqs, Apply(stops), results # <<>>,
         UNCHANGED <<allocated, chunk, cuts, cur, running, last, ring, future_ct, dev, tail>>,
         (pc = "launch" /\ pc' = "launch") \/ (pc = "drain" /\ Behind /\ pc' = "recv")
  PROVE  OverlapInv'
<1>1. PICK res : res = results[1]
  OBVIOUS
<1>2. PICK S : S = Served(res)
  OBVIOUS
<1>3. ResultPopped /\ Head(results) = res
  BY <1>1, PopResult DEF Apply
<1>4. /\ stops \subseteq S
      /\ \A r \in S : Len(Delivered(res, r)) >= MaxNew => r \in stops
      /\ out' = [r \in Reqs |-> IF r \in S THEN Delivered(res, r) ELSE out[r]]
      /\ committed' = IF res.kind = "decode" THEN CommittedAfter(res) ELSE committed
      /\ pending' = [r \in Reqs |->
           IF res.kind = "extend" /\ r \in Elements(res.reqs) \ S /\ ~Skipped(r)
           THEN pending[r] - 1 ELSE pending[r]]
      /\ status' = [r \in Reqs |-> IF r \in stops THEN "finished" ELSE status[r]]
      /\ raised' = (raised \/ \E r \in stops : freed[r])
      /\ freed' = [r \in Reqs |-> freed[r] \/ r \in stops]
  BY <1>2, <1>3 DEF Apply, StopAllowed, Released
<1>5. /\ \A r \in Reqs : Holds(1, r) <=> r \in Elements(res.reqs)
      /\ \A r \in Reqs : r \in S => ServedOK(r)
      /\ \A r \in Reqs : status[r] = "active" /\ Holds(1, r) /\ r \notin S
                           => Short(1, r) /\ res.kind = "extend" /\ StillChunked(r)
  BY <1>1, <1>2, ServedFacts
<1>6. S \subseteq Reqs
  <2>1. res \in ResultType
    <3>1. results \in Seq(ResultType) /\ 1 \in 1..Len(results)
      BY <1>3 DEF OverlapInv, ResultsInv, ResultPopped
    <3> QED BY <1>1, <3>1, ElementOfSeq
  <2>2. res.reqs \in Seq(Reqs)
    BY <2>1 DEF ResultType
  <2>3. Elements(res.reqs) \subseteq Reqs
    BY <2>2, LenProperties, ElementOfSeq DEF Elements
  <2> QED BY <1>2, <2>3 DEF Served
<1>7. /\ \A r \in Reqs : r \in stops => status'[r] = "finished" /\ r \in S
      /\ \A r \in Reqs : r \notin stops => status'[r] = status[r]
      /\ \A r \in Reqs : status'[r] = "active" => status[r] = "active" /\ r \notin stops
      /\ \A r \in Reqs : r \notin S => out'[r] = out[r] /\ status'[r] = status[r]
  BY <1>4
<1>8. ASSUME NEW r \in S
      PROVE  /\ out'[r] = Delivered(res, r) /\ out'[r] \in Seq(Nat)
             /\ Len(out'[r]) = Len(out[r]) + RowIn(1, r).n
             /\ \A k \in 1..Len(out'[r]) : out'[r][k] = PromptLen(r) + k
             /\ Gain(1, r) = RowIn(1, r).n /\ RowIn(1, r).n \in Nat
  <2>1. out'[r] = Delivered(res, r) /\ r \in Reqs
    BY <1>4, <1>6
  <2>2. r \in Served(results[1])
    BY <1>1, <1>2
  <2> QED BY <1>1, <2>1, <2>2, DeliveredFacts
<1>9. /\ \A r \in S : Context(r)' = Context(r) + Gain(1, r)
      /\ \A r \in Reqs : r \notin S => Context(r)' = Context(r)
  <2>1. ASSUME NEW r \in S PROVE Context(r)' = Context(r) + Gain(1, r)
    <3> DEFINE p == PromptLen(r)
               l == Len(out[r])
               n == RowIn(1, r).n
    <3>1. p \in Nat /\ l \in Nat /\ n \in Nat /\ Context(r) = p + l /\ Gain(1, r) = n
      BY <1>6, <1>8, ContextFacts
    <3>2. Context(r)' = p + (l + n)
      BY <1>8 DEF Context
    <3> HIDE DEF p, l, n
    <3>3. p + (l + n) = (p + l) + n
      BY <3>1
    <3> QED BY <3>1, <3>2, <3>3
  <2> QED BY <1>7, <2>1 DEF Context
<1>10. Unmerged' = Unmerged
  BY DEF Unmerged
<1>11. /\ \A r : InSegs(r)' <=> InSegs(r)
       /\ \A r : InChunk(r)' <=> InChunk(r)
       /\ \A r : InRows(running, r)' <=> InRows(running, r)
       /\ \A r : InRows(Unmerged, r)' <=> InRows(Unmerged, r)
       /\ \A r : (pc' = "launch" /\ InChunk(r)') <=> (pc = "launch" /\ InChunk(r))
  BY <1>10 DEF InSegs, InChunk, InRows
<1>12. \A r : (Decoding(r)' <=> Decoding(r)) /\ (Prefilling(r)' <=> Prefilling(r))
  BY <1>11 DEF Decoding, Prefilling
<1>13. ASSUME NEW r \in Reqs, Prefilling(r), status[r] = "active"
       PROVE  r \notin S /\ status'[r] = "active" /\ Context(r)' = Context(r) /\ committed'[r] = committed[r]
  <2>1. r \notin S
    BY <1>5, <1>13 DEF ServedOK
  <2>2. res.kind = "decode" => r \notin Elements(res.reqs)
    BY <1>5, <1>13, <2>1
  <2>3. committed'[r] = committed[r]
    <3>1. CASE res.kind = "decode"
      BY <1>4, <2>2, <3>1 DEF CommittedAfter
    <3>2. CASE res.kind # "decode"
      BY <1>4, <3>2
    <3> QED BY <3>1, <3>2
  <2> QED BY <1>7, <1>9, <1>13, <2>1, <2>3
<1>14. \A r \in Elements(Unmerged.reqs) : r \notin S
  <2>1. CASE pc = "launch"
    BY <2>1, EmptyBatchFacts DEF Unmerged
  <2>2. CASE pc = "drain" /\ Len(results) = 2
    <3>1. \A r \in Elements(Unmerged.reqs) : Holds(1, r) => Short(1, r)
      BY <2>2 DEF OverlapInv, TokenInv, FreshOK, Unmerged
    <3> QED BY <1>5, <1>6, <3>1 DEF ServedOK
  <2>3. CASE pc = "drain" /\ last.kind = "none"
    <3>1. Unmerged = EmptyBatch
      BY <2>3 DEF OverlapInv, LoopInv, Unmerged
    <3> QED BY <3>1, EmptyBatchFacts
  <2> QED BY <2>1, <2>2, <2>3 DEF Behind
<1>15. LoopInv'
  <2>1. Len(results) \in {1, 2} /\ Len(results') = Len(results) - 1
    BY <1>3 DEF ResultPopped
  <2>2. Len(results') \in {0, 1} /\ (Len(results) = 1 => Len(results') = 0) /\ (Len(results) = 2 => Len(results') = 1)
    BY <2>1
  <2>3. CASE pc = "launch"
    <3>1. Len(results) = 1
      <4>1. Len(results) <= (IF last.kind = "none" THEN 0 ELSE 1)
        BY <2>3 DEF OverlapInv, LoopInv
      <4> QED BY <2>1, <4>1
    <3>2. Len(results') = 0
      BY <2>2, <3>1
    <3> QED BY <2>3, <3>2 DEF OverlapInv, LoopInv
  <2>4. CASE pc = "drain" /\ Behind /\ pc' = "recv"
    <3>1. IF last.kind = "none" THEN Len(results) <= 1 ELSE Len(results) >= 1
      BY <2>4 DEF OverlapInv, LoopInv
    <3>2. Len(results') = IF last.kind = "none" THEN 0 ELSE 1
      BY <2>1, <2>2, <2>4, <3>1 DEF Behind
    <3> QED BY <2>2, <2>4, <3>2 DEF OverlapInv, LoopInv
  <2> QED BY <2>3, <2>4
<1>16. ResultsInv'
  BY <1>3 DEF ResultPopped
<1>17. ReqInv'
  <2>1. status' \in [Reqs -> {"new", "waiting", "retracted", "active", "finished"}]
    BY <1>4 DEF OverlapInv, ReqInv
  <2>2. out' \in [Reqs -> Seq(Nat)]
    <3>1. \A r \in Reqs : (IF r \in S THEN Delivered(res, r) ELSE out[r]) \in Seq(Nat)
      BY <1>8 DEF OverlapInv, ReqInv
    <3> QED BY <1>4, <3>1
  <2>3. committed' \in [Reqs -> Int]
    <3>1. \A r \in Reqs : r \in Elements(res.reqs) => res.rows[RowOf(res.reqs, r)].n \in Nat
      BY <1>1, <1>5, ResultRow DEF RowIn
    <3>2. committed \in [Reqs -> Int]
      BY DEF OverlapInv, ReqInv
    <3>3. CommittedAfter(res) \in [Reqs -> Int]
      <4>1. ASSUME NEW r \in Reqs, r \in Elements(res.reqs)
            PROVE  committed[r] + res.rows[RowOf(res.reqs, r)].n \in Int
        <5> DEFINE a == committed[r]
                   b == res.rows[RowOf(res.reqs, r)].n
        <5>1. a \in Int /\ b \in Nat
          BY <3>1, <3>2, <4>1
        <5> HIDE DEF a, b
        <5>2. a + b \in Int
          BY <5>1
        <5> QED BY <5>2 DEF a, b
      <4> QED BY <3>2, <4>1 DEF CommittedAfter
    <3> QED BY <1>4, <3>2, <3>3
  <2>4. pending' \in [Reqs -> Int]
    BY <1>4 DEF OverlapInv, ReqInv
  <2>5. freed' \in [Reqs -> BOOLEAN] /\ \A r \in Reqs : freed'[r] <=> freed[r] \/ r \in stops
    BY <1>4 DEF OverlapInv, ReqInv
  <2>6. ASSUME NEW r \in Reqs PROVE \A k \in 1..Len(out'[r]) : out'[r][k] = PromptLen(r) + k
    <3>1. CASE r \in S
      BY <1>8, <3>1
    <3>2. CASE r \notin S
      BY <1>7, <3>2 DEF OverlapInv, ReqInv
    <3> QED BY <3>1, <3>2
  <2>7. ASSUME NEW r \in Reqs, status'[r] # "finished" PROVE Len(out'[r]) < MaxNew
    <3>1. CASE r \in S
      <4> DEFINE l == Len(out'[r])
      <4>1. r \notin stops
        BY <1>7, <2>7
      <4>2. ~(l >= MaxNew)
        BY <1>4, <1>8, <3>1, <4>1
      <4>3. l \in Nat /\ MaxNew \in Nat
        BY <1>8, <3>1, LenProperties, OverlapAssumption
      <4> HIDE DEF l
      <4>4. l < MaxNew
        BY <4>2, <4>3
      <4> QED BY <4>4 DEF l
    <3>2. CASE r \notin S
      BY <1>7, <2>7, <3>2 DEF OverlapInv, ReqInv
    <3> QED BY <3>1, <3>2
  <2>8. ASSUME NEW r \in Reqs, status'[r] # "active" PROVE pending'[r] = 0
    <3>1. CASE r \in S
      BY <1>4, <1>5, <3>1 DEF ServedOK
    <3>2. CASE r \notin S
      <4>1. status[r] # "active" /\ pending[r] = 0
        BY <1>7, <2>8, <3>2 DEF OverlapInv, ReqInv
      <4>2. r \in Elements(res.reqs) => Skipped(r)
        <5>1. r \in Elements(res.reqs) => HeldOK(1, r)
          BY <1>5 DEF OverlapInv, TokenInv
        <5> QED BY <4>1, <5>1 DEF HeldOK, Skipped
      <4> QED BY <1>4, <4>1, <4>2
    <3> QED BY <3>1, <3>2
  <2>9. \A r \in Reqs : freed'[r] => status'[r] = "finished"
    BY <1>7, <2>5 DEF OverlapInv, ReqInv
  <2>10. raised' = FALSE
    <3>1. \A r \in stops : status[r] = "active" /\ r \in Reqs
      BY <1>4, <1>5 DEF ServedOK
    <3>2. \A r \in stops : ~freed[r]
      BY <3>1 DEF OverlapInv, ReqInv
    <3>3. raised = FALSE
      BY DEF OverlapInv, ReqInv
    <3> QED BY <1>4, <3>2, <3>3
  <2>11. allocated' \in [Reqs -> Int] /\ dev' \in [Reqs -> Nat]
    BY DEF OverlapInv, ReqInv
  <2> QED BY <2>1, <2>2, <2>3, <2>4, <2>5, <2>6, <2>7, <2>8, <2>9, <2>10, <2>11 DEF ReqInv
<1>18. PlaceInv'
  <2>1. \A r \in Elements(running'.reqs) : status'[r] \in {"active", "finished"}
    <3>1. ASSUME NEW r \in Elements(running.reqs) PROVE r \in Reqs
      BY BatchTypes DEF OverlapInv, LoopInv, BatchOK
    <3> QED BY <1>7, <3>1 DEF OverlapInv, PlaceInv
  <2>2. \A r \in Elements(Unmerged'.reqs) : status'[r] = "active" /\ ~InRows(running, r)'
    <3>1. ASSUME NEW r \in Elements(Unmerged.reqs) PROVE r \in Reqs
      BY BatchTypes, EmptyBatchFacts DEF OverlapInv, LoopInv, BatchOK, Unmerged
    <3> QED BY <1>7, <1>10, <1>11, <1>14, <3>1 DEF OverlapInv, PlaceInv
  <2>3. ASSUME NEW i \in 1..Len(cur.segs) PROVE SegOK(cur.segs[i])'
    <3>1. SegOK(cur.segs[i]) /\ InSegs(cur.segs[i].req)
      BY DEF OverlapInv, PlaceInv, InSegs
    <3>2. PICK s : s = cur.segs[i]
      OBVIOUS
    <3>3. s.req \in Reqs /\ status[s.req] = "active" /\ Prefilling(s.req)
      BY <3>1, <3>2 DEF SegOK, Prefilling
    <3>4. SegOK(s)'
      BY <1>11, <1>13, <3>1, <3>2, <3>3 DEF SegOK
    <3> QED BY <3>2, <3>4
  <2>4. chunk # NoChunk => chunk.req \in Reqs /\ status'[chunk.req] = "active" /\ Context(chunk.req)' = Context(chunk.req)
    <3>1. SUFFICES ASSUME chunk # NoChunk
                   PROVE  chunk.req \in Reqs /\ status'[chunk.req] = "active" /\ Context(chunk.req)' = Context(chunk.req)
      OBVIOUS
    <3>2. PICK x : x = chunk.req
      OBVIOUS
    <3>3. x \in Reqs /\ status[x] = "active" /\ Prefilling(x)
      BY <3>1, <3>2 DEF OverlapInv, PlaceInv, Prefilling, InChunk
    <3>4. status'[x] = "active" /\ Context(x)' = Context(x)
      BY <1>13, <3>3
    <3> QED BY <3>2, <3>3, <3>4 DEF Context
  <2>5. chunk # NoChunk =>
          /\ ~InRows(running, chunk.req)'
          /\ pc' \in {"drain", "recv"} => InRows(last.batch, chunk.req)'
          /\ pc' = "launch" => InSegs(chunk.req)'
    BY DEF OverlapInv, PlaceInv, InRows, InSegs
  <2>6. \A r \in Reqs : status'[r] = "active" =>
          InRows(running, r)' \/ InRows(Unmerged, r)' \/ InSegs(r)' \/ InChunk(r)'
    BY <1>7, <1>11 DEF OverlapInv, PlaceInv
  <2> QED BY <2>1, <2>2, <2>3, <2>4, <2>5, <2>6 DEF OverlapInv, PlaceInv
<1>19. RowsInv'
  BY <1>10 DEF OverlapInv, RowsInv, RowOK, Entry
<1>20. RingInv'
  <2>1. Taken' = Taken
    BY <1>10 DEF Taken, Bit
  <2>2. \A m : Spare(m)' = Spare(m)
    BY <2>1 DEF Spare
  <2>3. \A k, e : Ago(k, e)' <=> Ago(k, e)
    BY DEF Ago
  <2>4. \A m : (Reach(running, m)' <=> Reach(running, m)) /\ (Reach(Unmerged, m)' <=> Reach(Unmerged, m))
    BY <1>10, <2>2, <2>3 DEF Reach
  <2>5. \A m : Rounds(m)' <=> Rounds(m)
    <3>1. chunk # NoChunk => Context(chunk.req)' = Context(chunk.req)
      <4>1. SUFFICES ASSUME chunk # NoChunk PROVE Context(chunk.req)' = Context(chunk.req)
        OBVIOUS
      <4>2. PICK x : x = chunk.req
        OBVIOUS
      <4>3. x \in Reqs /\ status[x] = "active" /\ Prefilling(x)
        BY <4>1, <4>2 DEF OverlapInv, PlaceInv, Prefilling, InChunk
      <4>4. Context(x)' = Context(x)
        BY <1>13, <4>3
      <4> QED BY <4>2, <4>4 DEF Context
    <3> QED BY <3>1 DEF Rounds, Needs
  <2> QED BY <2>1, <2>4, <2>5 DEF OverlapInv, RingInv
<1>21. PassInv'
  <2>1. \A r \in Elements(running.reqs) : status'[r] = "active" => status[r] = "active"
    <3>1. ASSUME NEW r \in Elements(running.reqs) PROVE r \in Reqs
      BY BatchTypes DEF OverlapInv, LoopInv, BatchOK
    <3> QED BY <1>7, <3>1
  <2> QED BY <2>1 DEF OverlapInv, PassInv
<1>22. TokenInv'
  <2>1. ASSUME NEW r \in Reqs, NEW k \in {1, 2}, Holds(k, r)' PROVE HeldOK(k, r)'
    <3>1. Holds(2, r)
      BY <1>3, <2>1 DEF ResultPopped
    <3>2. status[r] \in {"active", "finished"}
      BY <3>1 DEF OverlapInv, TokenInv, HeldOK
    <3> QED BY <1>7, <3>2 DEF HeldOK
  <2>2. FreshOK'
    <3>1. pc' # "drain"
      OBVIOUS
    <3> QED BY <3>1 DEF FreshOK
  <2>3. ASSUME NEW r \in Reqs, status'[r] = "active"
        PROVE  PendingOK(r)' /\ (Decoding(r)' => CountOK(r)')
    <3>1. status[r] = "active" /\ r \notin stops
      BY <1>7, <2>3
    <3>2. PendingOK(r) /\ (Decoding(r) => CountOK(r))
      BY <3>1 DEF OverlapInv, TokenInv
    <3>3. /\ Holds(1, r)' <=> Holds(2, r)
          /\ ~Holds(2, r)'
          /\ Holds(2, r) => RowIn(1, r)' = RowIn(2, r) /\ results'[1].kind = results[2].kind
          /\ Accepted(1, r)' = Accepted(2, r) /\ Accepted(2, r)' = 0
      BY <1>3 DEF ResultPopped
    <3> DEFINE x == Context(r)
               g == Gain(1, r)
               h == Gain(2, r)
    <3>4. x \in Nat /\ g \in Nat /\ h \in Nat
      <4>1. (Holds(1, r) => RowIn(1, r).n \in Nat) /\ (Holds(2, r) => RowIn(2, r).n \in Nat)
        BY ResultRow
      <4> QED BY <4>1, ContextFacts DEF Gain, Full
    <3>5. r \notin S => g = 0 /\ Context(r)' = x
      BY <1>5, <1>9, <3>1 DEF Gain, Full
    <3>6. r \in S => Context(r)' = x + g /\ ServedOK(r)
      BY <1>5, <1>9
    <3>7. Short(1, r)' <=> Short(2, r)
      <4>1. CASE r \notin S
        BY <3>3, <3>5, <4>1 DEF Short
      <4>2. CASE r \in S
        <5>1. ~Short(2, r) /\ CountOK(r)
          BY <3>6, <4>2 DEF ServedOK
        <5>2. Holds(2, r) => RowIn(2, r).first = x + g + 1
          BY <5>1 DEF CountOK, Full
        <5> HIDE DEF x, g
        <5>3. ~(x + g + 1 <= x + g)
          BY <3>4
        <5>4. ~Short(1, r)'
          BY <3>3, <3>6, <4>2, <5>2, <5>3 DEF Short
        <5> QED BY <5>1, <5>4
      <4> QED BY <4>1, <4>2
    <3>8. ~Short(2, r)' /\ ~Full(2, r)' /\ Gain(2, r)' = 0
      BY <3>3 DEF Short, Full, Gain
    <3>9. (Full(1, r)' <=> Full(2, r)) /\ Gain(1, r)' = h
      BY <3>3, <3>7 DEF Full, Gain
    <3>10. PendingOK(r)'
      <4>1. pending'[r] = pending[r] - Bit(Short(1, r))
        <5>1. pending[r] \in Int
          BY DEF OverlapInv, ReqInv
        <5>2. CASE r \in S
          <6>1. ~Short(1, r) /\ pending'[r] = pending[r]
            BY <1>4, <3>6, <5>2 DEF ServedOK
          <6> QED BY <5>1, <6>1 DEF Bit
        <5>3. CASE r \notin S /\ Holds(1, r)
          <6>1. Short(1, r) /\ pending'[r] = pending[r] - 1
            BY <1>4, <1>5, <3>1, <5>3 DEF Skipped
          <6> QED BY <5>1, <6>1 DEF Bit
        <5>4. CASE r \notin S /\ ~Holds(1, r)
          <6>1. ~Short(1, r) /\ pending'[r] = pending[r]
            BY <1>4, <1>5, <5>4 DEF Short
          <6> QED BY <5>1, <6>1 DEF Bit
        <5> QED BY <5>2, <5>3, <5>4
      <4>2. pending[r] = Bit(Short(1, r)) + Bit(Short(2, r)) + Bit(pc = "launch" /\ InChunk(r))
        BY <3>2 DEF PendingOK
      <4>3. pending'[r] = Bit(Short(2, r)) + 0 + Bit(pc = "launch" /\ InChunk(r))
        BY <4>1, <4>2 DEF Bit
      <4>4. pending'[r] = Bit(Short(1, r))' + Bit(Short(2, r))' + Bit(pc = "launch" /\ InChunk(r))'
        BY <1>11, <3>7, <3>8, <4>3 DEF Bit
      <4>5. Prefilling(r)' => \A k \in {1, 2} : Holds(k, r)' => Short(k, r)'
        BY <1>12, <3>2, <3>3, <3>7 DEF PendingOK
      <4> QED BY <3>8, <4>4, <4>5 DEF PendingOK
    <3>11. Decoding(r)' => CountOK(r)'
      <4>1. SUFFICES ASSUME Decoding(r) PROVE CountOK(r)'
        BY <1>12
      <4> DEFINE e == dev[r]
                 w == committed[r]
                 y == Accepted(1, r)
                 z == Accepted(2, r)
      <4>2. /\ x + g + h = e + 1 /\ w + (y + z) = e
            /\ Full(2, r) => RowIn(2, r).first = x + g + 1
        BY <3>2, <4>1 DEF CountOK, InFlight
      <4>3. Context(r)' = x + g
        BY <3>4, <3>5, <3>6
      <4>4. committed'[r] = w + y /\ y \in Nat /\ z \in Nat /\ w \in Int
        <5>1. y \in Nat /\ z \in Nat /\ w \in Int
          <6>1. y \in 0..(MaxAccept + 1) /\ z \in 0..(MaxAccept + 1)
            BY AcceptedFacts
          <6>2. w \in Int
            BY DEF OverlapInv, ReqInv
          <6> HIDE DEF y, z, w
          <6> QED BY <6>1, <6>2, OverlapAssumption
        <5>2. CASE res.kind = "decode" /\ Holds(1, r)
          <6>1. y = RowIn(1, r).n
            BY <1>1, <5>2, AcceptedFacts
          <6>2. committed'[r] = w + RowIn(1, r).n
            BY <1>1, <1>4, <1>5, <5>2 DEF CommittedAfter, RowIn
          <6> QED BY <5>1, <6>1, <6>2
        <5>3. CASE ~(res.kind = "decode" /\ Holds(1, r))
          <6>1. y = 0
            BY <1>1, <5>3, AcceptedFacts
          <6>2. committed'[r] = w
            BY <1>4, <1>5, <5>3 DEF CommittedAfter
          <6> QED BY <5>1, <6>1, <6>2
        <5> QED BY <5>2, <5>3
      <4>5. InFlight(r)' = z + 0
        BY <3>3 DEF InFlight
      <4>6. Full(1, r)' => RowIn(1, r).first' = x + g + 1
        BY <3>3, <3>9, <4>2 DEF Full
      <4> HIDE DEF x, g, h, e, w, y, z
      <4>7. (x + g) + h + 0 = e + 1 /\ (w + y) + (z + 0) = e
        BY <3>4, <4>2, <4>4
      <4> QED BY <3>8, <3>9, <4>3, <4>4, <4>5, <4>6, <4>7 DEF CountOK, e
    <3> QED BY <3>10, <3>11
  <2> QED BY <2>1, <2>2, <2>3 DEF TokenInv
<1> QED BY <1>15, <1>16, <1>17, <1>18, <1>19, <1>20, <1>21, <1>22 DEF OverlapInv

LEMMA ProcessInv ==
  ASSUME OverlapInv, NEW stops \in SUBSET Reqs, ProcessFirst(stops) \/ Process(stops)
  PROVE  OverlapInv'
<1>1. CASE ProcessFirst(stops)
  <2>1. /\ pc = "launch" /\ pc' = "launch" /\ results # <<>> /\ Apply(stops)
        /\ UNCHANGED <<allocated, chunk, cuts, cur, running, last, ring, future_ct, dev, tail>>
    BY <1>1 DEF ProcessFirst, DisableOverlap, ringVars
  <2> QED BY <2>1, ApplyInv
<1>2. CASE Process(stops)
  <2>1. /\ pc = "drain" /\ Behind /\ pc' = "recv" /\ Apply(stops)
        /\ UNCHANGED <<allocated, chunk, cuts, cur, running, last, ring, future_ct, dev, tail>>
    BY <1>2 DEF Process, ringVars
  <2>2. results # <<>>
    BY <2>1, EmptyList DEF Behind
  <2> QED BY <2>1, <2>2, ApplyInv
<1> QED BY <1>1, <1>2

-----------------------------------------------------------------------------
(* The theorems. *)

LEMMA StepInv == OverlapInv /\ [Next]_vars => OverlapInv'
<1> SUFFICES ASSUME OverlapInv, [Next]_vars PROVE OverlapInv'
  OBVIOUS
<1>1. CASE \E r \in Reqs : Recv(r) \/ AbortWaiting(r)
  BY <1>1, ArrivalInv
<1>2. CASE MergeLast
  BY <1>2, MergeLastInv
<1>3. CASE pc = "pick" /\ \E rem \in RemTokens : \E order \in CanRunLists(rem), full \in BOOLEAN :
             PickPrefill(order, rem, full)
  <2>1. PICK rem \in RemTokens : \E order \in CanRunLists(rem), full \in BOOLEAN :
          PickPrefill(order, rem, full)
    BY <1>3
  <2>0. PICK order \in CanRunLists(rem), full \in BOOLEAN : PickPrefill(order, rem, full)
    BY <2>1
  <2> QED BY <1>3, <2>0, PickPrefillInv
<1>4. CASE \E full \in BOOLEAN, kept \in 0..Len(running.reqs) : PickDecode(full, kept)
  BY <1>4, PickDecodeInv
<1>5. CASE PickIdle
  BY <1>5, PickIdleInv
<1>6. CASE LaunchPrefill
  BY <1>6, LaunchPrefillInv
<1>7. CASE \E acc \in [DOMAIN running.reqs -> 0..MaxAccept] : LaunchDecode(acc)
  BY <1>7, LaunchDecodeInv
<1>8. CASE LaunchNothing
  BY <1>8, LaunchNothingInv
<1>9. CASE \E stops \in SUBSET Reqs : ProcessFirst(stops) \/ Process(stops)
  BY <1>9, ProcessInv
<1>10. CASE ProcessNothing
  BY <1>10, ProcessNothingInv
<1>11. CASE EndPass
  BY <1>11, EndPassInv
<1>12. CASE UNCHANGED vars
  BY <1>12, StutterInv
<1> QED BY <1>1, <1>2, <1>3, <1>4, <1>5, <1>6, <1>7, <1>8, <1>9, <1>10, <1>11, <1>12 DEF Next, Loop

\* The inductive invariant holds in every reachable state of the overlap loop.
THEOREM OverlapInvariant == Spec => []OverlapInv
<1> QED BY InitInv, StepInv, PTL DEF Spec

\* The host's place, the ring's pointer, the queue of results and is_chunked stay
\* within their types: at most two results wait, and one waits whenever a batch was
\* launched before.
THEOREM OverlapTypes == Spec => []OverlapTypeOK
<1>1. OverlapInv => OverlapTypeOK
  <2> SUFFICES ASSUME OverlapInv PROVE OverlapTypeOK
    OBVIOUS
  <2>1. PICK l : l = Len(results)
    OBVIOUS
  <2>2. l \in Nat /\ l <= 2 /\ (l = 0 <=> results = <<>>)
    <3>1. results \in Seq(ResultType)
      BY DEF OverlapInv, ResultsInv
    <3> QED BY <2>1, <3>1, LenProperties, EmptySeq DEF OverlapInv, LoopInv
  <2>3. pc # "drain" => (l = 1) = (last.kind # "none") \/ (pc = "launch" /\ results = <<>>)
    <3>1. CASE pc \in {"recv", "pick"}
      <4>1. l = IF last.kind = "none" THEN 0 ELSE 1
        BY <2>1, <3>1 DEF OverlapInv, LoopInv
      <4> QED BY <4>1
    <3>2. CASE pc = "launch"
      <4>1. l <= (IF last.kind = "none" THEN 0 ELSE 1)
        BY <2>1, <3>2 DEF OverlapInv, LoopInv
      <4>2. l = 0 \/ (l = 1 /\ last.kind # "none")
        BY <2>2, <4>1
      <4> QED BY <2>2, <3>2, <4>2
    <3> QED BY <3>1, <3>2 DEF OverlapInv, LoopInv
  <2>4. ASSUME NEW r \in Reqs PROVE pending[r] \in 0..(MaxChunks + 1)
    <3>1. MaxChunks \in Nat /\ MaxChunks >= 1
      BY ChunksFacts
    <3>2. CASE status[r] # "active"
      <4>1. pending[r] = 0
        BY <3>2 DEF OverlapInv, ReqInv
      <4> QED BY <3>1, <4>1
    <3>3. CASE status[r] = "active"
      <4>1. pending[r] = Bit(Short(1, r)) + Bit(Short(2, r)) + Bit(pc = "launch" /\ InChunk(r))
        BY <3>3 DEF OverlapInv, TokenInv, PendingOK
      <4>2. pc = "launch" => ~Short(2, r)
        <5>1. pc = "launch" => l <= (IF last.kind = "none" THEN 0 ELSE 1)
          BY <2>1 DEF OverlapInv, LoopInv
        <5>2. pc = "launch" => 2 \notin 1..l
          BY <2>2, <5>1
        <5> QED BY <2>1, <5>2 DEF Short, Holds
      <4>3. pending[r] \in {0, 1, 2}
        BY <4>1, <4>2 DEF Bit
      <4> QED BY <3>1, <4>3
    <3> QED BY <3>2, <3>3
  <2> QED BY <2>1, <2>2, <2>3, <2>4 DEF OverlapTypeOK, OverlapInv, LoopInv, ReqInv, RingInv, RowsInv
<1> QED BY <1>1, OverlapInvariant, PTL

\* Every row of the running batch finds its own and newest entry in the ring, and its
\* draft row is of that length: FutureLimit is large enough, however many prefill
\* batches and chunks run between two decode batches, while memory cuts at most
\* 2 * max_running_requests - 1 of their segments short.
THEOREM RowsStayCurrent == Spec => []RowsCurrent
<1>1. OverlapInv => RowsCurrent
  <2> SUFFICES ASSUME OverlapInv, NEW i \in DOMAIN running.reqs
               PROVE  /\ ring[running.futures[i]] = Entry(running.reqs[i], dev[running.reqs[i]])
                      /\ running.rows[i] = Entry(running.reqs[i], dev[running.reqs[i]])
    BY DEF RowsCurrent
  <2>1. i \in 1..Len(running.reqs)
    BY BatchTypes DEF OverlapInv, LoopInv, BatchOK
  <2> QED BY <2>1 DEF OverlapInv, RowsInv, RowOK
<1> QED BY <1>1, OverlapInvariant, PTL

\* The slots a verify pass writes were allocated, although the allocation counts from
\* a length that misses the batch in flight: prepare_for_decode allocates for two.
THEOREM WindowsAllocated == Spec => []WindowAllocated
<1>1. OverlapInv => WindowAllocated
  <2> SUFFICES ASSUME OverlapInv, cur.kind = "decode", NEW i \in DOMAIN running.reqs,
                      status[running.reqs[i]] = "active"
               PROVE  dev[running.reqs[i]] + DraftTokens <= allocated[running.reqs[i]]
    BY DEF WindowAllocated
  <2>1. running.reqs[i] \in Elements(running.reqs)
    BY DEF Elements
  <2> QED BY <2>1 DEF OverlapInv, PassInv
<1> QED BY <1>1, OverlapInvariant, PTL

\* kv_committed_len is the device's length less what is in flight.
THEOREM CommittedTrails == Spec => []CommittedBehindDevice
<1>1. OverlapInv => CommittedBehindDevice
  <2> SUFFICES ASSUME OverlapInv, NEW r \in Reqs, status[r] = "active", ~InChunk(r), cur.kind # "extend"
               PROVE  committed[r] + InFlight(r) = dev[r]
    BY DEF CommittedBehindDevice
  <2>1. ~InSegs(r)
    BY EmptyList DEF OverlapInv, LoopInv, InSegs
  <2>2. Decoding(r)
    BY <2>1 DEF OverlapInv, PlaceInv, Decoding
  <2> QED BY <2>2 DEF OverlapInv, TokenInv, CountOK
<1> QED BY <1>1, OverlapInvariant, PTL

\* A request that is finished stays so, gets no more tokens and no more slots; no
\* step takes a token back.
LEMMA FinishedStays ==
  ASSUME OverlapInv, [Next]_vars, NEW r \in Reqs
  PROVE  /\ status[r] = "finished" => /\ status'[r] = "finished" /\ out'[r] = out[r]
                                      /\ allocated'[r] = allocated[r]
         /\ Len(out'[r]) >= Len(out[r])
<1>0. Len(out[r]) >= Len(out[r])
  <2> DEFINE l == Len(out[r])
  <2>1. l \in Nat
    BY ContextFacts
  <2> HIDE DEF l
  <2>2. l >= l
    BY <2>1
  <2> QED BY <2>2 DEF l
<1>1. CASE \E x \in Reqs : Recv(x) \/ AbortWaiting(x)
  BY <1>0, <1>1 DEF Recv, AbortWaiting, Queued, OverlapInv, ReqInv
<1>2. CASE UNCHANGED <<status, out, allocated>>
  BY <1>0, <1>2
<1>3. CASE pc = "pick" /\ \E rem \in RemTokens : \E order \in CanRunLists(rem), full \in BOOLEAN :
             PickPrefill(order, rem, full)
  <2>1. PICK rem \in RemTokens : \E order \in CanRunLists(rem), full \in BOOLEAN :
          PickPrefill(order, rem, full)
    BY <1>3
  <2>0. PICK order \in CanRunLists(rem), full \in BOOLEAN : PickPrefill(order, rem, full)
    BY <2>1
  <2>2. pc = "pick" /\ order \in CanRunLists(rem) /\ UNCHANGED out
    BY <2>0 DEF PickPrefill
  <2>3. OrderOK(order)
    BY <2>2, CanRunFacts
  <2>4. \A x \in Elements(order) : Queued(x) \/ InChunk(x)
    <3>1. order \in Seq(Reqs) /\ Len(order) \in Nat /\ DOMAIN order = 1..Len(order)
      BY <2>3, LenProperties DEF OrderOK
    <3>2. ASSUME NEW i \in 1..Len(order) PROVE Queued(order[i]) \/ InChunk(order[i])
      <4>1. CASE chunk = NoChunk
        BY <2>3, <4>1 DEF OrderOK
      <4>2. CASE chunk # NoChunk /\ i = 1
        BY <2>3, <4>2 DEF OrderOK, InChunk
      <4>3. CASE chunk # NoChunk /\ i # 1
        <5>1. i \in 2..Len(order)
          BY <3>1, <4>3
        <5> QED BY <2>3, <4>3, <5>1 DEF OrderOK
      <4> QED BY <4>1, <4>2, <4>3
    <3> QED BY <3>1, <3>2 DEF Elements
  <2>5. status[r] = "finished" => r \notin Elements(order)
    BY <2>4 DEF Queued, InChunk, OverlapInv, PlaceInv
  <2>6. /\ status' = [x \in Reqs |-> IF x \in Elements(order) THEN "active" ELSE status[x]]
        /\ \A x \in Reqs : x \notin Elements(order) => allocated'[x] = allocated[x]
    BY <2>0 DEF PickPrefill
  <2> QED BY <1>0, <2>2, <2>5, <2>6
<1>4. CASE \E full \in BOOLEAN, kept \in 0..Len(running.reqs) : PickDecode(full, kept)
  <2>1. PICK full \in BOOLEAN, kept \in 0..Len(running.reqs) : PickDecode(full, kept)
    BY <1>4
  <2> DEFINE read == [running EXCEPT !.lens = IF last.kind = "decode" THEN ReadLens(@) ELSE @]
             alive == Ascending({i \in 1..Len(running.reqs) : KeptInDecode(running.reqs[i])})
             batch == Filtered(read, alive)
             final == Filtered(batch, [i \in 1..kept |-> i])
             dropped == Elements(batch.reqs) \ Elements(final.reqs)
  <2>2. /\ running.reqs # <<>> /\ kept \in Retractions(Len(batch.reqs)) /\ UNCHANGED out
        /\ status' = [x \in Reqs |-> IF x \in dropped THEN "retracted" ELSE status[x]]
        /\ allocated' = [x \in Reqs |-> IF x \in dropped THEN 0
                           ELSE IF x \in Elements(final.reqs) THEN AllocAhead(x) ELSE allocated[x]]
    BY <2>1 DEF PickDecode
  <2>3. DecodeDone(running, final, dropped, kept)
    BY <2>2, DecodeRows
  <2> HIDE DEF final, dropped, batch, read, alive
  <2>4. status[r] = "finished" => r \notin dropped /\ r \notin Elements(final.reqs)
    BY <2>3 DEF DecodeDone
  <2> QED BY <1>0, <2>2, <2>4
<1>5. CASE \E stops \in SUBSET Reqs : ProcessFirst(stops) \/ Process(stops)
  <2>1. PICK stops \in SUBSET Reqs : ProcessFirst(stops) \/ Process(stops)
    BY <1>5
  <2>2. Apply(stops) /\ UNCHANGED allocated /\ results # <<>>
    BY <2>1, EmptyList DEF ProcessFirst, Process, DisableOverlap, Behind
  <2>3. Head(results) = results[1]
    BY <2>2, PopResult DEF Apply
  <2>4. /\ out' = [x \in Reqs |-> IF x \in Served(results[1]) THEN Delivered(results[1], x) ELSE out[x]]
        /\ status' = [x \in Reqs |-> IF x \in stops THEN "finished" ELSE status[x]]
    BY <2>2, <2>3 DEF Apply
  <2>5. status[r] = "finished" => r \notin Served(results[1])
    BY DEF Served, Skipped
  <2>6. CASE r \in Served(results[1])
    <3> DEFINE l == Len(out[r])
               n == RowIn(1, r).n
    <3>1. Len(out'[r]) = l + n /\ n \in Nat /\ l \in Nat
      BY <2>2, <2>4, <2>6, DeliveredFacts, ContextFacts
    <3> HIDE DEF l, n
    <3>2. l + n >= l
      BY <3>1
    <3> QED BY <2>5, <2>6, <3>1, <3>2 DEF l
  <2>7. CASE r \notin Served(results[1])
    BY <1>0, <2>2, <2>4, <2>7
  <2> QED BY <2>6, <2>7
<1>6. CASE \/ MergeLast \/ PickIdle \/ LaunchPrefill \/ LaunchNothing \/ ProcessNothing \/ EndPass
           \/ UNCHANGED vars \/ \E acc \in [DOMAIN running.reqs -> 0..MaxAccept] : LaunchDecode(acc)
  <2>1. UNCHANGED reqVars
    BY <1>6 DEF MergeLast, PickIdle, LaunchPrefill, LaunchNothing, ProcessNothing, EndPass, LaunchDecode, vars
  <2> QED BY <1>2, <2>1 DEF reqVars
<1> QED BY <1>1, <1>3, <1>4, <1>5, <1>6 DEF Next, Loop

\* No request's KV cache is released twice, and a released request is given no more
\* slots, although its row may still be in the batch that is prepared next.
THEOREM ReleasesFinal == Spec => ReleasedForGood
<1>1. OverlapInv /\ OverlapInv' /\ [Next]_vars
        => [/\ ~raised'
            /\ \A r \in Reqs : freed[r] /\ freed'[r] => allocated'[r] = allocated[r]]_vars
  <2> SUFFICES ASSUME OverlapInv, OverlapInv', [Next]_vars
               PROVE  /\ ~raised'
                      /\ \A r \in Reqs : freed[r] => allocated'[r] = allocated[r]
    OBVIOUS
  <2>1. ~raised'
    BY DEF OverlapInv, ReqInv
  <2>2. \A r \in Reqs : freed[r] => status[r] = "finished"
    BY DEF OverlapInv, ReqInv
  <2> QED BY <2>1, <2>2, FinishedStays
<1> QED BY <1>1, OverlapInvariant, PTL DEF Spec, ReleasedForGood

\* Clients see the stream TokenStream promises: each token once, in order, none after
\* the end, whatever is in flight, dropped or retracted.
THEOREM StreamImplemented == Spec => ImplementsTokenStream
<1>1. Init => Stream!Init
  BY DEF Init, Stream!Init, done
<1>2. OverlapInv /\ OverlapInv' /\ [Next]_vars => Stream!Deliver
  <2> SUFFICES ASSUME OverlapInv, OverlapInv', [Next]_vars PROVE Stream!Deliver
    OBVIOUS
  <2>1. DOMAIN out' = Reqs /\ DOMAIN done' = Reqs
    BY DEF OverlapInv, ReqInv, done
  <2>2. \A r \in Reqs : (done[r] <=> status[r] = "finished") /\ (done'[r] <=> status'[r] = "finished")
    BY DEF done
  <2>3. ASSUME NEW r \in Reqs
        PROVE  /\ Len(out'[r]) >= Len(out[r])
               /\ \A k \in DOMAIN out'[r] : out'[r][k] = PromptLen(r) + k
               /\ status[r] = "finished" => status'[r] = "finished" /\ out'[r] = out[r]
               /\ Len(out'[r]) >= MaxNew => status'[r] = "finished"
    <3> DEFINE s == out'[r]
               l == Len(s)
    <3>1. s \in Seq(Nat) /\ (\A k \in 1..l : s[k] = PromptLen(r) + k)
          /\ (status'[r] # "finished" => l < MaxNew)
      BY DEF OverlapInv, ReqInv
    <3>2. l \in Nat /\ DOMAIN s = 1..l
      BY <3>1, LenProperties
    <3>3. /\ l >= Len(out[r])
          /\ status[r] = "finished" => status'[r] = "finished" /\ out'[r] = out[r]
      BY FinishedStays
    <3> HIDE DEF l
    <3>4. l >= MaxNew => ~(l < MaxNew)
      BY <3>2, OverlapAssumption
    <3> QED BY <3>1, <3>2, <3>3, <3>4 DEF l
  <2> QED BY <2>1, <2>2, <2>3 DEF Stream!Deliver, Stream!Extends
<1> QED BY <1>1, <1>2, OverlapInvariant, PTL DEF Spec, ImplementsTokenStream, Stream!Spec
=============================================================================
