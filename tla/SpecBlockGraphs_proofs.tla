----------------------- MODULE SpecBlockGraphs_proofs -----------------------
(***************************************************************************)
(* Proofs about SpecBlockGraphs, for every set of capacities and widths,   *)
(* every block width, pool size and cap, and any number of batches.        *)
(*                                                                         *)
(* None of the properties is inductive.  That a replayed graph is current  *)
(* rests on the stamps: stamp and addresses are current together, and all  *)
(* stamps of a runner are equal, so that a lookup drops either nothing     *)
(* current or everything.  That a replay reads its own rows rests on the   *)
(* buckets: the key that was resolved still holds the rows when the graph  *)
(* is replayed, although the rows were rolled back and slots were          *)
(* allocated in between.                                                   *)
(***************************************************************************)
EXTENDS SpecBlockGraphs, KVPoolOps_proofs

\* The static inputs of graph k.
Shaped(b, k) ==
  b \in [loc : [1..k[1] -> [1..k[2] -> Nat]], count : [1..k[1] -> Nat]]

\* The graphs g of a runner, their stamps s and inputs b, when the pool's version
\* is v and its tensors are those of generation n.
CacheOK(g, s, b, v, n) ==
  /\ DOMAIN s = DOMAIN g /\ DOMAIN b = DOMAIN g
  /\ \A k \in DOMAIN g :
       /\ g[k] \in Nat /\ g[k] <= n /\ s[k] \in Nat /\ s[k] <= v
       /\ g[k] = n <=> s[k] = v
       /\ Shaped(b[k], k)
       /\ \A l \in DOMAIN g : s[l] = s[k]

\* Every graph is stamped with version v.
Current(s, v) == \A k \in DOMAIN s : s[k] = v

CacheInv ==
  /\ graphs = [x \in Runners |-> graphs[x]]
  /\ stamp = [x \in Runners |-> stamp[x]]
  /\ inbuf = [x \in Runners |-> inbuf[x]]
  /\ \A x \in Runners :
       CacheOK(graphs[x], stamp[x], inbuf[x], pool.pool_version, gen)
  /\ pc \in {"capture", "replay"} => Current(stamp[turn], pool.pool_version)

\* No slot is in two rows, or in a row and free.
SlotInv ==
  /\ FreeListOK(pool) /\ RowsOK(rows) /\ RowsOK(fresh)
  /\ SlotsOf(rows) \cap SlotsOf(fresh) = {}
  /\ (SlotsOf(rows) \cup SlotsOf(fresh)) \cap Elements(pool.free) = {}
  /\ SlotsOf(rows) \cup SlotsOf(fresh) \subseteq 1..(pool.pool_size - 1)

\* How much of row i runner x reads.
ReadLen(x, i) == IF x = "draft" THEN Len(rows[i]) - K ELSE Len(rows[i])

\* The rows fit the key, and have the blocks that the next roll-back takes off.
RowInv ==
  /\ pc \in {"idle", "refresh"} => turn = "draft"
  /\ turn = "draft" => fresh = <<>> /\ \A i \in 1..Len(rows) : Len(rows[i]) >= K
  /\ turn = "refresh" =>
       Len(fresh) = Len(rows) /\ \A i \in 1..Len(rows) : Len(fresh[i]) >= K
  /\ pc # "idle" => Len(rows) > 0
  /\ pc \in {"lookup", "capture", "replay"} =>
       Len(rows) <= key[1] /\ \A i \in 1..Len(rows) : ReadLen(turn, i) <= key[2]

\* A worker that has raised does nothing more, so its rows do not matter.
GraphInv ==
  /\ GraphTypeOK
  /\ CacheInv
  /\ pc # "raised" => SlotInv /\ RowInv

-----------------------------------------------------------------------------
(* Buckets. *)

\* A bucket that was found holds what it was looked up for.
LEMMA ResolveFacts ==
  ASSUME NEW buckets \in SUBSET (Nat \ {0}), NEW n \in Int, Resolve(buckets, n) \in buckets
  PROVE  Resolve(buckets, n) >= n
<1>1. CASE \E b \in buckets : b >= n
  <2> DEFINE S == {b \in buckets : b >= n}
  <2>1. S \in SUBSET Nat /\ S # {}
    BY <1>1
  <2>2. PICK m \in S : \A c \in S : m <= c
    BY <2>1, LeastOf
  <2>3. \E b \in buckets : b >= n /\ \A c \in buckets : c >= n => b <= c
    BY <2>2
  <2> QED BY <1>1, <2>3 DEF Resolve
<1>2. CASE ~\E b \in buckets : b >= n
  <2>1. Resolve(buckets, n) = 0
    BY <1>2 DEF Resolve
  <2> QED BY <2>1
<1> QED BY <1>1, <1>2

LEMMA BucketTypes ==
  ASSUME NEW x \in Runners
  PROVE  Capacities(x) \in SUBSET (Nat \ {0}) /\ Widths(x) \in SUBSET (Nat \ {0})
BY GraphAssumption DEF Capacities, Widths, Runners

\* The key of a batch holds all its rows.
LEMMA KeyFacts ==
  ASSUME NEW x \in Runners, NEW n \in Nat, n > 0, NEW lens \in [1..n -> Nat],
         ResolveKey(x, lens) \in Keys(x)
  PROVE  n <= ResolveKey(x, lens)[1] /\ \A i \in 1..n : lens[i] <= ResolveKey(x, lens)[2]
<1> DEFINE L == {lens[i] : i \in DOMAIN lens}
           longest == CHOOSE m \in L : \A i \in DOMAIN lens : lens[i] <= m
           cap == Resolve(Capacities(x), n)
           width == Resolve(Widths(x), longest)
<1>1. lens \in Seq(Nat) /\ Len(lens) = n /\ DOMAIN lens = 1..n
  <2>1. lens \in Seq(Nat) /\ DOMAIN lens = 1..n
    BY IsASeq
  <2>2. Len(lens) \in Nat /\ DOMAIN lens = 1..Len(lens)
    BY <2>1, LenProperties
  <2> QED BY <2>1, <2>2
<1>2. ResolveKey(x, lens) = <<cap, width>>
  BY <1>1 DEF ResolveKey
<1>3. longest \in Nat /\ \A i \in 1..n : lens[i] <= longest
  <2>1. PICK i \in 1..n : \A j \in 1..n : lens[j] <= lens[i]
    BY LargestOf
  <2>2. \E m \in L : \A j \in DOMAIN lens : lens[j] <= m
    BY <1>1, <2>1
  <2>3. longest \in L /\ \A j \in DOMAIN lens : lens[j] <= longest
    BY <2>2
  <2> HIDE DEF longest
  <2> QED BY <1>1, <2>3
<1> HIDE DEF cap, width, longest
<1>4. cap \in Capacities(x) /\ width \in Widths(x)
  BY <1>2 DEF Keys
<1>5. cap >= n /\ width >= longest
  BY <1>3, <1>4, BucketTypes, ResolveFacts DEF cap, width
<1>6. cap \in Nat /\ width \in Nat
  BY <1>4, BucketTypes
<1>7. \A i \in 1..n : lens[i] <= width
  BY <1>3, <1>5, <1>6
<1> QED BY <1>2, <1>5, <1>6, <1>7

-----------------------------------------------------------------------------
(* The caches. *)

\* The pool may grow under the caches.
LEMMA CacheAfterGrowth ==
  ASSUME NEW g, NEW s, NEW b, NEW v \in Nat, NEW n \in Nat, NEW w \in Nat, NEW m \in Nat,
         CacheOK(g, s, b, v, n), (w = v /\ m = n) \/ (w > v /\ m = n + 1)
  PROVE  CacheOK(g, s, b, w, m)
<1>1. ASSUME NEW k \in DOMAIN g
      PROVE  g[k] <= m /\ s[k] <= w /\ (g[k] = m <=> s[k] = w)
  BY DEF CacheOK
<1> QED BY <1>1 DEF CacheOK

\* A runner without graphs.
LEMMA NoGraphsOK ==
  ASSUME NEW v, NEW n
  PROVE  CacheOK(NoGraphs, NoGraphs, NoGraphs, v, n) /\ DOMAIN NoGraphs = {}
BY DEF CacheOK, NoGraphs

\* Zeroed inputs have the shape of their key.
LEMMA ZeroShaped ==
  ASSUME NEW x \in Runners, NEW k \in Keys(x)
  PROVE  Shaped(ZeroInputs(k), k)
BY DEF Shaped, ZeroInputs, Sentinel

\* What the invariant says about the state's types.
LEMMA GraphFacts ==
  ASSUME GraphInv
  PROVE  /\ pool \in PoolRecord /\ pool.pool_version \in Nat /\ pool.pool_size \in Nat
         /\ gen \in Nat /\ turn \in Runners /\ K \in Nat /\ K >= 1
         /\ DOMAIN graphs = Runners /\ DOMAIN stamp = Runners /\ DOMAIN inbuf = Runners
<1>1. pool \in PoolRecord /\ gen \in Nat /\ turn \in Runners
  BY DEF GraphInv, GraphTypeOK
<1>2. pool.pool_version \in Nat /\ pool.pool_size \in Nat
  BY <1>1 DEF PoolRecord
<1>3. K \in Nat /\ K >= 1
  BY GraphAssumption
<1> DEFINE F(f) == [x \in Runners |-> f[x]]
<1>4. graphs = F(graphs) /\ stamp = F(stamp) /\ inbuf = F(inbuf)
  BY DEF GraphInv, CacheInv
<1>5. DOMAIN graphs = Runners
  BY <1>4
<1>6. DOMAIN stamp = Runners
  BY <1>4
<1>7. DOMAIN inbuf = Runners
  BY <1>4
<1> QED BY <1>1, <1>2, <1>3, <1>5, <1>6, <1>7

-----------------------------------------------------------------------------
(* The invariant, action by action. *)

LEMMA InitInv == Init => GraphInv
<1> SUFFICES ASSUME Init PROVE GraphInv
  OBVIOUS
<1>1. PICK w \in PrecaptureWidths :
        LET early == [x \in Runners |-> {k \in Keys(x) : x = "refresh" /\ k[2] <= w}]
        IN  /\ graphs = [x \in Runners |-> [k \in early[x] |-> gen]]
            /\ stamp = [x \in Runners |-> [k \in early[x] |-> pool.pool_version]]
            /\ inbuf = [x \in Runners |-> [k \in early[x] |-> ZeroInputs(k)]]
  BY DEF Init
<1> DEFINE early == [x \in Runners |-> {k \in Keys(x) : x = "refresh" /\ k[2] <= w}]
<1>2. \A x \in Runners : early[x] \subseteq Keys(x)
  OBVIOUS
<1>3. /\ pc = "idle" /\ turn = "draft" /\ rows = <<>> /\ fresh = <<>>
      /\ pool = NewPool /\ gen = 0
  BY DEF Init
<1>4. pool \in PoolRecord /\ FreeListOK(pool) /\ pool.pool_version = 0
  BY <1>3, NewPoolFacts
<1>5. ASSUME NEW x \in Runners
      PROVE  /\ DOMAIN graphs[x] = early[x] /\ DOMAIN stamp[x] = early[x]
             /\ DOMAIN inbuf[x] = early[x]
             /\ \A k \in early[x] : /\ graphs[x][k] = 0 /\ stamp[x][k] = 0
                                    /\ inbuf[x][k] = ZeroInputs(k)
  BY <1>1, <1>3, <1>4
<1> HIDE DEF early
<1>6. \A x \in Runners : CacheOK(graphs[x], stamp[x], inbuf[x], pool.pool_version, gen)
  BY <1>2, <1>3, <1>4, <1>5, ZeroShaped DEF CacheOK
<1>7. /\ graphs = [x \in Runners |-> graphs[x]]
      /\ stamp = [x \in Runners |-> stamp[x]]
      /\ inbuf = [x \in Runners |-> inbuf[x]]
  BY <1>1
<1>8. CacheInv
  BY <1>3, <1>6, <1>7 DEF CacheInv
<1>9. GraphTypeOK
  BY <1>2, <1>3, <1>4, <1>5 DEF GraphTypeOK, Runners
<1>10. SlotInv
  BY <1>3, <1>4, EmptyRows DEF SlotInv
<1>11. RowInv
  BY <1>3, EmptyRows DEF RowInv
<1> QED BY <1>8, <1>9, <1>10, <1>11 DEF GraphInv

\* What a step that leaves the caches alone, while the pool may grow, leaves of
\* the invariant on them.
LEMMA CachesKept ==
  ASSUME GraphInv, UNCHANGED <<graphs, stamp, inbuf>>, pool' \in PoolRecord,
         pool.pool_size <= pool'.pool_size,
         pool.pool_version <= pool'.pool_version,
         pool'.pool_size = pool.pool_size <=> pool'.pool_version = pool.pool_version,
         gen' = GenAfter(pool'), pc' \notin {"capture", "replay"}
  PROVE  CacheInv' /\ gen' \in Nat
<1>1. /\ pool.pool_size \in Nat /\ pool'.pool_size \in Nat
      /\ pool.pool_version \in Nat /\ pool'.pool_version \in Nat /\ gen \in Nat
  BY GraphFacts DEF PoolRecord
<1>2. \/ pool'.pool_version = pool.pool_version /\ gen' = gen
      \/ pool'.pool_version > pool.pool_version /\ gen' = gen + 1
  BY <1>1 DEF GenAfter
<1>3. gen' \in Nat
  BY <1>1, <1>2
<1>4. ASSUME NEW x \in Runners
      PROVE  CacheOK(graphs[x], stamp[x], inbuf[x], pool'.pool_version, gen')
  <2>1. CacheOK(graphs[x], stamp[x], inbuf[x], pool.pool_version, gen)
    BY DEF GraphInv, CacheInv
  <2> QED BY <1>1, <1>2, <1>3, <2>1, CacheAfterGrowth
<1>5. /\ graphs = [x \in Runners |-> graphs[x]]
      /\ stamp = [x \in Runners |-> stamp[x]]
      /\ inbuf = [x \in Runners |-> inbuf[x]]
  BY DEF GraphInv, CacheInv
<1> QED BY <1>3, <1>4, <1>5 DEF CacheInv

\* A prefill appends its row.
LEMMA PrefillInv ==
  ASSUME GraphInv, NEW n \in 1..MaxPrompt, Prefill(n)
  PROVE  GraphInv'
<1> DEFINE ns == <<(n + 1) * K>>
           out == AllocRows(pool, ns)
<1>1. /\ pc = "idle" /\ UNCHANGED <<turn, key, fresh, graphs, stamp, inbuf>>
      /\ pc' = (IF out.ok THEN "idle" ELSE "raised") /\ rows' = rows \o out.rows
      /\ pool' = out.pool /\ gen' = GenAfter(out.pool)
  BY DEF Prefill
<1>2. SlotInv /\ RowInv /\ turn = "draft"
  BY <1>1 DEF GraphInv, RowInv
<1>3. ns \in Seq(Positive) /\ Len(ns) = 1 /\ ns[1] >= K /\ ns[1] \in Nat /\ K \in Nat
  <2>1. n + 1 \in Nat /\ n + 1 >= 1 /\ K \in Nat /\ K >= 1
    BY GraphAssumption
  <2>2. (n + 1) * K \in Positive /\ (n + 1) * K \in Nat /\ (n + 1) * K >= K
    BY <2>1, BlockLength
  <2> QED BY <2>1, <2>2
<1> HIDE DEF ns
<1>4. pool \in PoolRecord /\ FreeListOK(pool)
  BY <1>2, GraphFacts DEF SlotInv
<1>5. AllocDone(pool, ns, 1, out)
  BY <1>3, <1>4, AllocRowsFacts
<1> HIDE DEF out
<1>6. pool' \in PoolRecord /\ FreeListOK(pool') /\ Later(pool, pool')
  BY <1>1, <1>5 DEF AllocDone
<1>7. CacheInv' /\ gen' \in Nat
  BY <1>1, <1>6, CachesKept DEF Later
<1>8. GraphTypeOK'
  BY <1>1, <1>6, <1>7 DEF GraphInv, GraphTypeOK
<1>9. ASSUME pc' # "raised" PROVE SlotInv' /\ RowInv'
  <2>1. out.ok /\ pc' = "idle" /\ Len(out.rows) = 1 /\ RowsOK(out.rows)
        /\ Len(out.rows[1]) = ns[1]
    BY <1>1, <1>5, <1>9 DEF AllocDone
  <2>2. /\ SlotsOf(out.rows) \cap Elements(pool'.free) = {}
        /\ SlotsOf(out.rows) \cup Elements(pool'.free) =
             Elements(pool.free) \cup pool.pool_size..(pool'.pool_size - 1)
    BY <1>1, <1>5 DEF AllocDone
  <2>3. /\ pool.pool_size \in Nat /\ pool'.pool_size \in Nat
        /\ pool.pool_size <= pool'.pool_size
    BY <1>4, <1>6 DEF PoolRecord, Later
  <2>4. /\ RowsOK(rows) /\ SlotsOf(rows) \cap Elements(pool.free) = {}
        /\ SlotsOf(rows) \subseteq 1..(pool.pool_size - 1)
        /\ fresh = <<>>
    BY <1>2 DEF SlotInv, RowInv
  <2>5. SlotsOf(rows) \cap pool.pool_size..(pool'.pool_size - 1) = {}
    BY <2>3, <2>4
  <2>6. SlotsOf(rows) \cap SlotsOf(out.rows) = {} /\ SlotsOf(rows) \cap Elements(pool'.free) = {}
    BY <2>2, <2>4, <2>5
  <2>7. /\ RowsOK(rows') /\ Len(rows') = Len(rows) + 1
        /\ SlotsOf(rows') = SlotsOf(rows) \cup SlotsOf(out.rows)
        /\ \A i \in 1..Len(rows) : rows'[i] = rows[i]
        /\ rows'[Len(rows) + 1] = out.rows[1]
    BY <1>1, <2>1, <2>4, <2>6, ConcatRows
  <2>8. SlotsOf(rows') \subseteq 1..(pool'.pool_size - 1)
    <3>1. SlotsOf(rows) \subseteq 1..(pool'.pool_size - 1)
      BY <2>3, <2>4
    <3>2. Elements(pool'.free) \subseteq 1..(pool'.pool_size - 1)
      BY <1>6 DEF FreeListOK
    <3>3. SlotsOf(out.rows) \subseteq Elements(pool.free) \cup pool.pool_size..(pool'.pool_size - 1)
      BY <2>2
    <3>4. Elements(pool.free) \subseteq 1..(pool.pool_size - 1)
      BY <1>4 DEF FreeListOK
    <3>5. \A s \in 1..(pool.pool_size - 1) : s \in 1..(pool'.pool_size - 1)
      BY <2>3
    <3>6. \A s \in pool.pool_size..(pool'.pool_size - 1) : s \in 1..(pool'.pool_size - 1)
      BY <1>4, <2>3 DEF PoolRecord
    <3> QED BY <2>7, <3>1, <3>3, <3>4, <3>5, <3>6
  <2>9. SlotInv'
    BY <1>1, <1>6, <2>2, <2>4, <2>6, <2>7, <2>8, EmptyRows DEF SlotInv
  <2>10. \A i \in 1..Len(rows') : Len(rows'[i]) >= K
    <3>1. Len(rows) \in Nat /\ \A i \in 1..Len(rows) : Len(rows[i]) >= K
      BY <1>2, <2>4, RowFacts DEF RowInv
    <3>2. \A i \in 1..(Len(rows) + 1) : i \in 1..Len(rows) \/ i = Len(rows) + 1
      BY <3>1
    <3> QED BY <1>3, <2>1, <2>7, <3>1, <3>2
  <2>11. RowInv'
    BY <1>1, <1>2, <2>1, <2>4, <2>10 DEF RowInv
  <2> QED BY <2>9, <2>11
<1> QED BY <1>7, <1>8, <1>9 DEF GraphInv

\* All rows but one.
Without(rs, i) == SubSeq(rs, 1, i - 1) \o SubSeq(rs, i + 1, Len(rs))

LEMMA RemoveRow ==
  ASSUME NEW rs, RowsOK(rs), NEW i \in 1..Len(rs)
  PROVE  /\ RowsOK(Without(rs, i)) /\ SlotsOf(Without(rs, i)) \subseteq SlotsOf(rs)
         /\ Elements(rs[i]) \cap SlotsOf(Without(rs, i)) = {}
         /\ \A j \in 1..Len(Without(rs, i)) : \E k \in 1..Len(rs) : Without(rs, i)[j] = rs[k]
<1> DEFINE n == Len(rs)
           s == SubSeq(rs, 1, i - 1)
           t == SubSeq(rs, i + 1, n)
           out == s \o t
           P == Seq(Positive)
           f == [j \in 1..(n - 1) |-> IF j < i THEN j ELSE j + 1]
<1>1. rs \in Seq(P) /\ n \in Nat /\ \A j \in 1..n : rs[j] \in P
  BY RowFacts DEF RowsOK
<1>2. i \in Nat /\ 1 <= i /\ i <= n
  BY <1>1
<1> HIDE DEF P, n
<1>3. /\ s \in Seq(P) /\ Len(s) = IF 1 <= i - 1 THEN i - 1 - 1 + 1 ELSE 0
      /\ \A j \in 1..(i - 1 - 1 + 1) : s[j] = rs[1 + j - 1]
  <2>1. \A j \in 1..(i - 1) : rs[j] \in P
    BY <1>1, <1>2
  <2>2. 1 \in Int /\ i - 1 \in Int
    BY <1>2
  <2> QED BY <1>1, <2>1, <2>2, SubSeqProperties
<1>4. /\ t \in Seq(P) /\ Len(t) = IF i + 1 <= n THEN n - (i + 1) + 1 ELSE 0
      /\ \A j \in 1..(n - (i + 1) + 1) : t[j] = rs[i + 1 + j - 1]
  <2>1. \A j \in (i + 1)..n : rs[j] \in P
    BY <1>1, <1>2
  <2>2. i + 1 \in Int /\ n \in Int
    BY <1>1, <1>2
  <2> QED BY <1>1, <2>1, <2>2, SubSeqProperties
<1> HIDE DEF s, t
<1>5. Len(s) = i - 1 /\ \A j \in 1..(i - 1) : s[j] = rs[j]
  <2>1. Len(s) = i - 1
    BY <1>2, <1>3
  <2>2. \A j \in 1..(i - 1) : j \in 1..(i - 1 - 1 + 1) /\ 1 + j - 1 = j
    BY <1>2
  <2> QED BY <1>3, <2>1, <2>2
<1>6. Len(t) = n - i /\ \A j \in 1..(n - i) : t[j] = rs[i + j]
  <2>1. Len(t) = n - i
    BY <1>1, <1>2, <1>4
  <2>2. \A j \in 1..(n - i) : j \in 1..(n - (i + 1) + 1) /\ i + 1 + j - 1 = i + j
    BY <1>1, <1>2
  <2> QED BY <1>4, <2>1, <2>2
<1>8. /\ out \in Seq(P) /\ Len(out) = Len(s) + Len(t)
      /\ \A j \in 1..(Len(s) + Len(t)) : out[j] = IF j <= Len(s) THEN s[j] ELSE t[j - Len(s)]
  BY <1>3, <1>4, ConcatProperties
<1> HIDE DEF out
<1>9. Len(out) = n - 1 /\ n - 1 \in Nat
  BY <1>1, <1>2, <1>5, <1>6, <1>8
<1>10. f \in [1..(n - 1) -> 1..n]
  BY <1>1, <1>2
<1>11. \A j, k \in 1..(n - 1) : f[j] = f[k] => j = k
  BY <1>1, <1>2
<1>12. \A j \in 1..(n - 1) : f[j] # i
  BY <1>1, <1>2
<1>13. ASSUME NEW j \in 1..(n - 1) PROVE out[j] = rs[f[j]]
  <2>1. CASE j < i
    <3>1. j \in 1..(Len(s) + Len(t)) /\ j <= Len(s) /\ j \in 1..(i - 1) /\ f[j] = j
      BY <1>1, <1>2, <1>5, <1>6, <2>1
    <3> HIDE DEF f
    <3> QED BY <1>5, <1>8, <3>1
  <2>2. CASE ~(j < i)
    <3>1. /\ j \in 1..(Len(s) + Len(t)) /\ ~(j <= Len(s)) /\ j - Len(s) \in 1..(n - i)
          /\ f[j] = j + 1 /\ i + (j - Len(s)) = j + 1
      BY <1>1, <1>2, <1>5, <1>6, <2>2
    <3> HIDE DEF f
    <3> QED BY <1>6, <1>8, <3>1
  <2> QED BY <2>1, <2>2
<1> HIDE DEF f
<1>14. /\ RowsOK(out) /\ SlotsOf(out) \subseteq SlotsOf(rs)
       /\ Elements(rs[i]) \cap SlotsOf(out) = {}
  <2>1. f \in [1..(n - 1) -> 1..Len(rs)] /\ out \in Seq(Seq(Positive))
    BY <1>8, <1>10 DEF n, P
  <2>2. PICK m \in Nat : m = n - 1
    BY <1>9
  <2>3. /\ f \in [1..m -> 1..Len(rs)] /\ Len(out) = m /\ out \in Seq(Seq(Positive))
        /\ \A j, k \in 1..m : f[j] = f[k] => j = k
        /\ \A j \in 1..m : out[j] = rs[f[j]]
        /\ \A j \in 1..m : f[j] # i
    BY <1>9, <1>11, <1>12, <1>13, <2>1, <2>2
  <2>4. /\ RowsOK(out) /\ SlotsOf(out) \subseteq SlotsOf(rs)
        /\ SlotsOf(out) = Picked(rs, f, m)
    <3>1. \A j, k \in 1..m : f[j] = f[k] => j = k
      BY <2>3
    <3>2. \A j \in 1..m : out[j] = rs[f[j]]
      BY <2>3
    <3>3. f \in [1..m -> 1..Len(rs)] /\ Len(out) = m /\ out \in Seq(Seq(Positive))
      BY <2>3
    <3>4. PickedOK(rs, f, m, out)
      BY <3>1, <3>2, <3>3, PickRows
    <3> QED BY <3>4 DEF PickedOK
  <2>5. \A j \in 1..m : Elements(rs[i]) \cap Elements(rs[f[j]]) = {}
    BY <2>3 DEF RowsOK
  <2>6. Elements(rs[i]) \cap Picked(rs, f, m) = {}
    BY <2>5, Zenon DEF Picked
  <2> QED BY <2>4, <2>6
<1>15. \A j \in 1..Len(out) : \E k \in 1..Len(rs) : out[j] = rs[k]
  BY <1>9, <1>10, <1>13 DEF n
<1>16. Without(rs, i) = out
  BY DEF Without, out, s, t, n
<1> QED BY <1>14, <1>15, <1>16

\* A dropped row gives its slots back, unless it was the last one.
LEMMA DropInv ==
  ASSUME GraphInv, NEW i \in DOMAIN rows, Drop(i)
  PROVE  GraphInv'
<1>1. /\ pc = "idle" /\ UNCHANGED <<pc, turn, key, fresh, gen, graphs, stamp, inbuf>>
      /\ pool' = (IF Len(rows) = 1 THEN pool ELSE FreePool(pool, rows[i]))
      /\ rows' = SubSeq(rows, 1, i - 1) \o SubSeq(rows, i + 1, Len(rows))
  BY DEF Drop
<1>2. /\ FreeListOK(pool) /\ RowsOK(rows)
      /\ SlotsOf(rows) \cap Elements(pool.free) = {}
      /\ SlotsOf(rows) \subseteq 1..(pool.pool_size - 1)
      /\ turn = "draft" /\ fresh = <<>> /\ \A j \in 1..Len(rows) : Len(rows[j]) >= K
  BY <1>1 DEF GraphInv, SlotInv, RowInv
<1>3. /\ i \in 1..Len(rows) /\ rows[i] \in Seq(Positive) /\ Unique(rows[i])
      /\ Elements(rows[i]) \subseteq SlotsOf(rows)
  BY <1>2, RowFacts
<1>4. /\ RowsOK(rows') /\ SlotsOf(rows') \subseteq SlotsOf(rows)
      /\ Elements(rows[i]) \cap SlotsOf(rows') = {}
      /\ \A j \in 1..Len(rows') : \E k \in 1..Len(rows) : rows'[j] = rows[k]
  <2>1. rows' = Without(rows, i)
    BY <1>1 DEF Without
  <2>2. /\ RowsOK(Without(rows, i)) /\ SlotsOf(Without(rows, i)) \subseteq SlotsOf(rows)
        /\ Elements(rows[i]) \cap SlotsOf(Without(rows, i)) = {}
        /\ \A j \in 1..Len(Without(rows, i)) :
             \E k \in 1..Len(rows) : Without(rows, i)[j] = rows[k]
    BY <1>2, <1>3, RemoveRow
  <2> QED BY <2>1, <2>2, Zenon
<1>5. pool \in PoolRecord /\ gen \in Nat
  BY GraphFacts
<1>6. /\ pool' \in PoolRecord /\ FreeListOK(pool')
      /\ pool'.pool_size = pool.pool_size /\ pool'.pool_version = pool.pool_version
      /\ Elements(pool'.free) \cap SlotsOf(rows') = {}
  <2>1. CASE Len(rows) = 1
    BY <1>1, <1>2, <1>4, <1>5, <2>1
  <2>2. CASE Len(rows) # 1
    <3>1. Returned(pool, Elements(rows[i]), pool')
      BY <1>1, <1>2, <1>3, <1>5, <2>2, FreeRow
    <3> QED BY <1>2, <1>4, <3>1 DEF Returned
  <2> QED BY <2>1, <2>2
<1>7. CacheInv' /\ gen' \in Nat
  <2>1. pool.pool_size \in Nat /\ pool.pool_version \in Nat
    BY <1>5 DEF PoolRecord
  <2>2. gen' = GenAfter(pool')
    BY <1>1, <1>6, <2>1 DEF GenAfter
  <2> QED BY <1>1, <1>6, <2>1, <2>2, CachesKept
<1>8. GraphTypeOK'
  BY <1>1, <1>6 DEF GraphInv, GraphTypeOK
<1>9. SlotInv'
  BY <1>1, <1>2, <1>4, <1>6, EmptyRows DEF SlotInv
<1>10. RowInv'
  BY <1>1, <1>2, <1>4 DEF RowInv
<1> QED BY <1>7, <1>8, <1>9, <1>10 DEF GraphInv

\* The key of a draft holds the persistent part of every row.
LEMMA StartDraftInv ==
  ASSUME GraphInv, StartDraft
  PROVE  GraphInv'
<1> DEFINE lens == [i \in DOMAIN rows |-> Len(rows[i]) - K]
           k == ResolveKey("draft", lens)
           n == Len(rows)
<1>1. /\ pc = "idle" /\ rows # <<>> /\ key' = k
      /\ pc' = (IF k \in Keys("draft") THEN "lookup" ELSE "raised") /\ turn' = "draft"
      /\ UNCHANGED <<rows, fresh, pool, gen, graphs, stamp, inbuf>>
  BY DEF StartDraft
<1>2. SlotInv /\ RowInv /\ turn = "draft" /\ fresh = <<>> /\ RowsOK(rows)
      /\ \A i \in 1..n : Len(rows[i]) >= K
  BY <1>1 DEF GraphInv, RowInv, SlotInv
<1>3. n \in Nat /\ n > 0 /\ lens \in [1..n -> Nat] /\ K \in Nat
  <2>1. n \in Nat /\ DOMAIN rows = 1..n /\ \A i \in 1..n : Len(rows[i]) \in Nat
    BY <1>2, RowFacts
  <2>2. n # 0
    BY <1>1, <1>2, EmptySeq DEF RowsOK
  <2>3. K \in Nat
    BY GraphAssumption
  <2> QED BY <1>2, <2>1, <2>2, <2>3
<1>4. CacheInv' /\ GraphTypeOK'
  BY <1>1 DEF GraphInv, CacheInv, GraphTypeOK, Runners
<1>5. ASSUME pc' # "raised" PROVE SlotInv' /\ RowInv'
  <2>1. k \in Keys("draft") /\ pc' = "lookup"
    BY <1>1, <1>5
  <2>2. n <= k[1] /\ \A i \in 1..n : lens[i] <= k[2]
    BY <1>3, <2>1, KeyFacts DEF Runners
  <2>3. DOMAIN rows = 1..n /\ \A i \in 1..n : lens[i] = Len(rows[i]) - K
    BY <1>2, RowFacts
  <2> HIDE DEF k, lens
  <2>4. SlotInv'
    BY <1>1, <1>2 DEF SlotInv
  <2>5. RowInv'
    BY <1>1, <1>2, <1>3, <2>1, <2>2, <2>3 DEF RowInv, ReadLen
  <2> QED BY <2>4, <2>5
<1> QED BY <1>4, <1>5 DEF GraphInv

\* A lookup leaves only current graphs in the cache it looks into.
LEMMA LookupInv ==
  ASSUME GraphInv, Lookup
  PROVE  GraphInv'
<1> DEFINE drop == Stale(turn)
           v == pool.pool_version
<1>1. /\ pc = "lookup" /\ UNCHANGED <<turn, key, rows, fresh, pool, gen>>
      /\ graphs' = (IF drop THEN [graphs EXCEPT ![turn] = NoGraphs] ELSE graphs)
      /\ stamp' = (IF drop THEN [stamp EXCEPT ![turn] = NoGraphs] ELSE stamp)
      /\ inbuf' = (IF drop THEN [inbuf EXCEPT ![turn] = NoGraphs] ELSE inbuf)
      /\ pc' = (IF ~drop /\ key \in DOMAIN graphs[turn] THEN "replay" ELSE "capture")
  BY DEF Lookup
<1>2. /\ turn \in Runners /\ key \in Keys(turn)
      /\ DOMAIN graphs = Runners /\ DOMAIN stamp = Runners /\ DOMAIN inbuf = Runners
  BY <1>1, GraphFacts DEF GraphInv, GraphTypeOK
<1>3. /\ graphs = [x \in Runners |-> graphs[x]]
      /\ stamp = [x \in Runners |-> stamp[x]]
      /\ inbuf = [x \in Runners |-> inbuf[x]]
      /\ \A x \in Runners : CacheOK(graphs[x], stamp[x], inbuf[x], v, gen)
  BY DEF GraphInv, CacheInv
<1>4. /\ graphs' = [x \in Runners |-> graphs'[x]]
      /\ stamp' = [x \in Runners |-> stamp'[x]]
      /\ inbuf' = [x \in Runners |-> inbuf'[x]]
  BY <1>1, <1>3
<1>5. /\ \A x \in Runners : CacheOK(graphs'[x], stamp'[x], inbuf'[x], v, gen)
      /\ Current(stamp'[turn], v)
      /\ \A x \in Runners : DOMAIN graphs'[x] \subseteq DOMAIN graphs[x]
  <2>1. CASE drop
    <3>1. ASSUME NEW x \in Runners
          PROVE  /\ CacheOK(graphs'[x], stamp'[x], inbuf'[x], v, gen)
                 /\ DOMAIN graphs'[x] \subseteq DOMAIN graphs[x]
      <4>1. CASE x = turn
        <5>1. graphs'[x] = NoGraphs /\ stamp'[x] = NoGraphs /\ inbuf'[x] = NoGraphs
          BY <1>1, <1>2, <2>1, <4>1
        <5> QED BY <5>1, NoGraphsOK
      <4>2. CASE x # turn
        <5>1. graphs'[x] = graphs[x] /\ stamp'[x] = stamp[x] /\ inbuf'[x] = inbuf[x]
          BY <1>1, <1>2, <2>1, <4>2
        <5> QED BY <1>3, <5>1
      <4> QED BY <4>1, <4>2
    <3>2. stamp'[turn] = NoGraphs
      BY <1>1, <1>2, <2>1
    <3> QED BY <3>1, <3>2, NoGraphsOK DEF Current
  <2>2. CASE ~drop
    <3>1. graphs' = graphs /\ stamp' = stamp /\ inbuf' = inbuf
      BY <1>1, <2>2
    <3>2. DOMAIN stamp[turn] = DOMAIN graphs[turn]
      BY <1>2, <1>3 DEF CacheOK
    <3>3. Current(stamp[turn], v)
      BY <2>2, <3>2 DEF Stale, Current
    <3> QED BY <1>3, <3>1, <3>3
  <2> QED BY <2>1, <2>2
<1>6. pc' = "replay" => key \in DOMAIN graphs'[turn]
  BY <1>1
<1>7. CacheInv'
  BY <1>1, <1>4, <1>5 DEF CacheInv
<1>8. GraphTypeOK'
  <2>1. \A x \in Runners : DOMAIN stamp'[x] = DOMAIN graphs'[x] /\ DOMAIN inbuf'[x] = DOMAIN graphs'[x]
    BY <1>5 DEF CacheOK
  <2>2. \A x \in Runners : DOMAIN graphs'[x] \subseteq Keys(x)
    BY <1>5 DEF GraphInv, GraphTypeOK
  <2>3. pc' \in {"capture", "replay"}
    BY <1>1
  <2> QED BY <1>1, <1>2, <1>6, <2>1, <2>2, <2>3 DEF GraphInv, GraphTypeOK
<1>9. SlotInv' /\ RowInv'
  <2>1. SlotInv /\ RowInv /\ pc' \in {"capture", "replay"}
    BY <1>1 DEF GraphInv
  <2>2. SlotInv'
    BY <1>1, <2>1 DEF SlotInv
  <2>3. RowInv'
    BY <1>1, <2>1 DEF RowInv, ReadLen
  <2> QED BY <2>2, <2>3
<1> QED BY <1>7, <1>8, <1>9 DEF GraphInv

\* A captured graph joins a cache whose graphs are all current.
LEMMA CapturedOK ==
  ASSUME NEW g, NEW s, NEW b, NEW k, NEW v \in Nat, NEW n \in Nat, NEW z, Shaped(z, k),
         CacheOK(g, s, b, v, n), Current(s, v)
  PROVE  /\ CacheOK(WithEntry(g, k, n), WithEntry(s, k, v), WithEntry(b, k, z), v, n)
         /\ Current(WithEntry(s, k, v), v)
<1> DEFINE g2 == WithEntry(g, k, n)
           s2 == WithEntry(s, k, v)
           b2 == WithEntry(b, k, z)
<1>1. DOMAIN s = DOMAIN g /\ DOMAIN b = DOMAIN g
  BY DEF CacheOK
<1>2. /\ DOMAIN g2 = DOMAIN g \cup {k} /\ DOMAIN s2 = DOMAIN g \cup {k}
      /\ DOMAIN b2 = DOMAIN g \cup {k}
  BY <1>1 DEF WithEntry
<1>3. ASSUME NEW l \in DOMAIN g2
      PROVE  g2[l] \in Nat /\ g2[l] = n /\ s2[l] = v /\ Shaped(b2[l], l)
  <2>1. CASE l \in DOMAIN g
    <3>1. g2[l] = g[l] /\ s2[l] = s[l] /\ b2[l] = b[l]
      BY <1>1, <2>1 DEF WithEntry
    <3>2. s[l] = v
      BY <1>1, <2>1 DEF Current
    <3> QED BY <2>1, <3>1, <3>2 DEF CacheOK
  <2>2. CASE l \notin DOMAIN g
    <3>1. l = k
      BY <1>2, <2>2
    <3>2. g2[l] = n /\ s2[l] = v /\ b2[l] = z
      BY <1>1, <1>2, <2>2, <3>1 DEF WithEntry
    <3> QED BY <3>1, <3>2
  <2> QED BY <2>1, <2>2
<1> HIDE DEF g2, s2, b2
<1>4. CacheOK(g2, s2, b2, v, n) /\ Current(s2, v)
  BY <1>2, <1>3 DEF CacheOK, Current
<1> QED BY <1>4 DEF g2, s2, b2

\* A capture adds a current graph to current graphs.
LEMMA CaptureInv ==
  ASSUME GraphInv, Capture
  PROVE  GraphInv'
<1> DEFINE v == pool.pool_version
<1>1. /\ pc = "capture" /\ UNCHANGED <<turn, key, rows, fresh, pool, gen>> /\ pc' = "replay"
      /\ graphs' = [graphs EXCEPT ![turn] = WithEntry(@, key, gen)]
      /\ stamp' = [stamp EXCEPT ![turn] = WithEntry(@, key, v)]
      /\ inbuf' = [inbuf EXCEPT ![turn] = WithEntry(@, key, ZeroInputs(key))]
  BY DEF Capture
<1>2. /\ turn \in Runners /\ key \in Keys(turn) /\ v \in Nat /\ gen \in Nat
      /\ DOMAIN graphs = Runners /\ DOMAIN stamp = Runners /\ DOMAIN inbuf = Runners
  BY <1>1, GraphFacts DEF GraphInv, GraphTypeOK
<1>3. /\ graphs = [x \in Runners |-> graphs[x]]
      /\ stamp = [x \in Runners |-> stamp[x]]
      /\ inbuf = [x \in Runners |-> inbuf[x]]
      /\ \A x \in Runners : CacheOK(graphs[x], stamp[x], inbuf[x], v, gen)
      /\ Current(stamp[turn], v)
  BY <1>1 DEF GraphInv, CacheInv
<1>4. /\ graphs' = [x \in Runners |-> graphs'[x]]
      /\ stamp' = [x \in Runners |-> stamp'[x]]
      /\ inbuf' = [x \in Runners |-> inbuf'[x]]
  BY <1>1, <1>3
<1>5. /\ graphs'[turn] = WithEntry(graphs[turn], key, gen)
      /\ stamp'[turn] = WithEntry(stamp[turn], key, v)
      /\ inbuf'[turn] = WithEntry(inbuf[turn], key, ZeroInputs(key))
  BY <1>1, <1>2
<1>6. \A x \in Runners : x # turn =>
        graphs'[x] = graphs[x] /\ stamp'[x] = stamp[x] /\ inbuf'[x] = inbuf[x]
  BY <1>1, <1>2
<1>7. CacheOK(graphs'[turn], stamp'[turn], inbuf'[turn], v, gen) /\ Current(stamp'[turn], v)
  <2>1. Shaped(ZeroInputs(key), key)
    BY <1>2, ZeroShaped
  <2>2. CacheOK(graphs[turn], stamp[turn], inbuf[turn], v, gen) /\ Current(stamp[turn], v)
    BY <1>2, <1>3
  <2> HIDE DEF v
  <2>3. /\ CacheOK(WithEntry(graphs[turn], key, gen), WithEntry(stamp[turn], key, v),
                   WithEntry(inbuf[turn], key, ZeroInputs(key)), v, gen)
        /\ Current(WithEntry(stamp[turn], key, v), v)
    BY <1>2, <2>1, <2>2, CapturedOK
  <2> QED BY <1>5, <2>3, Zenon
<1>8. \A x \in Runners : CacheOK(graphs'[x], stamp'[x], inbuf'[x], v, gen)
  BY <1>3, <1>6, <1>7
<1>9. DOMAIN graphs'[turn] = DOMAIN graphs[turn] \cup {key}
  BY <1>5 DEF WithEntry
<1>10. CacheInv'
  BY <1>1, <1>4, <1>7, <1>8 DEF CacheInv
<1>11. GraphTypeOK'
  <2>1. \A x \in Runners : DOMAIN stamp'[x] = DOMAIN graphs'[x] /\ DOMAIN inbuf'[x] = DOMAIN graphs'[x]
    BY <1>8 DEF CacheOK
  <2>2. \A x \in Runners : DOMAIN graphs[x] \subseteq Keys(x)
    BY DEF GraphInv, GraphTypeOK
  <2>3. \A x \in Runners : DOMAIN graphs'[x] \subseteq Keys(x)
    BY <1>2, <1>6, <1>9, <2>2
  <2> QED BY <1>1, <1>2, <1>9, <2>1, <2>3 DEF GraphInv, GraphTypeOK
<1>12. SlotInv' /\ RowInv'
  <2>1. SlotInv /\ RowInv
    BY <1>1 DEF GraphInv
  <2>2. SlotInv'
    BY <1>1, <2>1 DEF SlotInv
  <2>3. RowInv'
    BY <1>1, <2>1 DEF RowInv, ReadLen
  <2> QED BY <2>2, <2>3
<1> QED BY <1>10, <1>11, <1>12 DEF GraphInv

-----------------------------------------------------------------------------
(* Replays. *)

\* New inputs for graph k.
LEMMA InputsReplaced ==
  ASSUME NEW g, NEW s, NEW b, NEW k \in DOMAIN g, NEW v, NEW n, NEW z, Shaped(z, k),
         CacheOK(g, s, b, v, n)
  PROVE  CacheOK(g, s, [b EXCEPT ![k] = z], v, n)
<1> DEFINE b2 == [b EXCEPT ![k] = z]
<1>1. DOMAIN b2 = DOMAIN g
  BY DEF CacheOK
<1>2. \A l \in DOMAIN g : b2[l] = IF l = k THEN z ELSE b[l]
  BY DEF CacheOK
<1> HIDE DEF b2
<1>3. \A l \in DOMAIN g : Shaped(b2[l], l)
  BY <1>2 DEF CacheOK
<1>4. CacheOK(g, s, b2, v, n)
  BY <1>1, <1>3 DEF CacheOK
<1> QED BY <1>4 DEF b2

\* Two lists with the same first n elements.
LEMMA SameFront ==
  ASSUME NEW l, NEW row, NEW n \in Nat,
         \A j \in 1..n : l[j] \in Nat /\ l[j] = row[j]
  PROVE  SubSeq(l, 1, n) = SubSeq(row, 1, n)
<1> DEFINE s == SubSeq(l, 1, n)
           t == SubSeq(row, 1, n)
<1>1. /\ s \in Seq(Nat) /\ Len(s) = IF 1 <= n THEN n - 1 + 1 ELSE 0
      /\ \A i \in 1..(n - 1 + 1) : s[i] = l[1 + i - 1]
  BY SubSeqProperties
<1>2. /\ t \in Seq(Nat) /\ Len(t) = IF 1 <= n THEN n - 1 + 1 ELSE 0
      /\ \A i \in 1..(n - 1 + 1) : t[i] = row[1 + i - 1]
  <2>1. \A j \in 1..n : row[j] \in Nat
    OBVIOUS
  <2> QED BY <2>1, SubSeqProperties
<1> HIDE DEF s, t
<1>3. \A i \in 1..n : i \in 1..(n - 1 + 1) /\ 1 + i - 1 = i
  OBVIOUS
<1>4. Len(s) = n /\ Len(t) = n
  BY <1>1, <1>2
<1>5. \A i \in 1..n : s[i] = t[i]
  BY <1>1, <1>2, <1>3
<1>6. s = t
  BY <1>1, <1>2, <1>4, <1>5, SeqEqual
<1> QED BY <1>6 DEF s, t

LEMMA WholeRow ==
  ASSUME NEW row \in Seq(Positive)
  PROVE  SubSeq(row, 1, Len(row)) = row
<1> DEFINE n == Len(row)
           s == SubSeq(row, 1, n)
<1>1. n \in Nat /\ \A i \in 1..n : row[i] \in Positive
  BY LenProperties, ElementOfSeq
<1> HIDE DEF n
<1>2. /\ s \in Seq(Positive) /\ Len(s) = IF 1 <= n THEN n - 1 + 1 ELSE 0
      /\ \A i \in 1..(n - 1 + 1) : s[i] = row[1 + i - 1]
  BY <1>1, SubSeqProperties
<1> HIDE DEF s
<1>3. \A i \in 1..n : i \in 1..(n - 1 + 1) /\ 1 + i - 1 = i
  BY <1>1
<1>4. Len(s) = n
  BY <1>1, <1>2
<1>5. \A i \in 1..n : s[i] = row[i]
  BY <1>2, <1>3
<1>6. s = row
  BY <1>2, <1>4, <1>5, SeqEqual DEF n
<1> QED BY <1>6 DEF s, n

\* What the graph of runner x and key k reads from inputs b.
ReadsOwn(x, k, b) ==
  \A i \in 1..k[1] :
    Gathered(b, i) = IF i > Len(rows) THEN <<>>
                     ELSE IF x = "draft" THEN Persistent(rows[i]) ELSE rows[i]

\* A batch that fits key k of runner x.
Fits(x, k) ==
  /\ k \in Nat \X Nat /\ RowsOK(rows) /\ Len(rows) <= k[1]
  /\ \A i \in 1..Len(rows) : ReadLen(x, i) \in Nat /\ ReadLen(x, i) <= k[2]

\* Inputs whose row i starts with what the runner reads of row i of the batch.
LEMMA GatheredRows ==
  ASSUME NEW x \in Runners, NEW k, Fits(x, k), NEW b, Shaped(b, k),
         \A i \in 1..k[1] : IF i > Len(rows) THEN b.count[i] = 0
                            ELSE /\ b.count[i] = ReadLen(x, i)
                                 /\ \A j \in 1..ReadLen(x, i) : b.loc[i][j] = rows[i][j]
  PROVE  ReadsOwn(x, k, b)
<1> SUFFICES ASSUME NEW i \in 1..k[1]
             PROVE  Gathered(b, i) = IF i > Len(rows) THEN <<>>
                                     ELSE IF x = "draft" THEN Persistent(rows[i]) ELSE rows[i]
  BY DEF ReadsOwn
<1>1. k[1] \in Nat /\ k[2] \in Nat /\ Len(rows) \in Nat /\ Len(rows) <= k[1]
  BY RowFacts DEF Fits
<1>2. b.loc[i] \in [1..k[2] -> Nat] /\ b.count[i] \in Nat
  BY DEF Shaped
<1>3. CASE i > Len(rows)
  <2>1. b.count[i] = 0
    BY <1>3
  <2>2. Gathered(b, i) = SubSeq(b.loc[i], 1, 0)
    BY <2>1 DEF Gathered
  <2>3. SubSeq(b.loc[i], 1, 0) = <<>>
    BY SubSeqEmpty
  <2> QED BY <1>3, <2>2, <2>3
<1>4. CASE ~(i > Len(rows))
  <2> DEFINE n == ReadLen(x, i)
  <2>1. i \in 1..Len(rows)
    BY <1>1, <1>4
  <2>2. n \in Nat /\ n <= k[2]
    BY <2>1 DEF Fits
  <2>3. b.count[i] = n /\ \A j \in 1..n : b.loc[i][j] = rows[i][j]
    BY <1>4
  <2>4. rows[i] \in Seq(Positive)
    BY <2>1, RowFacts DEF Fits
  <2> HIDE DEF n
  <2>5. \A j \in 1..n : j \in 1..k[2]
    BY <1>1, <2>2
  <2>6. \A j \in 1..n : b.loc[i][j] \in Nat /\ b.loc[i][j] = rows[i][j]
    BY <1>2, <2>3, <2>5
  <2>7. SubSeq(b.loc[i], 1, n) = SubSeq(rows[i], 1, n)
    BY <2>2, <2>6, SameFront
  <2>8. Gathered(b, i) = SubSeq(rows[i], 1, n)
    BY <2>3, <2>7 DEF Gathered
  <2>9. CASE x = "draft"
    BY <1>4, <2>8, <2>9 DEF n, ReadLen, Persistent
  <2>10. CASE x # "draft"
    <3>1. SubSeq(rows[i], 1, n) = rows[i]
      BY <2>4, <2>10, WholeRow DEF n, ReadLen
    <3> QED BY <1>4, <2>8, <2>10, <3>1
  <2> QED BY <2>9, <2>10
<1> QED BY <1>3, <1>4

\* What the draft runner writes into its buffers, whatever they held.
LEMMA DraftInputsFacts ==
  ASSUME NEW k, Fits("draft", k), NEW b, Shaped(b, k), K \in Nat
  PROVE  Shaped(DraftInputs(b), k) /\ ReadsOwn("draft", k, DraftInputs(b))
<1> DEFINE d == DraftInputs(b)
<1>1. k[1] \in Nat /\ k[2] \in Nat /\ Len(rows) \in Nat /\ Len(rows) <= k[1]
  BY RowFacts DEF Fits
<1>2. ASSUME NEW i \in 1..Len(rows)
      PROVE  /\ Len(rows[i]) \in Nat /\ Len(rows[i]) - K \in Nat /\ Len(rows[i]) - K <= k[2]
             /\ \A j \in 1..Len(rows[i]) : rows[i][j] \in Nat
  <2>1. rows[i] \in Seq(Positive) /\ Len(rows[i]) \in Nat
    BY RowFacts DEF Fits
  <2>2. \A j \in 1..Len(rows[i]) : rows[i][j] \in Nat
    BY <2>1, ElementOfSeq DEF Positive, Sentinel
  <2>3. Len(rows[i]) - K \in Nat /\ Len(rows[i]) - K <= k[2]
    BY DEF Fits, ReadLen
  <2> QED BY <2>1, <2>2, <2>3
<1>3. /\ b.loc \in [1..k[1] -> [1..k[2] -> Nat]] /\ b.count \in [1..k[1] -> Nat]
  BY DEF Shaped
<1>4. /\ DOMAIN b.loc = 1..k[1] /\ DOMAIN b.count = 1..k[1]
      /\ \A i \in 1..k[1] : DOMAIN b.loc[i] = 1..k[2] /\ \A j \in 1..k[2] : b.loc[i][j] \in Nat
  BY <1>3
<1> DEFINE loc == [i \in 1..k[1] |-> [j \in 1..k[2] |->
                     IF i > Len(rows) THEN Sentinel
                     ELSE IF j <= Len(rows[i]) - K THEN rows[i][j] ELSE b.loc[i][j]]]
           count == [i \in 1..k[1] |-> IF i > Len(rows) THEN 0 ELSE Len(rows[i]) - K]
<1>5. d = [loc |-> loc, count |-> count]
  <2>1. DraftInputs(b).loc = loc
    BY <1>4 DEF DraftInputs
  <2>2. DraftInputs(b).count = count
    BY <1>4 DEF DraftInputs
  <2> QED BY <2>1, <2>2 DEF DraftInputs
<1>6. ASSUME NEW i \in 1..k[1], NEW j \in 1..k[2]
      PROVE  loc[i][j] \in Nat
  <2>1. CASE i > Len(rows)
    BY <2>1 DEF Sentinel
  <2>2. CASE ~(i > Len(rows))
    <3>1. i \in 1..Len(rows)
      BY <1>1, <2>2
    <3>2. j <= Len(rows[i]) - K => j \in 1..Len(rows[i])
      BY <1>1, <1>2, <3>1
    <3> QED BY <1>2, <1>4, <2>2, <3>1, <3>2
  <2> QED BY <2>1, <2>2
<1>7. \A i \in 1..k[1] : count[i] \in Nat
  <2> SUFFICES ASSUME NEW i \in 1..k[1] PROVE count[i] \in Nat
    OBVIOUS
  <2>1. ~(i > Len(rows)) => i \in 1..Len(rows)
    BY <1>1
  <2> QED BY <1>2, <2>1
<1>8. Shaped(d, k)
  <2>1. loc \in [1..k[1] -> [1..k[2] -> Nat]]
    BY <1>6
  <2>2. count \in [1..k[1] -> Nat]
    BY <1>7
  <2> QED BY <1>5, <2>1, <2>2 DEF Shaped
<1>9. ASSUME NEW i \in 1..k[1]
      PROVE  IF i > Len(rows) THEN d.count[i] = 0
             ELSE /\ d.count[i] = ReadLen("draft", i)
                  /\ \A j \in 1..ReadLen("draft", i) : d.loc[i][j] = rows[i][j]
  <2>1. d.loc = loc /\ d.count = count
    BY <1>5
  <2>2. CASE i > Len(rows)
    BY <2>1, <2>2
  <2>3. CASE ~(i > Len(rows))
    <3>1. i \in 1..Len(rows)
      BY <1>1, <2>3
    <3>2. \A j \in 1..(Len(rows[i]) - K) : j \in 1..k[2] /\ j <= Len(rows[i]) - K
      BY <1>1, <1>2, <3>1
    <3>3. count[i] = Len(rows[i]) - K
      BY <2>3
    <3>4. \A j \in 1..(Len(rows[i]) - K) : loc[i][j] = rows[i][j]
      BY <2>3, <3>2
    <3> QED BY <2>1, <2>3, <3>3, <3>4 DEF ReadLen
  <2> QED BY <2>2, <2>3
<1> HIDE DEF d
<1>10. ReadsOwn("draft", k, d)
  BY <1>8, <1>9, GatheredRows DEF Runners
<1> QED BY <1>8, <1>10 DEF d

\* What the refresh runner writes into its buffers.
LEMMA RefreshInputsFacts ==
  ASSUME NEW k, Fits("refresh", k), NEW b, Shaped(b, k)
  PROVE  Shaped(RefreshInputs(b), k) /\ ReadsOwn("refresh", k, RefreshInputs(b))
<1> DEFINE d == RefreshInputs(b)
<1>1. k[1] \in Nat /\ k[2] \in Nat /\ Len(rows) \in Nat /\ Len(rows) <= k[1]
  BY RowFacts DEF Fits
<1>2. ASSUME NEW i \in 1..Len(rows)
      PROVE  /\ Len(rows[i]) \in Nat /\ Len(rows[i]) <= k[2]
             /\ \A j \in 1..Len(rows[i]) : rows[i][j] \in Nat
  <2>1. rows[i] \in Seq(Positive) /\ Len(rows[i]) \in Nat
    BY RowFacts DEF Fits
  <2>2. \A j \in 1..Len(rows[i]) : rows[i][j] \in Nat
    BY <2>1, ElementOfSeq DEF Positive, Sentinel
  <2>3. Len(rows[i]) <= k[2]
    BY DEF Fits, ReadLen
  <2> QED BY <2>1, <2>2, <2>3
<1>3. /\ b.loc \in [1..k[1] -> [1..k[2] -> Nat]] /\ b.count \in [1..k[1] -> Nat]
  BY DEF Shaped
<1>4. /\ DOMAIN b.loc = 1..k[1] /\ DOMAIN b.count = 1..k[1]
      /\ \A i \in 1..k[1] : DOMAIN b.loc[i] = 1..k[2]
  BY <1>3
<1> DEFINE loc == [i \in 1..k[1] |-> [j \in 1..k[2] |->
                     IF i <= Len(rows) /\ j <= Len(rows[i]) THEN rows[i][j] ELSE Sentinel]]
           count == [i \in 1..k[1] |-> IF i <= Len(rows) THEN Len(rows[i]) ELSE 0]
<1>5. d = [loc |-> loc, count |-> count]
  <2>1. RefreshInputs(b).loc = loc
    BY <1>4 DEF RefreshInputs
  <2>2. RefreshInputs(b).count = count
    BY <1>4 DEF RefreshInputs
  <2> QED BY <2>1, <2>2 DEF RefreshInputs
<1>6. ASSUME NEW i \in 1..k[1], NEW j \in 1..k[2]
      PROVE  loc[i][j] \in Nat
  <2>1. CASE i <= Len(rows) /\ j <= Len(rows[i])
    <3>1. i \in 1..Len(rows)
      BY <1>1, <2>1
    <3>2. j \in 1..Len(rows[i])
      BY <1>1, <1>2, <2>1, <3>1
    <3> QED BY <1>2, <2>1, <3>1, <3>2
  <2>2. CASE ~(i <= Len(rows) /\ j <= Len(rows[i]))
    BY <2>2 DEF Sentinel
  <2> QED BY <2>1, <2>2
<1>7. \A i \in 1..k[1] : count[i] \in Nat
  <2> SUFFICES ASSUME NEW i \in 1..k[1] PROVE count[i] \in Nat
    OBVIOUS
  <2>1. i <= Len(rows) => i \in 1..Len(rows)
    BY <1>1
  <2> QED BY <1>2, <2>1
<1>8. Shaped(d, k)
  <2>1. loc \in [1..k[1] -> [1..k[2] -> Nat]]
    BY <1>6
  <2>2. count \in [1..k[1] -> Nat]
    BY <1>7
  <2> QED BY <1>5, <2>1, <2>2 DEF Shaped
<1>9. ASSUME NEW i \in 1..k[1]
      PROVE  IF i > Len(rows) THEN d.count[i] = 0
             ELSE /\ d.count[i] = ReadLen("refresh", i)
                  /\ \A j \in 1..ReadLen("refresh", i) : d.loc[i][j] = rows[i][j]
  <2>1. d.loc = loc /\ d.count = count
    BY <1>5
  <2>2. CASE i > Len(rows)
    <3>1. ~(i <= Len(rows))
      BY <1>1, <2>2
    <3> QED BY <2>1, <2>2, <3>1
  <2>3. CASE ~(i > Len(rows))
    <3>1. i \in 1..Len(rows) /\ i <= Len(rows)
      BY <1>1, <2>3
    <3>2. \A j \in 1..Len(rows[i]) : j \in 1..k[2] /\ j <= Len(rows[i])
      BY <1>1, <1>2, <3>1
    <3>3. count[i] = Len(rows[i])
      BY <3>1
    <3>4. \A j \in 1..Len(rows[i]) : loc[i][j] = rows[i][j]
      BY <3>1, <3>2
    <3> QED BY <2>1, <2>3, <3>3, <3>4 DEF ReadLen
  <2> QED BY <2>2, <2>3
<1> HIDE DEF d
<1>10. ReadsOwn("refresh", k, d)
  BY <1>8, <1>9, GatheredRows DEF Runners
<1> QED BY <1>8, <1>10 DEF d

\* The key that was resolved still holds the batch when its graph is replayed.
LEMMA ReplayFits ==
  ASSUME GraphInv, pc = "replay"
  PROVE  /\ key \in Keys(turn) /\ key \in DOMAIN graphs[turn] /\ Fits(turn, key)
         /\ Shaped(inbuf[turn][key], key) /\ DOMAIN inbuf[turn] = DOMAIN graphs[turn]
<1>1. turn \in Runners /\ key \in Keys(turn) /\ key \in DOMAIN graphs[turn] /\ SlotInv /\ RowInv
  BY DEF GraphInv, GraphTypeOK
<1>2. Shaped(inbuf[turn][key], key) /\ DOMAIN inbuf[turn] = DOMAIN graphs[turn]
  BY <1>1 DEF GraphInv, CacheInv, CacheOK
<1>3. key \in Nat \X Nat
  BY <1>1, BucketTypes DEF Keys
<1>4. RowsOK(rows) /\ Len(rows) <= key[1] /\ \A i \in 1..Len(rows) : ReadLen(turn, i) <= key[2]
  BY <1>1 DEF SlotInv, RowInv
<1>5. \A i \in 1..Len(rows) : ReadLen(turn, i) \in Nat
  <2> SUFFICES ASSUME NEW i \in 1..Len(rows) PROVE ReadLen(turn, i) \in Nat
    OBVIOUS
  <2>1. Len(rows[i]) \in Nat
    BY <1>4, RowFacts
  <2>2. K \in Nat
    BY GraphAssumption
  <2>3. turn = "draft" => Len(rows[i]) >= K
    BY <1>1 DEF RowInv
  <2> QED BY <2>1, <2>2, <2>3 DEF ReadLen
<1> QED BY <1>1, <1>2, <1>3, <1>4, <1>5 DEF Fits

\* A replay leaves graphs and stamps alone and writes its inputs.
LEMMA ReplayKeepsCaches ==
  ASSUME GraphInv, pc = "replay", NEW z, Shaped(z, key), UNCHANGED <<graphs, stamp, pool, gen>>,
         inbuf' = [inbuf EXCEPT ![turn][key] = z], pc' \notin {"capture", "replay"}
  PROVE  /\ CacheInv' /\ inbuf'[turn][key] = z
         /\ \A x \in Runners : DOMAIN inbuf'[x] = DOMAIN graphs'[x]
<1> DEFINE v == pool.pool_version
<1>1. /\ turn \in Runners /\ DOMAIN inbuf = Runners /\ key \in DOMAIN inbuf[turn]
      /\ key \in DOMAIN graphs[turn]
  BY GraphFacts, ReplayFits
<1>2. /\ graphs = [x \in Runners |-> graphs[x]]
      /\ stamp = [x \in Runners |-> stamp[x]]
      /\ inbuf = [x \in Runners |-> inbuf[x]]
      /\ \A x \in Runners : CacheOK(graphs[x], stamp[x], inbuf[x], v, gen)
  BY DEF GraphInv, CacheInv
<1>3. inbuf' = [x \in Runners |-> inbuf'[x]]
  BY <1>2
<1>4. inbuf'[turn] = [inbuf[turn] EXCEPT ![key] = z]
  BY <1>1
<1>5. \A x \in Runners : x # turn => inbuf'[x] = inbuf[x]
  BY <1>1
<1>6. inbuf'[turn][key] = z
  BY <1>1, <1>4
<1>7. CacheOK(graphs[turn], stamp[turn], inbuf'[turn], v, gen)
  <2>1. CacheOK(graphs[turn], stamp[turn], inbuf[turn], v, gen)
    BY <1>1, <1>2
  <2>2. CacheOK(graphs[turn], stamp[turn], [inbuf[turn] EXCEPT ![key] = z], v, gen)
    BY <1>1, <2>1, InputsReplaced
  <2> QED BY <1>4, <2>2
<1>8. \A x \in Runners : CacheOK(graphs[x], stamp[x], inbuf'[x], v, gen)
  BY <1>2, <1>5, <1>7
<1>9. CacheInv'
  BY <1>2, <1>3, <1>8 DEF CacheInv
<1>10. \A x \in Runners : DOMAIN inbuf'[x] = DOMAIN graphs'[x]
  BY <1>8 DEF CacheOK
<1> QED BY <1>6, <1>9, <1>10

LEMMA DraftReplayInv ==
  ASSUME GraphInv, DraftReplay
  PROVE  GraphInv' /\ ReadsOwn(turn, key, inbuf'[turn][key])
<1> DEFINE z == DraftInputs(inbuf[turn][key])
<1>1. /\ pc = "replay" /\ turn = "draft" /\ pc' = "refresh"
      /\ UNCHANGED <<turn, key, rows, fresh, pool, gen, graphs, stamp>>
      /\ inbuf' = [inbuf EXCEPT ![turn][key] = DraftInputs(@)]
  BY DEF DraftReplay
<1>2. key \in DOMAIN inbuf[turn] /\ DOMAIN inbuf = Runners /\ turn \in Runners
  BY <1>1, ReplayFits, GraphFacts
<1>3. inbuf' = [inbuf EXCEPT ![turn][key] = z]
  BY <1>1, <1>2
<1>4. Shaped(z, key) /\ ReadsOwn(turn, key, z)
  <2>1. Fits("draft", key) /\ Shaped(inbuf[turn][key], key) /\ K \in Nat
    BY <1>1, ReplayFits, GraphAssumption
  <2> QED BY <1>1, <2>1, DraftInputsFacts
<1> HIDE DEF z
<1>5. /\ CacheInv' /\ inbuf'[turn][key] = z
      /\ \A x \in Runners : DOMAIN inbuf'[x] = DOMAIN graphs'[x]
  BY <1>1, <1>3, <1>4, ReplayKeepsCaches
<1>6. GraphTypeOK'
  BY <1>1, <1>5 DEF GraphInv, GraphTypeOK
<1>7. SlotInv' /\ RowInv'
  <2>1. SlotInv /\ RowInv
    BY <1>1 DEF GraphInv
  <2>2. SlotInv'
    BY <1>1, <2>1 DEF SlotInv
  <2>3. RowInv'
    BY <1>1, <2>1 DEF RowInv
  <2> QED BY <2>2, <2>3
<1>8. ReadsOwn(turn, key, inbuf'[turn][key])
  BY <1>4, <1>5
<1> QED BY <1>5, <1>6, <1>7, <1>8 DEF GraphInv

\* The check inside the refresh runner's replay always succeeds; the new slots join
\* the rows, each in its own.
LEMMA RefreshReplayInv ==
  ASSUME GraphInv, RefreshReplay
  PROVE  /\ GraphInv' /\ ReadsOwn(turn, key, inbuf'[turn][key])
         /\ UNCHANGED <<graphs, stamp, gen>>
<1> DEFINE z == RefreshInputs(inbuf[turn][key])
           n == Len(rows)
<1>1. pc = "replay" /\ turn = "refresh" /\ UNCHANGED <<pool, gen>>
  BY DEF RefreshReplay
<1>2. key \in DOMAIN inbuf[turn] /\ DOMAIN inbuf = Runners /\ turn \in Runners
      /\ key \in DOMAIN graphs[turn] /\ DOMAIN stamp[turn] = DOMAIN graphs[turn]
  BY <1>1, ReplayFits, GraphFacts DEF GraphInv, GraphTypeOK
<1>3. stamp[turn][key] = pool.pool_version
  BY <1>1, <1>2 DEF GraphInv, CacheInv, Current
<1>4. /\ pc' = "idle" /\ turn' = "draft" /\ fresh' = <<>> /\ UNCHANGED <<graphs, stamp>>
      /\ rows' = [i \in DOMAIN rows |-> rows[i] \o fresh[i]]
      /\ inbuf' = [inbuf EXCEPT ![turn][key] = RefreshInputs(@)]
  BY <1>3 DEF RefreshReplay
<1>5. inbuf' = [inbuf EXCEPT ![turn][key] = z]
  BY <1>2, <1>4
<1>6. Shaped(z, key) /\ ReadsOwn(turn, key, z)
  <2>1. Fits("refresh", key) /\ Shaped(inbuf[turn][key], key)
    BY <1>1, ReplayFits
  <2> QED BY <1>1, <2>1, RefreshInputsFacts
<1> HIDE DEF z
<1>7. /\ CacheInv' /\ inbuf'[turn][key] = z
      /\ \A x \in Runners : DOMAIN inbuf'[x] = DOMAIN graphs'[x]
  BY <1>1, <1>4, <1>5, <1>6, ReplayKeepsCaches
<1>8. GraphTypeOK'
  BY <1>1, <1>4, <1>7 DEF GraphInv, GraphTypeOK, Runners
<1>9. /\ RowsOK(rows) /\ RowsOK(fresh) /\ n = Len(fresh) /\ SlotsOf(rows) \cap SlotsOf(fresh) = {}
      /\ \A i \in 1..n : Len(fresh[i]) >= K
      /\ FreeListOK(pool)
      /\ (SlotsOf(rows) \cup SlotsOf(fresh)) \cap Elements(pool.free) = {}
      /\ SlotsOf(rows) \cup SlotsOf(fresh) \subseteq 1..(pool.pool_size - 1)
  BY <1>1 DEF GraphInv, SlotInv, RowInv
<1>10. n \in Nat /\ DOMAIN rows = 1..n
  BY <1>9, RowFacts
<1>11. \A i \in 1..n : rows[i] \in Seq(Positive) /\ fresh[i] \in Seq(Positive)
                       /\ Len(rows[i]) \in Nat /\ Len(fresh[i]) \in Nat
  BY <1>9, RowFacts
<1>12. rows' \in [1..n -> Seq(Positive)] /\ \A i \in 1..n : rows'[i] = rows[i] \o fresh[i]
  <2>1. \A i \in 1..n : rows[i] \o fresh[i] \in Seq(Positive)
    BY <1>11, ConcatProperties
  <2> QED BY <1>4, <1>10, <2>1
<1>13. /\ RowsOK(rows') /\ Len(rows') = n
       /\ \A i \in 1..n : Len(rows'[i]) = Len(rows[i]) + Len(fresh[i])
       /\ SlotsOf(rows') = SlotsOf(rows) \cup SlotsOf(fresh)
  <2>1. JoinedOK(rows, fresh, rows')
    BY <1>9, <1>10, <1>12, JoinRows
  <2> QED BY <2>1 DEF JoinedOK
<1>14. SlotInv'
  BY <1>1, <1>4, <1>9, <1>13, EmptyRows DEF SlotInv
<1>15. RowInv'
  <2>1. \A i \in 1..n : Len(rows'[i]) >= K
    <3> SUFFICES ASSUME NEW i \in 1..n PROVE Len(rows'[i]) >= K
      OBVIOUS
    <3>1. /\ Len(rows[i]) \in Nat /\ Len(fresh[i]) \in Nat /\ Len(fresh[i]) >= K
          /\ Len(rows'[i]) = Len(rows[i]) + Len(fresh[i]) /\ K \in Nat
      BY <1>9, <1>11, <1>13, GraphAssumption
    <3>2. \A a, b, c \in Nat : b >= c => a + b >= c
      OBVIOUS
    <3>3. Len(rows[i]) + Len(fresh[i]) >= K
      BY <3>1, <3>2, Zenon
    <3> QED BY <3>1, <3>3, Zenon
  <2> QED BY <1>4, <1>13, <2>1 DEF RowInv
<1> QED BY <1>1, <1>4, <1>6, <1>7, <1>8, <1>14, <1>15 DEF GraphInv

\* Rolled-back blocks are free before slots are allocated, and the key holds what
\* is left of the rows.
LEMMA StartRefreshInv ==
  ASSUME GraphInv, NEW acc \in [DOMAIN rows -> 0..MaxAccept], StartRefresh(acc)
  PROVE  GraphInv'
<1> DEFINE n == Len(rows)
           kept == [i \in DOMAIN rows |-> IF acc[i] = 0 THEN Persistent(rows[i]) ELSE rows[i]]
           dropped == [i \in DOMAIN rows |->
                         IF acc[i] = 0 THEN SubSeq(rows[i], Len(rows[i]) - K + 1, Len(rows[i]))
                         ELSE <<>>]
           lens == [i \in DOMAIN kept |-> Len(kept[i])]
           k == ResolveKey("refresh", lens)
           q == FreeRows(pool, dropped)
           ns == [i \in DOMAIN rows |-> (acc[i] + 1) * K]
           out == AllocRows(q, ns)
<1>1. /\ pc = "refresh" /\ UNCHANGED <<graphs, stamp, inbuf>>
      /\ k \in Keys("refresh") =>
           /\ pc' = (IF out.ok THEN "lookup" ELSE "raised")
           /\ turn' = "refresh" /\ key' = k /\ rows' = kept /\ fresh' = out.rows
           /\ pool' = out.pool /\ gen' = GenAfter(out.pool)
      /\ k \notin Keys("refresh") =>
           pc' = "raised" /\ pool' = q /\ UNCHANGED <<turn, key, rows, fresh, gen>>
  BY DEF StartRefresh
<1>2. /\ turn = "draft" /\ RowsOK(rows) /\ FreeListOK(pool) /\ n > 0
      /\ SlotsOf(rows) \cap Elements(pool.free) = {}
      /\ SlotsOf(rows) \subseteq 1..(pool.pool_size - 1)
      /\ \A i \in 1..n : Len(rows[i]) >= K
  BY <1>1 DEF GraphInv, SlotInv, RowInv
<1>3. n \in Nat /\ DOMAIN rows = 1..n /\ K \in Nat /\ K >= 1
  BY <1>2, RowFacts, GraphAssumption
<1>4. /\ pool \in PoolRecord /\ pool.pool_size \in Nat /\ pool.pool_version \in Nat
      /\ gen \in Nat /\ turn \in Runners
  BY GraphFacts
<1>5. ASSUME NEW i \in 1..n
      PROVE  /\ kept[i] \in Seq(Positive) /\ Unique(kept[i])
             /\ dropped[i] \in Seq(Positive) /\ Unique(dropped[i])
             /\ Elements(kept[i]) \cup Elements(dropped[i]) = Elements(rows[i])
             /\ Elements(kept[i]) \cap Elements(dropped[i]) = {}
  <2> DEFINE m == Len(rows[i]) - K
             front == SubSeq(rows[i], 1, m)
             back == SubSeq(rows[i], m + 1, Len(rows[i]))
  <2>1. rows[i] \in Seq(Positive) /\ Unique(rows[i]) /\ Len(rows[i]) \in Nat /\ i \in DOMAIN rows
    BY <1>2, <1>3, RowFacts
  <2>2. m \in 0..Len(rows[i])
    BY <1>2, <1>3, <2>1
  <2>3. CASE acc[i] = 0
    <3>1. kept[i] = front /\ dropped[i] = back
      BY <2>1, <2>3 DEF Persistent
    <3> HIDE DEF kept, dropped, m
    <3>2. /\ front \in Seq(Positive) /\ Unique(front)
          /\ back \in Seq(Positive) /\ Unique(back)
          /\ Elements(front) \cup Elements(back) = Elements(rows[i])
          /\ Elements(front) \cap Elements(back) = {}
      BY <2>1, <2>2, CutRow
    <3> HIDE DEF front, back
    <3> QED BY <3>1, <3>2
  <2>4. CASE acc[i] # 0
    <3>1. kept[i] = rows[i] /\ dropped[i] = <<>>
      BY <2>1, <2>4
    <3>2. <<>> \in Seq(Positive) /\ Unique(<<>>) /\ Elements(<<>>) = {}
      <4>1. <<>> \in Seq(Positive) /\ Len(<<>>) = 0
        BY EmptySeq
      <4> QED BY <4>1 DEF Unique, Elements
    <3> HIDE DEF kept, dropped
    <3> QED BY <2>1, <3>1, <3>2
  <2> QED BY <2>3, <2>4
<1>6. /\ RowsOK(kept) /\ Len(kept) = n /\ RowsOK(dropped) /\ Len(dropped) = n
      /\ SlotsOf(kept) \cup SlotsOf(dropped) = SlotsOf(rows)
      /\ SlotsOf(kept) \cap SlotsOf(dropped) = {}
  <2>1. kept \in [1..n -> Seq(Positive)] /\ dropped \in [1..n -> Seq(Positive)]
    <3>1. \A i \in 1..n : kept[i] \in Seq(Positive) /\ dropped[i] \in Seq(Positive)
      BY <1>5
    <3> QED BY <1>3, <3>1
  <2>2. \A i \in 1..n : CutOK(rows[i], kept[i], dropped[i])
    BY <1>5 DEF CutOK
  <2> HIDE DEF kept, dropped
  <2>3. SplitOK(rows, kept, dropped)
    BY <1>2, <1>3, <2>1, <2>2, SplitRows
  <2> QED BY <2>3 DEF SplitOK
<1>7. DOMAIN kept = 1..n /\ lens \in [1..n -> Nat] /\ \A i \in 1..n : lens[i] = Len(kept[i])
  <2>1. DOMAIN kept = 1..n
    BY <1>3
  <2>2. \A i \in 1..n : Len(kept[i]) \in Nat
    BY <1>6, RowFacts
  <2> HIDE DEF kept
  <2> QED BY <2>1, <2>2
<1> HIDE DEF kept, dropped, lens
<1>8. Returned(pool, SlotsOf(dropped), q)
  BY <1>2, <1>4, <1>6, FreeRowsFacts
<1>9. /\ ns \in Seq(Positive) /\ Len(ns) = n
      /\ \A i \in 1..n : ns[i] \in Nat /\ ns[i] >= K
  <2>1. \A i \in 1..n : (acc[i] + 1) * K \in Positive /\ (acc[i] + 1) * K \in Nat
                        /\ (acc[i] + 1) * K >= K
    <3> SUFFICES ASSUME NEW i \in 1..n
                 PROVE  (acc[i] + 1) * K \in Positive /\ (acc[i] + 1) * K \in Nat
                        /\ (acc[i] + 1) * K >= K
      OBVIOUS
    <3>1. acc[i] + 1 \in Nat /\ acc[i] + 1 >= 1
      BY <1>3, GraphAssumption
    <3> QED BY <1>3, <3>1, BlockLength
  <2>2. ns = [i \in 1..n |-> (acc[i] + 1) * K]
    BY <1>3
  <2>3. ns \in Seq(Positive)
    BY <1>3, <2>1, <2>2, IsASeq
  <2>4. Len(ns) = n
    BY <1>3, <2>2, <2>3, LenProperties
  <2> QED BY <2>1, <2>2, <2>3, <2>4
<1> HIDE DEF ns, q
<1>10. AllocDone(q, ns, n, out)
  BY <1>8, <1>9, AllocRowsFacts DEF Returned
<1> HIDE DEF out, k
<1>11. CASE k \notin Keys("refresh")
  <2>1. pc' = "raised" /\ pool' = q /\ UNCHANGED <<turn, key, rows, fresh, gen>>
    BY <1>1, <1>11
  <2>2. /\ pool' \in PoolRecord /\ pool'.pool_size = pool.pool_size
        /\ pool'.pool_version = pool.pool_version
    BY <1>8, <2>1 DEF Returned
  <2>3. gen' = GenAfter(pool')
    BY <1>4, <2>1, <2>2 DEF GenAfter
  <2>4. CacheInv' /\ gen' \in Nat
    BY <1>1, <1>4, <2>1, <2>2, <2>3, CachesKept
  <2>5. GraphTypeOK'
    BY <1>1, <2>1, <2>2 DEF GraphInv, GraphTypeOK
  <2> QED BY <2>1, <2>4, <2>5 DEF GraphInv
<1>12. CASE k \in Keys("refresh")
  <2>1. /\ pc' = (IF out.ok THEN "lookup" ELSE "raised")
        /\ turn' = "refresh" /\ key' = k /\ rows' = kept /\ fresh' = out.rows
        /\ pool' = out.pool /\ gen' = GenAfter(pool')
    BY <1>1, <1>12
  <2>2. /\ q \in PoolRecord /\ q.pool_size = pool.pool_size /\ q.pool_version = pool.pool_version
        /\ Elements(q.free) = Elements(pool.free) \cup SlotsOf(dropped) /\ FreeListOK(q)
    BY <1>8 DEF Returned
  <2>3. pool' \in PoolRecord /\ FreeListOK(pool') /\ Later(q, pool')
    BY <1>10, <2>1 DEF AllocDone
  <2>4. /\ pool.pool_size <= pool'.pool_size /\ pool.pool_version <= pool'.pool_version
        /\ pool'.pool_size = pool.pool_size <=> pool'.pool_version = pool.pool_version
    BY <2>2, <2>3 DEF Later
  <2>5. CacheInv' /\ gen' \in Nat
    BY <1>1, <2>1, <2>3, <2>4, CachesKept
  <2>6. GraphTypeOK'
    BY <1>1, <1>12, <2>1, <2>3, <2>5 DEF GraphInv, GraphTypeOK, Runners
  <2>7. ASSUME pc' # "raised" PROVE SlotInv' /\ RowInv'
    <3>1. /\ out.ok /\ pc' = "lookup" /\ Len(fresh') = n /\ RowsOK(fresh')
          /\ \A i \in 1..n : Len(fresh'[i]) = ns[i]
      BY <1>10, <2>1, <2>7 DEF AllocDone
    <3>2. /\ SlotsOf(fresh') \cap Elements(pool'.free) = {}
          /\ SlotsOf(fresh') \cup Elements(pool'.free) =
               Elements(q.free) \cup q.pool_size..(pool'.pool_size - 1)
      BY <1>10, <2>1 DEF AllocDone
    <3>3. pool'.pool_size \in Nat
      BY <2>3 DEF PoolRecord
    <3>4. RowsOK(rows') /\ Len(rows') = n
      BY <1>6, <2>1
    <3>5. /\ SlotsOf(rows') \subseteq 1..(pool.pool_size - 1)
          /\ SlotsOf(rows') \cap Elements(q.free) = {}
      BY <1>2, <1>6, <2>1, <2>2
    <3>6. SlotsOf(rows') \cap q.pool_size..(pool'.pool_size - 1) = {}
      BY <1>4, <2>2, <3>3, <3>5
    <3>7. /\ SlotsOf(rows') \cap SlotsOf(fresh') = {}
          /\ SlotsOf(rows') \cap Elements(pool'.free) = {}
      BY <3>2, <3>5, <3>6
    <3>8. SlotsOf(rows') \cup SlotsOf(fresh') \subseteq 1..(pool'.pool_size - 1)
      <4>1. \A s \in 1..(pool.pool_size - 1) : s \in 1..(pool'.pool_size - 1)
        BY <1>4, <2>4, <3>3
      <4>2. \A s \in q.pool_size..(pool'.pool_size - 1) : s \in 1..(pool'.pool_size - 1)
        BY <2>2, <3>3 DEF PoolRecord
      <4>3. Elements(q.free) \subseteq 1..(pool.pool_size - 1)
        BY <2>2 DEF FreeListOK
      <4>4. SlotsOf(fresh') \subseteq Elements(q.free) \cup q.pool_size..(pool'.pool_size - 1)
        BY <3>2
      <4> QED BY <3>5, <4>1, <4>2, <4>3, <4>4
    <3>9. SlotInv'
      BY <2>3, <3>1, <3>2, <3>4, <3>7, <3>8 DEF SlotInv
    <3>10. n <= k[1] /\ \A i \in 1..n : lens[i] <= k[2]
      BY <1>2, <1>3, <1>7, <1>12, KeyFacts DEF k, Runners
    <3>11. RowInv'
      <4>1. \A i \in 1..n : Len(rows'[i]) <= k[2]
        BY <1>7, <2>1, <3>10
      <4>2. \A i \in 1..n : Len(fresh'[i]) >= K
        BY <1>9, <3>1
      <4> QED BY <1>2, <2>1, <3>1, <3>4, <3>10, <4>1, <4>2 DEF RowInv, ReadLen
    <3> QED BY <3>9, <3>11
  <2> QED BY <2>5, <2>6, <2>7 DEF GraphInv
<1> QED BY <1>11, <1>12

-----------------------------------------------------------------------------
(* The theorems. *)

LEMMA StepInv == GraphInv /\ [Next]_vars => GraphInv'
<1> SUFFICES ASSUME GraphInv, [Next]_vars PROVE GraphInv'
  OBVIOUS
<1>1. CASE \E n \in 1..MaxPrompt : Prefill(n)
  BY <1>1, PrefillInv
<1>2. CASE \E i \in DOMAIN rows : Drop(i)
  BY <1>2, DropInv
<1>3. CASE StartDraft
  BY <1>3, StartDraftInv
<1>4. CASE Lookup
  BY <1>4, LookupInv
<1>5. CASE Capture
  BY <1>5, CaptureInv
<1>6. CASE DraftReplay
  BY <1>6, DraftReplayInv
<1>7. CASE \E acc \in [DOMAIN rows -> 0..MaxAccept] : StartRefresh(acc)
  BY <1>7, StartRefreshInv
<1>8. CASE RefreshReplay
  BY <1>8, RefreshReplayInv
<1>9. CASE UNCHANGED vars
  <2>1. UNCHANGED <<pc, turn, key, rows, fresh, pool, gen, graphs, stamp, inbuf>>
    BY <1>9 DEF vars
  <2>2. GraphTypeOK' /\ CacheInv'
    BY <2>1 DEF GraphInv, GraphTypeOK, CacheInv
  <2>3. pc' # "raised" => SlotInv' /\ RowInv'
    BY <2>1 DEF GraphInv, SlotInv, RowInv, ReadLen
  <2> QED BY <2>2, <2>3 DEF GraphInv
<1> QED BY <1>1, <1>2, <1>3, <1>4, <1>5, <1>6, <1>7, <1>8, <1>9 DEF Next

\* The invariant behind the theorems below: stamps and addresses are current
\* together, all stamps of a runner agree, the resolved key holds the batch, and no
\* slot is in two rows or in a row and free.
THEOREM GraphInvariant == Spec => []GraphInv
BY InitInv, StepInv, PTL DEF Spec

\* The graph caches stay well formed: graphs, stamps and static inputs of a runner
\* have the same keys, and a key is in use only when the runner has that bucket.
THEOREM GraphTypes == Spec => []GraphTypeOK
<1>1. GraphInv => GraphTypeOK
  BY DEF GraphInv
<1> QED BY <1>1, GraphInvariant, PTL

\* A replayed graph holds the addresses of the pool's present tensors, although the
\* pool may grow at a prefill, and between the draft and the refresh graph of one
\* iteration: can_run's comparison of pool_version is enough, and the check inside
\* the refresh runner's replay never fires.
THEOREM ReplaysAreCurrent == Spec => []ReplayCurrent
<1>1. GraphInv => ReplayCurrent
  <2> SUFFICES ASSUME GraphInv, pc = "replay"
               PROVE  graphs[turn][key] = gen /\ stamp[turn][key] = pool.pool_version
    BY DEF ReplayCurrent
  <2>1. /\ turn \in Runners /\ key \in DOMAIN graphs[turn]
        /\ DOMAIN stamp[turn] = DOMAIN graphs[turn]
    BY DEF GraphInv, GraphTypeOK
  <2>2. stamp[turn][key] = pool.pool_version
    BY <2>1 DEF GraphInv, CacheInv, Current
  <2>3. graphs[turn][key] = gen <=> stamp[turn][key] = pool.pool_version
    BY <2>1 DEF GraphInv, CacheInv, CacheOK
  <2> QED BY <2>2, <2>3
<1> QED BY <1>1, GraphInvariant, PTL

\* _invalidate_all never throws a current graph away: all graphs of a runner carry
\* the same stamp, so a lookup that finds a stale one has no current one to lose.
THEOREM CurrentGraphsStay == Spec => CurrentGraphsKept
<1> DEFINE Kept == \A x \in Runners : \A k \in DOMAIN graphs[x] :
                     graphs[x][k] = gen => k \in DOMAIN graphs'[x]
<1>1. GraphInv /\ [Next]_vars => [Kept]_vars
  <2> SUFFICES ASSUME GraphInv, Next PROVE Kept
    OBVIOUS
  <2>1. CASE UNCHANGED graphs
    BY <2>1
  <2>2. CASE Lookup
    <3> SUFFICES ASSUME NEW x \in Runners, NEW k \in DOMAIN graphs[x], graphs[x][k] = gen
                 PROVE  k \in DOMAIN graphs'[x]
      OBVIOUS
    <3>1. CacheOK(graphs[x], stamp[x], inbuf[x], pool.pool_version, gen)
      BY DEF GraphInv, CacheInv
    <3>2. /\ DOMAIN stamp[x] = DOMAIN graphs[x]
          /\ \A l \in DOMAIN stamp[x] : stamp[x][l] = pool.pool_version
      BY <3>1 DEF CacheOK
    <3>3. CASE x = turn
      <4>1. ~Stale(turn)
        BY <3>2, <3>3 DEF Stale
      <4> QED BY <2>2, <4>1 DEF Lookup
    <3>4. CASE x # turn
      <4>1. graphs'[x] = graphs[x]
        BY <2>2, <3>4, GraphFacts DEF Lookup
      <4> QED BY <4>1
    <3> QED BY <3>3, <3>4
  <2>3. CASE Capture
    <3>1. DOMAIN graphs = Runners /\ graphs' = [graphs EXCEPT ![turn] = WithEntry(@, key, gen)]
      BY <2>3, GraphFacts DEF Capture
    <3>2. \A x \in Runners : \A k \in DOMAIN graphs[x] : k \in DOMAIN graphs'[x]
      BY <3>1 DEF WithEntry
    <3> QED BY <3>2
  <2>4. CASE RefreshReplay
    BY <2>4, RefreshReplayInv
  <2>5. UNCHANGED graphs \/ Lookup \/ Capture \/ RefreshReplay
    BY DEF Next, Prefill, Drop, StartDraft, DraftReplay, StartRefresh
  <2> QED BY <2>1, <2>2, <2>3, <2>4, <2>5
<1> QED BY <1>1, GraphInvariant, PTL DEF Spec, CurrentGraphsKept

\* A replay gathers exactly the slots of its own rows: for each row of the batch the
\* whole of it (the draft runner: all but its root block), for a row of capacity
\* padding nothing, whatever an earlier and longer batch left in the static buffers
\* that _copy_spec_into_buffers does not clear.
THEOREM ReplaysReadOwnRows == Spec => ReadsOwnRows
<1> DEFINE Reads == pc = "replay" /\ pc' # "raised" =>
                      \A i \in 1..key[1] :
                        Gathered(inbuf'[turn][key], i) =
                          IF i > Len(rows) THEN <<>>
                          ELSE IF turn = "draft" THEN Persistent(rows[i]) ELSE rows[i]
<1>1. GraphInv /\ [Next]_vars => [Reads]_vars
  <2> SUFFICES ASSUME GraphInv, Next, pc = "replay" PROVE Reads
    BY DEF Reads
  <2>1. DraftReplay \/ RefreshReplay
    BY DEF Next, Prefill, Drop, StartDraft, Lookup, Capture, StartRefresh
  <2>2. ReadsOwn(turn, key, inbuf'[turn][key])
    BY <2>1, DraftReplayInv, RefreshReplayInv
  <2> QED BY <2>2 DEF ReadsOwn
<1> QED BY <1>1, GraphInvariant, PTL DEF Spec, ReadsOwnRows
=============================================================================
