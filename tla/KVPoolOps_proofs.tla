-------------------------- MODULE KVPoolOps_proofs --------------------------
(***************************************************************************)
(* Lemmas about the operators of KVPoolOps, for the proofs of the modules  *)
(* that use a pool: lists of slots without repetition, the methods of the  *)
(* pool, and the loops that call alloc and free once per row.              *)
(*                                                                         *)
(* What a loop computes is proved by induction over its turns.  The        *)
(* induction is over a set of numbers (UpTo), so that it is a first-order  *)
(* fact; the function a loop is defined by is the CHOOSE of its equation,  *)
(* so that a function that satisfies the equation is shown to exist first. *)
(***************************************************************************)
EXTENDS KVPoolOps, RowLists_proofs

-----------------------------------------------------------------------------
(* Lists of slots.                                                         *)

\* The list range(from, to).
LEMMA SlotRangeList ==
  ASSUME NEW from \in Positive, NEW to \in Nat, from <= to
  PROVE  /\ SlotRange(from, to) \in Seq(Positive)
         /\ Len(SlotRange(from, to)) = to - from
         /\ Unique(SlotRange(from, to))
         /\ Elements(SlotRange(from, to)) = from..(to - 1)
<1> DEFINE n == to - from
           f == SlotRange(from, to)
<1>1. n \in Nat /\ f = [i \in 1..n |-> from + i - 1]
  BY DEF SlotRange, Positive, Sentinel
<1>2. f \in [1..n -> Positive]
  BY <1>1 DEF Positive, Sentinel
<1> HIDE DEF f, n
<1>3. f \in Seq(Positive) /\ Len(f) = n /\ DOMAIN f = 1..n
  <2>0. f \in UNION {[1..m -> Positive] : m \in Nat} /\ DOMAIN f = 1..n
    BY <1>1, <1>2
  <2>1. f \in Seq(Positive) /\ DOMAIN f = 1..n
    BY <2>0, SeqDef, Zenon
  <2>2. Len(f) \in Nat /\ 1..n = 1..Len(f)
    BY <2>1, LenProperties
  <2> QED BY <1>1, <2>1, <2>2
<1>4. Unique(f)
  BY <1>1, <1>3 DEF Unique, Positive, Sentinel
<1>5. Elements(f) = from..(to - 1)
  <2>1. Elements(f) \subseteq from..(to - 1)
    BY <1>1, <1>3 DEF Elements, n, Positive, Sentinel
  <2>2. ASSUME NEW s \in from..(to - 1) PROVE s \in Elements(f)
    <3>1. s - from + 1 \in 1..n /\ f[s - from + 1] = s
      BY <1>1 DEF n, Positive, Sentinel
    <3> QED BY <1>3, <3>1 DEF Elements
  <2> QED BY <2>1, <2>2
<1> QED BY <1>3, <1>4, <1>5 DEF f, n

-----------------------------------------------------------------------------
(* The methods of the pool.                                                *)

\* The free list of p holds existing slots, each once.
FreeListOK(p) == Unique(p.free) /\ Elements(p.free) \subseteq 1..(p.pool_size - 1)

\* Growing adds exactly the new slots to the free list, is refused during
\* capture and beyond the cap, and is visible in pool_version.
LEMMA ProvisionedFacts ==
  ASSUME NEW p \in PoolRecord, FreeListOK(p), NEW n \in Positive, ~AllocRaises(p, n)
  PROVE  LET q == Provisioned(p, n)
         IN  /\ q \in PoolRecord
             /\ FreeListOK(q)
             /\ n \in 1..Len(q.free)
             /\ p.pool_size <= q.pool_size
             /\ Elements(q.free) = Elements(p.free) \cup p.pool_size..(q.pool_size - 1)
             /\ Len(q.free) = Len(p.free) + (q.pool_size - p.pool_size)
             /\ q.n_alloc = p.n_alloc /\ q.high_water = p.high_water
             /\ q.in_capture = p.in_capture
             /\ q.pool_size # p.pool_size =>
                  /\ ~p.in_capture
                  /\ q.pool_size <= max_pool_size
                  /\ q.pool_version = p.pool_version + 1
             /\ q.pool_size = p.pool_size => q.pool_version = p.pool_version
<1> DEFINE q == Provisioned(p, n)
           g == GrowTarget(p, n)
<1>1. /\ p.free \in Seq(Positive) /\ p.pool_size \in Nat \ {0, 1} /\ p.n_alloc \in Int
      /\ p.high_water \in Nat /\ p.in_capture \in BOOLEAN /\ p.pool_version \in Nat
      /\ Len(p.free) \in Nat /\ n \in Nat /\ n # 0
  BY LenProperties DEF PoolRecord, Positive, Sentinel
<1>2. CASE n <= Len(p.free)
  <2>1. q = p
    BY <1>1, <1>2 DEF Provisioned
  <2>2. p.pool_size..(p.pool_size - 1) = {}
    BY <1>1
  <2>3. n \in 1..Len(p.free)
    BY <1>1, <1>2
  <2> QED BY <1>1, <2>1, <2>2, <2>3
<1>3. CASE n > Len(p.free)
  <2>1. /\ g \in Nat /\ g >= p.pool_size + n /\ g > p.pool_size
        /\ q = Grown(p, g)
    BY <1>1, <1>3, PoolAssumption DEF GrowTarget, Provisioned
  <2>2. ~p.in_capture /\ g <= max_pool_size
    <3>1. max_pool_size \in Nat
      BY PoolAssumption DEF max_pool_size
    <3> QED BY <1>1, <1>3, <2>1, <3>1 DEF AllocRaises
  <2> DEFINE new == SlotRange(p.pool_size, g)
  <2>3. q = [p EXCEPT !.free = p.free \o new, !.pool_size = g,
                      !.pool_version = p.pool_version + 1]
    BY <1>1, <2>1 DEF Grown
  <2>4. /\ new \in Seq(Positive) /\ Len(new) = g - p.pool_size /\ Unique(new)
        /\ Elements(new) = p.pool_size..(g - 1)
    <3>1. p.pool_size \in Positive /\ p.pool_size <= g
      BY <1>1, <2>1 DEF Positive, Sentinel
    <3> QED BY <2>1, <3>1, SlotRangeList
  <2> HIDE DEF q, g, new
  <2>5. Elements(p.free) \cap Elements(new) = {}
    BY <1>1, <2>1, <2>4 DEF FreeListOK
  <2>6. /\ p.free \o new \in Seq(Positive)
        /\ Len(p.free \o new) = Len(p.free) + Len(new)
        /\ Unique(p.free \o new)
        /\ Elements(p.free \o new) = Elements(p.free) \cup Elements(new)
    BY <1>1, <2>4, <2>5, ConcatUnique DEF FreeListOK
  <2>7. /\ q.free = p.free \o new /\ q.pool_size = g /\ q.pool_version = p.pool_version + 1
        /\ q.n_alloc = p.n_alloc /\ q.high_water = p.high_water
        /\ q.in_capture = p.in_capture
    BY <2>3 DEF PoolRecord
  <2>8. q \in PoolRecord
    <3>1. /\ p.free \o new \in Seq(Nat \ {Sentinel}) /\ g \in Nat \ {0, 1}
          /\ p.pool_version + 1 \in Nat
      BY <1>1, <2>1, <2>6 DEF Positive, Sentinel
    <3> QED BY <2>3, <3>1 DEF PoolRecord
  <2>9. FreeListOK(q)
    <3>1. Unique(q.free) /\ Elements(q.free) = Elements(p.free) \cup p.pool_size..(g - 1)
      BY <2>4, <2>6, <2>7
    <3>2. Elements(p.free) \subseteq 1..(p.pool_size - 1)
      BY DEF FreeListOK
    <3>3. Elements(q.free) \subseteq 1..(g - 1)
      BY <1>1, <2>1, <3>1, <3>2
    <3> QED BY <2>7, <3>1, <3>3 DEF FreeListOK
  <2>10. n \in 1..Len(q.free)
    BY <1>1, <2>1, <2>4, <2>6, <2>7
  <2>11. Len(q.free) = Len(p.free) + (q.pool_size - p.pool_size)
    BY <2>4, <2>6, <2>7
  <2>12. /\ p.pool_size <= q.pool_size
         /\ Elements(q.free) = Elements(p.free) \cup p.pool_size..(q.pool_size - 1)
    BY <1>1, <2>1, <2>4, <2>6, <2>7, SMTT(30)
  <2>13. q.pool_size # p.pool_size
    BY <1>1, <2>1, <2>7
  <2> QED BY <2>2, <2>7, <2>8, <2>9, <2>10, <2>11, <2>12, <2>13 DEF q
<1> QED BY <1>1, <1>2, <1>3

\* alloc takes n slots out of the free list and accounts for them.
LEMMA AllocFacts ==
  ASSUME NEW p \in PoolRecord, FreeListOK(p), NEW n \in Positive, ~AllocRaises(p, n)
  PROVE  LET q == Provisioned(p, n)
             r == AllocPool(p, n)
             a == AllocOut(p, n)
         IN  /\ r \in PoolRecord
             /\ FreeListOK(r)
             /\ Elements(r.free) \cup a = Elements(q.free)
             /\ Elements(r.free) \cap a = {}
             /\ Len(r.free) = Len(q.free) - n
             /\ r.n_alloc = p.n_alloc + n
             /\ r.high_water >= p.high_water /\ r.high_water >= r.n_alloc
             /\ r.high_water = p.high_water \/ r.high_water = r.n_alloc
             /\ r.pool_size = q.pool_size /\ r.pool_version = q.pool_version
             /\ r.in_capture = p.in_capture
<1> DEFINE q == Provisioned(p, n)
           r == AllocPool(p, n)
           a == AllocOut(p, n)
           hw == IF q.n_alloc + n > q.high_water THEN q.n_alloc + n ELSE q.high_water
           rest == SubSeq(q.free, n + 1, Len(q.free))
<1>1. /\ q \in PoolRecord /\ FreeListOK(q) /\ n \in 1..Len(q.free)
      /\ q.n_alloc = p.n_alloc /\ q.high_water = p.high_water
      /\ q.in_capture = p.in_capture
  BY ProvisionedFacts
<1>2. n \in Nat /\ n > 0
  BY DEF Positive, Sentinel
<1>3. a = {q.free[i] : i \in 1..n}
  BY DEF AllocOut
<1>4. r = [q EXCEPT !.free = rest, !.n_alloc = q.n_alloc + n, !.high_water = hw]
  BY <1>2 DEF AllocPool
<1> HIDE DEF q, r, a
<1>5. /\ q.free \in Seq(Positive) /\ q.n_alloc \in Int /\ q.high_water \in Nat
      /\ Unique(q.free)
  BY <1>1 DEF PoolRecord, FreeListOK, Positive, Sentinel
<1>6. /\ rest \in Seq(Positive) /\ Len(rest) = Len(q.free) - n /\ Unique(rest)
      /\ Elements(rest) \cup a = Elements(q.free) /\ Elements(rest) \cap a = {}
  BY <1>1, <1>3, <1>5, DropFront
<1> HIDE DEF rest
<1>7. /\ r.free = rest /\ r.n_alloc = q.n_alloc + n /\ r.high_water = hw
      /\ r.pool_size = q.pool_size /\ r.pool_version = q.pool_version
      /\ r.in_capture = q.in_capture
  BY <1>1, <1>4 DEF PoolRecord
<1>8. hw \in Nat /\ hw >= q.high_water /\ hw >= q.n_alloc + n
      /\ (hw = q.high_water \/ hw = q.n_alloc + n)
  BY <1>2, <1>5
<1> HIDE DEF hw
<1>9. r \in PoolRecord
  <2>1. rest \in Seq(Nat \ {Sentinel}) /\ q.n_alloc + n \in Int /\ hw \in Nat
    BY <1>2, <1>5, <1>6, <1>8 DEF Positive, Sentinel
  <2> QED BY <1>1, <1>4, <2>1 DEF PoolRecord
<1>10. FreeListOK(r)
  BY <1>1, <1>6, <1>7 DEF FreeListOK
<1> QED BY <1>1, <1>6, <1>7, <1>8, <1>9, <1>10 DEF q, r, a

-----------------------------------------------------------------------------
(* Calls row by row. *)

\* The slots of the first k rows, and of all of them.
SlotsUpTo(rows, k) == UNION {Elements(rows[i]) : i \in 1..k}
SlotsOf(rows) == SlotsUpTo(rows, Len(rows))

\* Rows that name every slot once.
RowsOK(rows) ==
  /\ rows \in Seq(Seq(Positive))
  /\ \A i \in 1..Len(rows) : Unique(rows[i])
  /\ \A i, j \in 1..Len(rows) : i # j => Elements(rows[i]) \cap Elements(rows[j]) = {}

\* r is p after calls of alloc: it may have grown, which its version tells and the
\* cap limits, and the counter follows the free list.
Later(p, r) ==
  /\ p.pool_size <= r.pool_size /\ p.pool_version <= r.pool_version
  /\ r.pool_size = p.pool_size <=> r.pool_version = p.pool_version
  /\ r.pool_size = p.pool_size \/ (r.pool_size <= max_pool_size /\ ~p.in_capture)
  /\ r.in_capture = p.in_capture
  /\ r.n_alloc + Len(r.free) - r.pool_size = p.n_alloc + Len(p.free) - p.pool_size

\* One call of alloc, and the sorted row it returns.
LEMMA AllocRow ==
  ASSUME NEW p \in PoolRecord, FreeListOK(p), NEW n \in Positive, ~AllocRaises(p, n)
  PROVE  LET r == AllocPool(p, n)
             row == Ascending(AllocOut(p, n))
         IN  /\ r \in PoolRecord /\ FreeListOK(r) /\ Later(p, r)
             /\ row \in Seq(Positive) /\ Len(row) = n /\ Unique(row)
             /\ Elements(row) \cap Elements(r.free) = {}
             /\ Elements(row) \cup Elements(r.free) =
                  Elements(p.free) \cup p.pool_size..(r.pool_size - 1)
<1> DEFINE q == Provisioned(p, n)
           r == AllocPool(p, n)
           a == AllocOut(p, n)
<1>1. /\ q \in PoolRecord /\ FreeListOK(q) /\ n \in 1..Len(q.free)
      /\ p.pool_size <= q.pool_size
      /\ Elements(q.free) = Elements(p.free) \cup p.pool_size..(q.pool_size - 1)
      /\ Len(q.free) = Len(p.free) + (q.pool_size - p.pool_size)
      /\ q.pool_size # p.pool_size =>
           ~p.in_capture /\ q.pool_size <= max_pool_size /\ q.pool_version = p.pool_version + 1
      /\ q.pool_size = p.pool_size => q.pool_version = p.pool_version
  BY ProvisionedFacts
<1>2. /\ r \in PoolRecord /\ FreeListOK(r)
      /\ Elements(r.free) \cup a = Elements(q.free) /\ Elements(r.free) \cap a = {}
      /\ Len(r.free) = Len(q.free) - n /\ r.n_alloc = p.n_alloc + n
      /\ r.pool_size = q.pool_size /\ r.pool_version = q.pool_version
      /\ r.in_capture = p.in_capture
  BY AllocFacts
<1>3. IsFiniteSet(a) /\ Cardinality(a) = n /\ a \subseteq Positive
  <2>1. q.free \in Seq(Positive) /\ Unique(q.free) /\ n \in Nat /\ n <= Len(q.free)
    BY <1>1 DEF PoolRecord, FreeListOK, Positive, Sentinel
  <2>2. a = {q.free[i] : i \in 1..n}
    BY DEF AllocOut
  <2> HIDE DEF q, a
  <2> QED BY <2>1, <2>2, FrontSet
<1> HIDE DEF q, r, a
<1>4. /\ Ascending(a) \in Seq(Positive) /\ Len(Ascending(a)) = n /\ Unique(Ascending(a))
      /\ Elements(Ascending(a)) = a
  BY <1>3, AscendingFacts
<1>5. Later(p, r)
  <2>1. /\ p.pool_size \in Nat /\ q.pool_size \in Nat /\ p.pool_version \in Nat
        /\ p.n_alloc \in Int /\ Len(p.free) \in Nat /\ Len(q.free) \in Nat /\ n \in Nat
    <3>1. p.free \in Seq(Positive) /\ q.free \in Seq(Positive)
      BY <1>1 DEF PoolRecord, Positive, Sentinel
    <3>2. Len(p.free) \in Nat /\ Len(q.free) \in Nat
      BY <3>1, LenProperties
    <3> QED BY <1>1, <3>2 DEF PoolRecord, Positive, Sentinel
  <2>2. r.n_alloc + Len(r.free) - r.pool_size = p.n_alloc + Len(p.free) - p.pool_size
    <3>1. /\ r.n_alloc = p.n_alloc + n /\ Len(r.free) = Len(q.free) - n
          /\ r.pool_size = q.pool_size
          /\ Len(q.free) = Len(p.free) + (q.pool_size - p.pool_size)
      BY <1>1, <1>2
    <3>2. r.n_alloc + Len(r.free) - r.pool_size =
            (p.n_alloc + n) + ((Len(p.free) + (q.pool_size - p.pool_size)) - n) - q.pool_size
      BY <3>1, Zenon
    <3>3. (p.n_alloc + n) + ((Len(p.free) + (q.pool_size - p.pool_size)) - n) - q.pool_size
            = p.n_alloc + Len(p.free) - p.pool_size
      BY <2>1, SMTT(30)
    <3> QED BY <3>2, <3>3, Zenon
  <2>3. /\ p.pool_size <= r.pool_size /\ p.pool_version <= r.pool_version
        /\ r.pool_size = p.pool_size <=> r.pool_version = p.pool_version
    <3>1. CASE q.pool_size = p.pool_size
      BY <1>1, <1>2, <2>1, <3>1
    <3>2. CASE q.pool_size # p.pool_size
      <4>1. q.pool_version = p.pool_version + 1 /\ p.pool_size <= q.pool_size
        BY <1>1, <3>2
      <4> QED BY <1>2, <2>1, <3>2, <4>1
    <3> QED BY <3>1, <3>2
  <2>4. r.pool_size = p.pool_size \/ (r.pool_size <= max_pool_size /\ ~p.in_capture)
    BY <1>1, <1>2
  <2> QED BY <1>2, <2>2, <2>3, <2>4 DEF Later
<1>6. a \cup Elements(r.free) = Elements(p.free) \cup p.pool_size..(r.pool_size - 1)
  BY <1>1, <1>2
<1> QED BY <1>2, <1>4, <1>5, <1>6 DEF r, a

LEMMA LaterTransitive ==
  ASSUME NEW p \in PoolRecord, NEW q \in PoolRecord, NEW r \in PoolRecord,
         Later(p, q), Later(q, r)
  PROVE  Later(p, r)
<1>1. /\ p.pool_size \in Nat /\ q.pool_size \in Nat /\ r.pool_size \in Nat
      /\ p.pool_version \in Nat /\ q.pool_version \in Nat /\ r.pool_version \in Nat
      /\ p.n_alloc \in Int /\ q.n_alloc \in Int /\ r.n_alloc \in Int
      /\ p.free \in Seq(Positive) /\ q.free \in Seq(Positive) /\ r.free \in Seq(Positive)
  BY DEF PoolRecord, Positive, Sentinel
<1>2. Len(p.free) \in Nat /\ Len(q.free) \in Nat /\ Len(r.free) \in Nat
  BY <1>1, LenProperties
<1>3. max_pool_size \in Nat
  BY PoolAssumption DEF max_pool_size
<1>4. r.n_alloc + Len(r.free) - r.pool_size = p.n_alloc + Len(p.free) - p.pool_size
  BY DEF Later
<1>5. /\ p.pool_size <= r.pool_size /\ p.pool_version <= r.pool_version
      /\ r.pool_size = p.pool_size <=> r.pool_version = p.pool_version
  <2>1. /\ p.pool_size <= q.pool_size /\ p.pool_version <= q.pool_version
        /\ q.pool_size <= r.pool_size /\ q.pool_version <= r.pool_version
        /\ q.pool_size = p.pool_size <=> q.pool_version = p.pool_version
        /\ r.pool_size = q.pool_size <=> r.pool_version = q.pool_version
    BY DEF Later
  <2> QED BY <1>1, <2>1, SMTT(30)
<1>6. r.pool_size = p.pool_size \/ (r.pool_size <= max_pool_size /\ ~p.in_capture)
  BY <1>1, <1>3 DEF Later
<1> QED BY <1>4, <1>5, <1>6 DEF Later

LEMMA LaterReflexive ==
  ASSUME NEW p \in PoolRecord
  PROVE  Later(p, p)
BY DEF Later, PoolRecord

\* What the loop's function is, turn by turn: it exists because it can be built one
\* turn after the other.
LEMMA AllocLoop ==
  ASSUME NEW p, NEW ns, NEW n \in Nat, Len(ns) = n
  PROVE  \E g : /\ \A i \in 0..n : g[i] =
                     IF i = 0 THEN [pool |-> p, rows |-> <<>>, ok |-> TRUE]
                     ELSE AllocStep(g[i - 1], ns[i])
                /\ AllocRows(p, ns) = g[n]
<1> DEFINE base == [pool |-> p, rows |-> <<>>, ok |-> TRUE]
           Loop(g, k) == g = [i \in 0..k |-> IF i = 0 THEN base ELSE AllocStep(g[i - 1], ns[i])]
           S == {k \in 0..n : \E g : Loop(g, k)}
           f == CHOOSE g : Loop(g, n)
<1>0. AllocRows(p, ns) = f[n]
  BY DEF AllocRows
<1> HIDE DEF base, f
<1>1. 0 \in S
  <2> DEFINE g == [i \in 0..0 |-> base]
  <2>1. \A i \in 0..0 : i = 0
    OBVIOUS
  <2>2. Loop(g, 0)
    BY <2>1
  <2>3. \E h : Loop(h, 0)
    BY <2>2
  <2> HIDE DEF Loop
  <2> QED BY <2>3
<1>2. ASSUME NEW k \in 0..(n - 1), k \in S PROVE k + 1 \in S
  <2>1. PICK g : Loop(g, k)
    BY <1>2
  <2> DEFINE h == [i \in 0..(k + 1) |-> IF i = k + 1 THEN AllocStep(g[k], ns[k + 1]) ELSE g[i]]
  <2>2. ASSUME NEW i \in 0..(k + 1)
        PROVE  h[i] = IF i = 0 THEN base ELSE AllocStep(h[i - 1], ns[i])
    <3>1. CASE i = k + 1
      <4>1. i # 0 /\ i - 1 = k /\ k \in 0..(k + 1) /\ k # k + 1
        BY <3>1
      <4>2. h[i] = AllocStep(g[k], ns[k + 1]) /\ h[i - 1] = g[k]
        BY <3>1, <4>1
      <4> HIDE DEF h
      <4> QED BY <3>1, <4>1, <4>2
    <3>2. CASE i # k + 1
      <4>1. i \in 0..k /\ h[i] = g[i]
        BY <3>2
      <4>2. i # 0 => i - 1 \in 0..(k + 1) /\ i - 1 # k + 1 /\ h[i - 1] = g[i - 1]
        BY <3>2
      <4>3. g[i] = IF i = 0 THEN base ELSE AllocStep(g[i - 1], ns[i])
        BY <2>1, <4>1
      <4> HIDE DEF h, Loop
      <4> QED BY <4>1, <4>2, <4>3
    <3> QED BY <3>1, <3>2
  <2>3. h = [i \in 0..(k + 1) |-> h[i]]
    OBVIOUS
  <2> HIDE DEF h
  <2>4. Loop(h, k + 1)
    BY <2>2, <2>3
  <2>5. k + 1 \in 0..n
    OBVIOUS
  <2> QED BY <2>4, <2>5
<1> HIDE DEF S
<1>3. n \in S
  <2>1. 0..n \subseteq S
    BY <1>1, <1>2, UpTo
  <2> QED BY <2>1
<1>4. \E g : Loop(g, n)
  BY <1>3 DEF S
<1>5. Loop(f, n)
  <2> HIDE DEF Loop
  <2> QED BY <1>4 DEF f
<1>6. \A i \in 0..n : f[i] = IF i = 0 THEN base ELSE AllocStep(f[i - 1], ns[i])
  BY <1>5
<1> QED BY <1>0, <1>6 DEF base

\* What the first k turns of the loop leave behind.
AllocDone(p, ns, k, a) ==
  /\ a \in [pool : PoolRecord, rows : Seq(Seq(Positive)), ok : BOOLEAN]
  /\ FreeListOK(a.pool) /\ Later(p, a.pool)
  /\ Len(a.rows) <= k /\ (a.ok => Len(a.rows) = k)
  /\ \A i \in 1..Len(a.rows) : Len(a.rows[i]) = ns[i]
  /\ RowsOK(a.rows)
  /\ SlotsOf(a.rows) \cap Elements(a.pool.free) = {}
  /\ SlotsOf(a.rows) \cup Elements(a.pool.free) =
       Elements(p.free) \cup p.pool_size..(a.pool.pool_size - 1)

\* A further row joins the rows.
LEMMA AppendRow ==
  ASSUME NEW rows, RowsOK(rows), NEW row \in Seq(Positive), Unique(row),
         Elements(row) \cap SlotsOf(rows) = {}
  PROVE  /\ RowsOK(Append(rows, row))
         /\ Len(Append(rows, row)) = Len(rows) + 1
         /\ \A i \in 1..Len(rows) : Append(rows, row)[i] = rows[i]
         /\ Append(rows, row)[Len(rows) + 1] = row
         /\ SlotsOf(Append(rows, row)) = SlotsOf(rows) \cup Elements(row)
<1> DEFINE out == Append(rows, row)
           n == Len(rows)
<1>1. rows \in Seq(Seq(Positive)) /\ n \in Nat
  BY LenProperties DEF RowsOK
<1>2. /\ out \in Seq(Seq(Positive)) /\ Len(out) = n + 1
      /\ \A i \in 1..n : out[i] = rows[i]
      /\ out[n + 1] = row
  BY <1>1, AppendProperties
<1> HIDE DEF out, n
<1>3. \A i \in 1..n : Elements(rows[i]) \subseteq SlotsOf(rows)
  BY DEF SlotsOf, SlotsUpTo, n
<1>4. \A i \in 1..(n + 1) : i \in 1..n \/ i = n + 1
  BY <1>1
<1>5. \A i \in 1..Len(out) : Unique(out[i])
  BY <1>2, <1>4 DEF RowsOK, n
<1>6. ASSUME NEW i \in 1..Len(out), NEW j \in 1..Len(out), i # j
      PROVE  Elements(out[i]) \cap Elements(out[j]) = {}
  <2>1. CASE i \in 1..n /\ j \in 1..n
    BY <1>2, <1>6, <2>1 DEF RowsOK, n
  <2>2. CASE i = n + 1
    <3>1. j \in 1..n /\ out[i] = row /\ out[j] = rows[j]
      BY <1>2, <1>4, <1>6, <2>2
    <3> QED BY <1>3, <3>1
  <2>3. CASE j = n + 1
    <3>1. i \in 1..n /\ out[j] = row /\ out[i] = rows[i]
      BY <1>2, <1>4, <1>6, <2>3
    <3> QED BY <1>3, <3>1
  <2> QED BY <1>2, <1>4, <2>1, <2>2, <2>3
<1>7. RowsOK(out)
  BY <1>2, <1>5, <1>6 DEF RowsOK
<1>8. SlotsOf(out) = SlotsOf(rows) \cup Elements(row)
  <2>1. SlotsOf(out) = UNION {Elements(out[i]) : i \in 1..(n + 1)}
    BY <1>2 DEF SlotsOf, SlotsUpTo
  <2>2. SlotsOf(rows) = UNION {Elements(rows[i]) : i \in 1..n}
    BY DEF SlotsOf, SlotsUpTo, n
  <2>3. n + 1 \in 1..(n + 1) /\ \A i \in 1..n : i \in 1..(n + 1)
    BY <1>1
  <2> QED BY <1>2, <1>4, <2>1, <2>2, <2>3
<1> QED BY <1>2, <1>7, <1>8 DEF out, n

\* One turn of the loop.
LEMMA AllocStepFacts ==
  ASSUME NEW p \in PoolRecord, FreeListOK(p), NEW ns \in Seq(Positive),
         NEW k \in Nat, k < Len(ns), NEW a, AllocDone(p, ns, k, a)
  PROVE  AllocDone(p, ns, k + 1, AllocStep(a, ns[k + 1]))
<1> DEFINE n == ns[k + 1]
           b == AllocStep(a, n)
           q == a.pool
<1>1. /\ a \in [pool : PoolRecord, rows : Seq(Seq(Positive)), ok : BOOLEAN]
      /\ q \in PoolRecord /\ FreeListOK(q) /\ Later(p, q) /\ a.ok \in BOOLEAN
      /\ a.rows \in Seq(Seq(Positive))
      /\ Len(a.rows) <= k /\ (a.ok => Len(a.rows) = k)
      /\ \A i \in 1..Len(a.rows) : Len(a.rows[i]) = ns[i]
      /\ RowsOK(a.rows)
      /\ SlotsOf(a.rows) \cap Elements(q.free) = {}
      /\ SlotsOf(a.rows) \cup Elements(q.free) =
           Elements(p.free) \cup p.pool_size..(q.pool_size - 1)
  BY DEF AllocDone
<1>2. n \in Positive /\ Len(ns) \in Nat /\ Len(a.rows) \in Nat
  <2>1. Len(ns) \in Nat /\ Len(a.rows) \in Nat
    BY <1>1, LenProperties
  <2>2. k + 1 \in 1..Len(ns)
    BY <2>1
  <2> QED BY <2>1, <2>2, ElementOfSeq
<1>3. CASE ~a.ok \/ AllocRaises(q, n)
  <2>1. b = [a EXCEPT !.ok = FALSE]
    BY <1>3 DEF AllocStep
  <2>2. /\ b \in [pool : PoolRecord, rows : Seq(Seq(Positive)), ok : BOOLEAN]
        /\ b.pool = q /\ b.rows = a.rows /\ ~b.ok
    BY <1>1, <2>1
  <2> HIDE DEF b, q
  <2>3. Len(b.rows) <= k + 1
    BY <1>1, <1>2, <2>2
  <2> QED BY <1>1, <2>2, <2>3 DEF AllocDone, b
<1>4. CASE a.ok /\ ~AllocRaises(q, n)
  <2> DEFINE r == AllocPool(q, n)
             row == Ascending(AllocOut(q, n))
  <2>1. b = [a EXCEPT !.pool = r, !.rows = Append(a.rows, row)]
    BY <1>1, <1>4 DEF AllocStep
  <2>2. /\ r \in PoolRecord /\ FreeListOK(r) /\ Later(q, r)
        /\ row \in Seq(Positive) /\ Len(row) = n /\ Unique(row)
        /\ Elements(row) \cap Elements(r.free) = {}
        /\ Elements(row) \cup Elements(r.free) =
             Elements(q.free) \cup q.pool_size..(r.pool_size - 1)
    BY <1>1, <1>2, <1>4, AllocRow
  <2> HIDE DEF r, row, b, q, n
  <2>3. p.pool_size \in Nat /\ q.pool_size \in Nat /\ r.pool_size \in Nat
        /\ p.pool_size <= q.pool_size /\ q.pool_size <= r.pool_size
    BY <1>1, <2>2 DEF Later, PoolRecord
  <2>4. SlotsOf(a.rows) \cap (Elements(q.free) \cup q.pool_size..(r.pool_size - 1)) = {}
    <3>1. ASSUME NEW s \in SlotsOf(a.rows), s \in q.pool_size..(r.pool_size - 1)
          PROVE  FALSE
      <4>1. s \notin p.pool_size..(q.pool_size - 1)
        BY <2>3, <3>1
      <4>2. s \in 1..(p.pool_size - 1)
        BY <1>1, <4>1 DEF FreeListOK
      <4> QED BY <2>3, <3>1, <4>2
    <3> QED BY <1>1, <3>1
  <2>5. Elements(row) \cap SlotsOf(a.rows) = {}
    BY <2>2, <2>4
  <2> DEFINE rows == Append(a.rows, row)
  <2>6. /\ RowsOK(rows) /\ Len(rows) = Len(a.rows) + 1
        /\ \A i \in 1..Len(a.rows) : rows[i] = a.rows[i]
        /\ rows[Len(a.rows) + 1] = row
        /\ SlotsOf(rows) = SlotsOf(a.rows) \cup Elements(row)
    BY <1>1, <2>2, <2>5, AppendRow
  <2> HIDE DEF rows
  <2>7. /\ b \in [pool : PoolRecord, rows : Seq(Seq(Positive)), ok : BOOLEAN]
        /\ b.pool = r /\ b.rows = rows /\ b.ok
    <3>1. rows \in Seq(Seq(Positive))
      BY <2>6 DEF RowsOK
    <3>2. b = [a EXCEPT !.pool = r, !.rows = rows]
      BY <2>1 DEF rows
    <3> QED BY <1>1, <1>4, <2>2, <3>1, <3>2
  <2>8. Len(a.rows) = k /\ Len(rows) = k + 1
    BY <1>1, <1>4, <2>6
  <2>9. \A i \in 1..Len(rows) : Len(rows[i]) = ns[i]
    <3>1. \A i \in 1..(k + 1) : i \in 1..k \/ i = k + 1
      OBVIOUS
    <3>2. rows[k + 1] = row /\ Len(row) = ns[k + 1]
      BY <2>2, <2>6, <2>8 DEF n
    <3>3. \A i \in 1..k : Len(rows[i]) = ns[i]
      BY <1>1, <2>6, <2>8
    <3> QED BY <2>8, <3>1, <3>2, <3>3
  <2>10. Later(p, r)
    BY <1>1, <2>2, LaterTransitive
  <2>11. SlotsOf(rows) \cap Elements(r.free) = {}
    BY <2>2, <2>4, <2>6
  <2>12. SlotsOf(rows) \cup Elements(r.free) = Elements(p.free) \cup p.pool_size..(r.pool_size - 1)
    <3>1. p.pool_size..(r.pool_size - 1) =
            p.pool_size..(q.pool_size - 1) \cup q.pool_size..(r.pool_size - 1)
      BY <2>3
    <3>2. SlotsOf(rows) \cup Elements(r.free) =
            (SlotsOf(a.rows) \cup Elements(q.free)) \cup q.pool_size..(r.pool_size - 1)
      BY <2>2, <2>6
    <3> QED BY <1>1, <3>1, <3>2
  <2>13. Len(rows) <= k + 1
    BY <2>8
  <2>14. AllocDone(p, ns, k + 1, b)
    BY <2>2, <2>6, <2>7, <2>8, <2>9, <2>10, <2>11, <2>12, <2>13 DEF AllocDone
  <2> QED BY <2>14 DEF b, n
<1> QED BY <1>1, <1>3, <1>4

\* The whole loop.
LEMMA AllocRowsFacts ==
  ASSUME NEW p \in PoolRecord, FreeListOK(p), NEW ns \in Seq(Positive)
  PROVE  AllocDone(p, ns, Len(ns), AllocRows(p, ns))
<1> DEFINE n == Len(ns)
<1>1. n \in Nat
  BY LenProperties
<1>2. PICK g : /\ \A i \in 0..n : g[i] =
                    IF i = 0 THEN [pool |-> p, rows |-> <<>>, ok |-> TRUE]
                    ELSE AllocStep(g[i - 1], ns[i])
               /\ AllocRows(p, ns) = g[n]
  BY <1>1, AllocLoop
<1> DEFINE S == {k \in 0..n : AllocDone(p, ns, k, g[k])}
<1>3. 0 \in S
  <2>0. 0 \in 0..n
    BY <1>1
  <2>1. g[0] = [pool |-> p, rows |-> <<>>, ok |-> TRUE]
    BY <1>2, <2>0, Zenon
  <2>2. /\ <<>> \in Seq(Seq(Positive)) /\ Len(<<>>) = 0
    BY EmptySeq
  <2>3. /\ g[0] \in [pool : PoolRecord, rows : Seq(Seq(Positive)), ok : BOOLEAN]
        /\ g[0].pool = p /\ g[0].rows = <<>> /\ g[0].ok
    BY <2>1, <2>2
  <2>4. 1..0 = {} /\ SlotsOf(<<>>) = {} /\ RowsOK(<<>>)
    BY <2>2 DEF SlotsOf, SlotsUpTo, RowsOK
  <2>5. p.pool_size..(p.pool_size - 1) = {}
    BY DEF PoolRecord
  <2>6. Later(p, p)
    BY LaterReflexive
  <2>7. AllocDone(p, ns, 0, g[0])
    BY <2>2, <2>3, <2>4, <2>5, <2>6 DEF AllocDone
  <2> QED BY <2>0, <2>7
<1>4. ASSUME NEW k \in 0..(n - 1), k \in S PROVE k + 1 \in S
  <2>1. k \in Nat /\ k < n /\ k + 1 \in 0..n /\ (k + 1) - 1 = k /\ k + 1 # 0
    BY <1>1
  <2>2. AllocDone(p, ns, k, g[k])
    BY <1>4
  <2>3. g[k + 1] = AllocStep(g[k], ns[k + 1])
    BY <1>2, <2>1
  <2>4. AllocDone(p, ns, k + 1, g[k + 1])
    BY <2>1, <2>2, <2>3, AllocStepFacts
  <2> QED BY <2>1, <2>4
<1> HIDE DEF S
<1>5. 0..n \subseteq S
  BY <1>1, <1>3, <1>4, UpTo
<1>6. n \in S
  BY <1>1, <1>5
<1> QED BY <1>2, <1>6 DEF S

\* r is p with the slots in S returned.
Returned(p, S, r) ==
  /\ r \in PoolRecord /\ FreeListOK(r)
  /\ Elements(r.free) = Elements(p.free) \cup S
  /\ r.pool_size = p.pool_size /\ r.pool_version = p.pool_version
  /\ r.in_capture = p.in_capture
  /\ r.n_alloc + Len(r.free) = p.n_alloc + Len(p.free)

\* One call of free, with the slots of a row.
LEMMA FreeRow ==
  ASSUME NEW p \in PoolRecord, FreeListOK(p), NEW row \in Seq(Positive), Unique(row),
         Elements(row) \cap Elements(p.free) = {}, Elements(row) \subseteq 1..(p.pool_size - 1)
  PROVE  Returned(p, Elements(row), FreePool(p, row))
<1> DEFINE r == FreePool(p, row)
           f == p.free \o row
<1>1. /\ p.free \in Seq(Positive) /\ p.n_alloc \in Int /\ Unique(p.free)
      /\ Elements(p.free) \subseteq 1..(p.pool_size - 1)
  BY DEF PoolRecord, FreeListOK, Positive, Sentinel
<1>2. Len(p.free) \in Nat /\ Len(row) \in Nat
  BY <1>1, LenProperties
<1>3. NonSentinel(row) = row
  <2>1. \A i \in 1..Len(row) : row[i] # Sentinel
    BY <1>2, ElementOfSeq DEF Positive, Sentinel
  <2> QED BY <2>1 DEF NonSentinel
<1>4. /\ f \in Seq(Positive) /\ Len(f) = Len(p.free) + Len(row) /\ Unique(f)
      /\ Elements(f) = Elements(p.free) \cup Elements(row)
  BY <1>1, ConcatUnique
<1>5. r = [p EXCEPT !.free = f, !.n_alloc = p.n_alloc - Len(row)]
  BY <1>3 DEF FreePool
<1> HIDE DEF f, r
<1>6. r \in PoolRecord
  <2>1. f \in Seq(Nat \ {Sentinel}) /\ p.n_alloc - Len(row) \in Int
    BY <1>1, <1>2, <1>4 DEF Positive, Sentinel
  <2> QED BY <1>5, <2>1 DEF PoolRecord
<1>7. /\ r.free = f /\ r.n_alloc = p.n_alloc - Len(row) /\ r.pool_size = p.pool_size
      /\ r.pool_version = p.pool_version /\ r.in_capture = p.in_capture
  BY <1>5 DEF PoolRecord
<1>8. r.n_alloc + Len(r.free) = p.n_alloc + Len(p.free)
  <2>1. r.n_alloc + Len(r.free) = (p.n_alloc - Len(row)) + (Len(p.free) + Len(row))
    BY <1>4, <1>7, Zenon
  <2>2. (p.n_alloc - Len(row)) + (Len(p.free) + Len(row)) = p.n_alloc + Len(p.free)
    BY <1>1, <1>2
  <2> QED BY <2>1, <2>2, Zenon
<1>9. FreeListOK(r)
  BY <1>1, <1>4, <1>7 DEF FreeListOK
<1> QED BY <1>4, <1>6, <1>7, <1>8, <1>9 DEF Returned, r

\* The function of the loop that frees row by row.
LEMMA FreeLoop ==
  ASSUME NEW p, NEW rows, NEW n \in Nat, Len(rows) = n
  PROVE  \E g : /\ \A i \in 0..n : g[i] =
                     IF i = 0 THEN p ELSE FreePool(g[i - 1], rows[i])
                /\ FreeRows(p, rows) = g[n]
<1> DEFINE Loop(g, k) == g = [i \in 0..k |-> IF i = 0 THEN p ELSE FreePool(g[i - 1], rows[i])]
           S == {k \in 0..n : \E g : Loop(g, k)}
           f == CHOOSE g : Loop(g, n)
<1>0. FreeRows(p, rows) = f[n]
  BY DEF FreeRows
<1> HIDE DEF f
<1>1. 0 \in S
  <2> DEFINE g == [i \in 0..0 |-> p]
  <2>1. \A i \in 0..0 : i = 0
    OBVIOUS
  <2>2. Loop(g, 0)
    BY <2>1
  <2>3. \E h : Loop(h, 0)
    BY <2>2
  <2> HIDE DEF Loop
  <2> QED BY <2>3
<1>2. ASSUME NEW k \in 0..(n - 1), k \in S PROVE k + 1 \in S
  <2>1. PICK g : Loop(g, k)
    BY <1>2
  <2> DEFINE h == [i \in 0..(k + 1) |-> IF i = k + 1 THEN FreePool(g[k], rows[k + 1]) ELSE g[i]]
  <2>2. ASSUME NEW i \in 0..(k + 1)
        PROVE  h[i] = IF i = 0 THEN p ELSE FreePool(h[i - 1], rows[i])
    <3>1. CASE i = k + 1
      <4>1. i # 0 /\ i - 1 = k /\ k \in 0..(k + 1) /\ k # k + 1
        BY <3>1
      <4>2. h[i] = FreePool(g[k], rows[k + 1]) /\ h[i - 1] = g[k]
        BY <3>1, <4>1
      <4> HIDE DEF h
      <4> QED BY <3>1, <4>1, <4>2
    <3>2. CASE i # k + 1
      <4>1. i \in 0..k /\ h[i] = g[i]
        BY <3>2
      <4>2. i # 0 => i - 1 \in 0..(k + 1) /\ i - 1 # k + 1 /\ h[i - 1] = g[i - 1]
        BY <3>2
      <4>3. g[i] = IF i = 0 THEN p ELSE FreePool(g[i - 1], rows[i])
        BY <2>1, <4>1
      <4> HIDE DEF h, Loop
      <4> QED BY <4>1, <4>2, <4>3
    <3> QED BY <3>1, <3>2
  <2>3. h = [i \in 0..(k + 1) |-> h[i]]
    OBVIOUS
  <2> HIDE DEF h
  <2>4. Loop(h, k + 1)
    BY <2>2, <2>3
  <2>5. k + 1 \in 0..n
    OBVIOUS
  <2> QED BY <2>4, <2>5
<1> HIDE DEF S
<1>3. n \in S
  <2>1. 0..n \subseteq S
    BY <1>1, <1>2, UpTo
  <2> QED BY <2>1
<1>4. \E g : Loop(g, n)
  BY <1>3 DEF S
<1>5. Loop(f, n)
  <2> HIDE DEF Loop
  <2> QED BY <1>4 DEF f
<1>6. \A i \in 0..n : f[i] = IF i = 0 THEN p ELSE FreePool(f[i - 1], rows[i])
  BY <1>5
<1> QED BY <1>0, <1>6

\* The whole loop: every slot of the rows is returned, once.
LEMMA FreeRowsFacts ==
  ASSUME NEW p \in PoolRecord, FreeListOK(p), NEW rows, RowsOK(rows),
         SlotsOf(rows) \cap Elements(p.free) = {}, SlotsOf(rows) \subseteq 1..(p.pool_size - 1)
  PROVE  Returned(p, SlotsOf(rows), FreeRows(p, rows))
<1> DEFINE n == Len(rows)
<1>1. n \in Nat /\ \A i \in 1..n : rows[i] \in Seq(Positive) /\ Unique(rows[i])
  BY LenProperties, ElementOfSeq DEF RowsOK
<1>2. PICK g : /\ \A i \in 0..n : g[i] = IF i = 0 THEN p ELSE FreePool(g[i - 1], rows[i])
               /\ FreeRows(p, rows) = g[n]
  BY <1>1, FreeLoop
<1> DEFINE S == {k \in 0..n : Returned(p, SlotsUpTo(rows, k), g[k])}
<1>3. 0 \in S
  <2>1. 0 \in 0..n
    BY <1>1
  <2>2. g[0] = p
    BY <1>2, <2>1, Zenon
  <2>3. SlotsUpTo(rows, 0) = {}
    BY DEF SlotsUpTo
  <2>4. Returned(p, SlotsUpTo(rows, 0), g[0])
    BY <2>2, <2>3 DEF Returned
  <2> QED BY <2>1, <2>4
<1>4. ASSUME NEW k \in 0..(n - 1), k \in S PROVE k + 1 \in S
  <2>1. k \in Nat /\ k + 1 \in 1..n /\ k + 1 \in 0..n /\ (k + 1) - 1 = k /\ k + 1 # 0
    BY <1>1
  <2> DEFINE q == g[k]
             r == FreePool(q, rows[k + 1])
             R == Elements(rows[k + 1])
             U == SlotsUpTo(rows, k)
  <2>2. /\ q \in PoolRecord /\ FreeListOK(q) /\ Elements(q.free) = Elements(p.free) \cup U
        /\ q.pool_size = p.pool_size /\ q.pool_version = p.pool_version
        /\ q.in_capture = p.in_capture
        /\ q.n_alloc + Len(q.free) = p.n_alloc + Len(p.free)
    BY <1>4 DEF Returned
  <2>3. g[k + 1] = r
    BY <1>2, <2>1
  <2>4. R \cap U = {}
    <3>1. \A i \in 1..k : i \in 1..n /\ i # k + 1
      BY <1>1, <2>1
    <3>2. \A i \in 1..k : R \cap Elements(rows[i]) = {}
      BY <2>1, <3>1 DEF RowsOK
    <3> HIDE DEF R
    <3> QED BY <3>2 DEF SlotsUpTo
  <2>5. R \subseteq SlotsOf(rows)
    BY <2>1 DEF SlotsOf, SlotsUpTo
  <2>6. SlotsUpTo(rows, k + 1) = U \cup R
    <3>1. \A i \in 1..(k + 1) : i \in 1..k \/ i = k + 1
      BY <2>1
    <3>2. k + 1 \in 1..(k + 1) /\ \A i \in 1..k : i \in 1..(k + 1)
      BY <2>1
    <3> QED BY <3>1, <3>2 DEF SlotsUpTo
  <2>7. rows[k + 1] \in Seq(Positive) /\ Unique(rows[k + 1])
    BY <1>1, <2>1
  <2>8. Elements(rows[k + 1]) \cap Elements(q.free) = {}
        /\ Elements(rows[k + 1]) \subseteq 1..(q.pool_size - 1)
    BY <2>2, <2>4, <2>5
  <2>9. Returned(q, R, r)
    BY <2>2, <2>7, <2>8, FreeRow
  <2> HIDE DEF q, r, R, U
  <2>10. Returned(p, U \cup R, r)
    BY <2>2, <2>9 DEF Returned
  <2>11. Returned(p, SlotsUpTo(rows, k + 1), g[k + 1])
    BY <2>3, <2>6, <2>10
  <2> QED BY <2>1, <2>11
<1> HIDE DEF S
<1>5. 0..n \subseteq S
  BY <1>1, <1>3, <1>4, UpTo
<1>6. n \in S
  BY <1>1, <1>5
<1> QED BY <1>2, <1>6 DEF S, SlotsOf

-----------------------------------------------------------------------------
(* Rearranging rows. *)

\* What membership in a list of rows gives.
LEMMA RowFacts ==
  ASSUME NEW rows, RowsOK(rows)
  PROVE  /\ Len(rows) \in Nat /\ DOMAIN rows = 1..Len(rows)
         /\ \A i \in 1..Len(rows) :
              /\ rows[i] \in Seq(Positive) /\ Len(rows[i]) \in Nat
              /\ DOMAIN rows[i] = 1..Len(rows[i])
              /\ Unique(rows[i]) /\ Elements(rows[i]) \subseteq SlotsOf(rows)
<1>1. rows \in Seq(Seq(Positive)) /\ \A i \in 1..Len(rows) : Unique(rows[i])
  BY DEF RowsOK
<1>2. Len(rows) \in Nat /\ DOMAIN rows = 1..Len(rows)
  BY <1>1, LenProperties
<1>3. \A i \in 1..Len(rows) : rows[i] \in Seq(Positive)
  BY <1>1, ElementOfSeq
<1>4. \A i \in 1..Len(rows) : Len(rows[i]) \in Nat /\ DOMAIN rows[i] = 1..Len(rows[i])
  BY <1>3, LenProperties
<1>5. \A i \in 1..Len(rows) : Elements(rows[i]) \subseteq SlotsOf(rows)
  BY DEF SlotsOf, SlotsUpTo
<1> QED BY <1>1, <1>2, <1>3, <1>4, <1>5

\* Rows given as a function on 1..n.
LEMMA RowsFromFunction ==
  ASSUME NEW n \in Nat, NEW f \in [1..n -> Seq(Positive)],
         \A i \in 1..n : Unique(f[i]),
         \A i, j \in 1..n : i # j => Elements(f[i]) \cap Elements(f[j]) = {}
  PROVE  RowsOK(f) /\ Len(f) = n /\ SlotsOf(f) = UNION {Elements(f[i]) : i \in 1..n}
<1>1. f \in Seq(Seq(Positive))
  BY IsASeq
<1>2. Len(f) \in Nat /\ DOMAIN f = 1..Len(f) /\ DOMAIN f = 1..n
  BY <1>1, LenProperties
<1>3. Len(f) = n
  BY <1>2
<1> QED BY <1>1, <1>3 DEF RowsOK, SlotsOf, SlotsUpTo

\* Some of the rows, in some order: the slots of rows f[1], ..., f[n].
Picked(rows, f, n) == UNION {Elements(rows[f[i]]) : i \in 1..n}

\* out holds those rows.
PickedOK(rows, f, n, out) ==
  /\ RowsOK(out)
  /\ SlotsOf(out) = Picked(rows, f, n)
  /\ SlotsOf(out) \subseteq SlotsOf(rows)

LEMMA PickRows ==
  ASSUME NEW rows, RowsOK(rows), NEW n \in Nat, NEW f \in [1..n -> 1..Len(rows)],
         \A i, j \in 1..n : f[i] = f[j] => i = j,
         NEW out \in Seq(Seq(Positive)), Len(out) = n, \A i \in 1..n : out[i] = rows[f[i]]
  PROVE  PickedOK(rows, f, n, out)
<1>1. \A i \in 1..n : /\ f[i] \in 1..Len(rows) /\ out[i] = rows[f[i]]
                      /\ Unique(out[i]) /\ Elements(out[i]) \subseteq SlotsOf(rows)
  BY RowFacts
<1>2. \A i, j \in 1..Len(rows) : i # j => Elements(rows[i]) \cap Elements(rows[j]) = {}
  BY DEF RowsOK
<1>3. ASSUME NEW i \in 1..n, NEW j \in 1..n, i # j
      PROVE  Elements(out[i]) \cap Elements(out[j]) = {}
  <2>1. f[i] # f[j] /\ f[i] \in 1..Len(rows) /\ f[j] \in 1..Len(rows)
    BY <1>3
  <2>2. out[i] = rows[f[i]] /\ out[j] = rows[f[j]]
    OBVIOUS
  <2> QED BY <1>2, <2>1, <2>2
<1>4. RowsOK(out) /\ SlotsOf(out) = UNION {Elements(out[i]) : i \in 1..n}
  BY <1>1, <1>3 DEF RowsOK, SlotsOf, SlotsUpTo
<1>5. /\ \A i \in 1..n : Elements(rows[f[i]]) \subseteq SlotsOf(out)
      /\ \A s \in SlotsOf(out) : \E i \in 1..n : s \in Elements(rows[f[i]])
  <2>1. ASSUME NEW i \in 1..n PROVE Elements(rows[f[i]]) \subseteq SlotsOf(out)
    <3>1. Elements(out[i]) \subseteq SlotsOf(out) /\ out[i] = rows[f[i]]
      BY <1>4
    <3> QED BY <3>1
  <2>2. ASSUME NEW s \in SlotsOf(out) PROVE \E i \in 1..n : s \in Elements(rows[f[i]])
    <3>1. PICK i \in 1..n : s \in Elements(out[i])
      BY <1>4
    <3> QED BY <1>1, <3>1
  <2> QED BY <2>1, <2>2
<1>6. SlotsOf(out) \subseteq SlotsOf(rows)
  BY <1>1, <1>4
<1>7. SlotsOf(out) = Picked(rows, f, n)
  <2>1. SlotsOf(out) \subseteq Picked(rows, f, n)
    BY <1>5, ZenonT(30) DEF Picked
  <2>2. Picked(rows, f, n) \subseteq SlotsOf(out)
    <3> SUFFICES ASSUME NEW s \in Picked(rows, f, n) PROVE s \in SlotsOf(out)
      OBVIOUS
    <3>1. PICK i \in 1..n : s \in Elements(rows[f[i]])
      BY DEF Picked
    <3> QED BY <1>5, <3>1
  <2> QED BY <2>1, <2>2
<1> QED BY <1>4, <1>6, <1>7 DEF PickedOK

\* Rows behind other rows.
LEMMA ConcatRows ==
  ASSUME NEW s, NEW t, RowsOK(s), RowsOK(t), SlotsOf(s) \cap SlotsOf(t) = {}
  PROVE  /\ RowsOK(s \o t) /\ Len(s \o t) = Len(s) + Len(t)
         /\ SlotsOf(s \o t) = SlotsOf(s) \cup SlotsOf(t)
         /\ \A i \in 1..Len(s) : (s \o t)[i] = s[i]
         /\ \A i \in 1..Len(t) : (s \o t)[Len(s) + i] = t[i]
<1> DEFINE u == s \o t
<1>0. s \in Seq(Seq(Positive)) /\ t \in Seq(Seq(Positive)) /\ Len(s) \in Nat /\ Len(t) \in Nat
  BY RowFacts DEF RowsOK
<1>1. /\ u \in Seq(Seq(Positive)) /\ Len(u) = Len(s) + Len(t)
      /\ \A i \in 1..(Len(s) + Len(t)) : u[i] = IF i <= Len(s) THEN s[i] ELSE t[i - Len(s)]
  BY <1>0, ConcatProperties
<1> HIDE DEF u
<1>2. \A i \in 1..Len(s) : i \in 1..Len(u) /\ u[i] = s[i]
  <2>1. \A i \in 1..Len(s) : i \in 1..(Len(s) + Len(t)) /\ i <= Len(s)
    BY <1>0
  <2> QED BY <1>1, <2>1
<1>3. \A i \in 1..Len(t) : Len(s) + i \in 1..Len(u) /\ u[Len(s) + i] = t[i]
  <2> SUFFICES ASSUME NEW i \in 1..Len(t)
               PROVE  Len(s) + i \in 1..Len(u) /\ u[Len(s) + i] = t[i]
    OBVIOUS
  <2>1. /\ Len(s) + i \in 1..(Len(s) + Len(t)) /\ ~(Len(s) + i <= Len(s))
        /\ (Len(s) + i) - Len(s) = i
    BY <1>0
  <2> QED BY <1>1, <2>1
<1>4. \A i \in 1..Len(u) : \/ i \in 1..Len(s) /\ u[i] = s[i]
                           \/ i - Len(s) \in 1..Len(t) /\ u[i] = t[i - Len(s)]
  BY <1>0, <1>1
<1>5. \A i \in 1..Len(u) : Unique(u[i])
  BY <1>4, RowFacts
<1>6. ASSUME NEW i \in 1..Len(u), NEW j \in 1..Len(u), i # j
      PROVE  Elements(u[i]) \cap Elements(u[j]) = {}
  <2>1. CASE i \in 1..Len(s) /\ u[i] = s[i] /\ j \in 1..Len(s) /\ u[j] = s[j]
    BY <1>6, <2>1 DEF RowsOK
  <2>2. CASE i \in 1..Len(s) /\ u[i] = s[i] /\ j - Len(s) \in 1..Len(t) /\ u[j] = t[j - Len(s)]
    BY <2>2, RowFacts
  <2>3. CASE i - Len(s) \in 1..Len(t) /\ u[i] = t[i - Len(s)] /\ j \in 1..Len(s) /\ u[j] = s[j]
    BY <2>3, RowFacts
  <2>4. CASE /\ i - Len(s) \in 1..Len(t) /\ u[i] = t[i - Len(s)]
             /\ j - Len(s) \in 1..Len(t) /\ u[j] = t[j - Len(s)]
    <3>1. i - Len(s) # j - Len(s)
      BY <1>0, <1>1, <1>6
    <3> QED BY <2>4, <3>1 DEF RowsOK
  <2> QED BY <1>4, <2>1, <2>2, <2>3, <2>4
<1>7. RowsOK(u)
  BY <1>1, <1>5, <1>6 DEF RowsOK
<1>8. SlotsOf(u) = SlotsOf(s) \cup SlotsOf(t)
  <2>1. SlotsOf(u) \subseteq SlotsOf(s) \cup SlotsOf(t)
    BY <1>4 DEF SlotsOf, SlotsUpTo
  <2>2. SlotsOf(s) \subseteq SlotsOf(u)
    BY <1>2 DEF SlotsOf, SlotsUpTo
  <2>3. SlotsOf(t) \subseteq SlotsOf(u)
    <3> SUFFICES ASSUME NEW i \in 1..Len(t) PROVE Elements(t[i]) \subseteq SlotsOf(u)
      BY DEF SlotsOf, SlotsUpTo
    <3>1. Len(s) + i \in 1..Len(u) /\ u[Len(s) + i] = t[i]
      BY <1>3
    <3> QED BY <1>7, <3>1, RowFacts
  <2> QED BY <2>1, <2>2, <2>3
<1> QED BY <1>1, <1>2, <1>3, <1>7, <1>8 DEF u

\* A row cut in two.
LEMMA CutRow ==
  ASSUME NEW row \in Seq(Positive), Unique(row), NEW m \in 0..Len(row)
  PROVE  LET front == SubSeq(row, 1, m)
             back == SubSeq(row, m + 1, Len(row))
         IN  /\ front \in Seq(Positive) /\ Len(front) = m /\ Unique(front)
             /\ back \in Seq(Positive) /\ Len(back) = Len(row) - m /\ Unique(back)
             /\ Elements(front) \cup Elements(back) = Elements(row)
             /\ Elements(front) \cap Elements(back) = {}
             /\ \A i \in 1..m : front[i] = row[i]
<1> DEFINE front == SubSeq(row, 1, m)
           back == SubSeq(row, m + 1, Len(row))
<1>1. Len(row) \in Nat /\ DOMAIN row = 1..Len(row) /\ m \in Nat /\ m <= Len(row)
      /\ \A i \in 1..Len(row) : row[i] \in Positive
  BY LenProperties, ElementOfSeq
<1>2. /\ front \in Seq(Positive) /\ Len(front) = IF 1 <= m THEN m - 1 + 1 ELSE 0
      /\ \A i \in 1..(m - 1 + 1) : front[i] = row[1 + i - 1]
  <2>1. \A i \in 1..m : row[i] \in Positive
    BY <1>1
  <2> QED BY <1>1, <2>1, SubSeqProperties
<1> HIDE DEF front
<1>3. Len(front) = m /\ (\A i \in 1..m : front[i] = row[i]) /\ DOMAIN front = 1..m
  <2>1. Len(front) = m
    BY <1>1, <1>2
  <2>2. DOMAIN front = 1..m
    BY <1>2, <2>1, LenProperties
  <2>3. \A i \in 1..m : i \in 1..(m - 1 + 1) /\ 1 + i - 1 = i
    BY <1>1
  <2> QED BY <1>2, <2>1, <2>2, <2>3
<1>4. Elements(front) = {row[i] : i \in 1..m}
  BY <1>3 DEF Elements
<1>5. Unique(front)
  BY <1>1, <1>3 DEF Unique
<1>6. CASE m = 0
  <2>1. back = row
    BY <1>6, SubSeqFull
  <2>2. Elements(front) = {}
    BY <1>4, <1>6
  <2>3. Len(row) = Len(row) - m
    BY <1>1, <1>6
  <2> HIDE DEF back
  <2> QED BY <1>2, <1>3, <1>5, <2>1, <2>2, <2>3 DEF front, back
<1>7. CASE m # 0
  <2>1. m \in 1..Len(row)
    BY <1>1, <1>7
  <2>2. /\ back \in Seq(Positive) /\ Len(back) = Len(row) - m /\ Unique(back)
        /\ Elements(back) \cup {row[i] : i \in 1..m} = Elements(row)
        /\ Elements(back) \cap {row[i] : i \in 1..m} = {}
    BY <2>1, DropFront
  <2> HIDE DEF back
  <2> QED BY <1>2, <1>3, <1>4, <1>5, <2>2 DEF front, back
<1> QED BY <1>6, <1>7

\* Every row split in two parts.
SplitOK(rows, front, back) ==
  /\ RowsOK(front) /\ Len(front) = Len(rows) /\ RowsOK(back) /\ Len(back) = Len(rows)
  /\ SlotsOf(front) \cup SlotsOf(back) = SlotsOf(rows)
  /\ SlotsOf(front) \cap SlotsOf(back) = {}

\* One row cut into the parts f and b.
CutOK(row, f, b) ==
  /\ Unique(f) /\ Unique(b)
  /\ Elements(f) \cup Elements(b) = Elements(row)
  /\ Elements(f) \cap Elements(b) = {}

LEMMA SplitRows ==
  ASSUME NEW rows, RowsOK(rows), NEW n \in Nat, n = Len(rows),
         NEW front \in [1..n -> Seq(Positive)], NEW back \in [1..n -> Seq(Positive)],
         \A i \in 1..n : CutOK(rows[i], front[i], back[i])
  PROVE  SplitOK(rows, front, back)
<1>0. \A i \in 1..n : /\ Unique(front[i]) /\ Unique(back[i])
                      /\ Elements(front[i]) \cup Elements(back[i]) = Elements(rows[i])
                      /\ Elements(front[i]) \cap Elements(back[i]) = {}
  BY DEF CutOK
<1>1. \A i, j \in 1..n : i # j => Elements(rows[i]) \cap Elements(rows[j]) = {}
  BY DEF RowsOK
<1>2. RowsOK(front) /\ Len(front) = n /\ SlotsOf(front) = UNION {Elements(front[i]) : i \in 1..n}
  <2>1. \A i, j \in 1..n : i # j => Elements(front[i]) \cap Elements(front[j]) = {}
    BY <1>0, <1>1
  <2> QED BY <1>0, <2>1, RowsFromFunction
<1>3. RowsOK(back) /\ Len(back) = n /\ SlotsOf(back) = UNION {Elements(back[i]) : i \in 1..n}
  <2>1. \A i, j \in 1..n : i # j => Elements(back[i]) \cap Elements(back[j]) = {}
    BY <1>0, <1>1
  <2> QED BY <1>0, <2>1, RowsFromFunction
<1>4. SlotsOf(rows) = UNION {Elements(rows[i]) : i \in 1..n}
  BY DEF SlotsOf, SlotsUpTo
<1>5. SlotsOf(front) \cup SlotsOf(back) = SlotsOf(rows)
  BY <1>0, <1>2, <1>3, <1>4
<1>6. SlotsOf(front) \cap SlotsOf(back) = {}
  <2>1. \A i, j \in 1..n : Elements(front[i]) \cap Elements(back[j]) = {}
    BY <1>0, <1>1
  <2> QED BY <1>2, <1>3, <2>1
<1> QED BY <1>2, <1>3, <1>5, <1>6 DEF SplitOK

\* Every row extended by a fresh one.
JoinedOK(rows, fresh, out) ==
  /\ RowsOK(out) /\ Len(out) = Len(rows)
  /\ SlotsOf(out) = SlotsOf(rows) \cup SlotsOf(fresh)
  /\ \A i \in 1..Len(rows) : Len(out[i]) = Len(rows[i]) + Len(fresh[i])

LEMMA JoinRows ==
  ASSUME NEW rows, NEW fresh, RowsOK(rows), RowsOK(fresh), NEW n \in Nat,
         n = Len(rows), n = Len(fresh), SlotsOf(rows) \cap SlotsOf(fresh) = {},
         NEW out \in [1..n -> Seq(Positive)], \A i \in 1..n : out[i] = rows[i] \o fresh[i]
  PROVE  JoinedOK(rows, fresh, out)
<1>1. ASSUME NEW i \in 1..n
      PROVE  /\ out[i] \in Seq(Positive) /\ Len(out[i]) = Len(rows[i]) + Len(fresh[i])
             /\ Unique(out[i]) /\ Elements(out[i]) = Elements(rows[i]) \cup Elements(fresh[i])
  <2>1. /\ rows[i] \in Seq(Positive) /\ Unique(rows[i]) /\ Elements(rows[i]) \subseteq SlotsOf(rows)
        /\ fresh[i] \in Seq(Positive) /\ Unique(fresh[i])
        /\ Elements(fresh[i]) \subseteq SlotsOf(fresh)
    BY RowFacts
  <2>2. Elements(rows[i]) \cap Elements(fresh[i]) = {}
    BY <2>1
  <2>3. out[i] = rows[i] \o fresh[i]
    OBVIOUS
  <2> QED BY <2>1, <2>2, <2>3, ConcatUnique
<1>3. ASSUME NEW i \in 1..n, NEW j \in 1..n, i # j
      PROVE  Elements(out[i]) \cap Elements(out[j]) = {}
  <2>1. /\ Elements(rows[i]) \subseteq SlotsOf(rows) /\ Elements(rows[j]) \subseteq SlotsOf(rows)
        /\ Elements(fresh[i]) \subseteq SlotsOf(fresh) /\ Elements(fresh[j]) \subseteq SlotsOf(fresh)
    BY RowFacts
  <2>2. /\ Elements(rows[i]) \cap Elements(rows[j]) = {}
        /\ Elements(fresh[i]) \cap Elements(fresh[j]) = {}
    BY <1>3 DEF RowsOK
  <2> QED BY <1>1, <2>1, <2>2
<1>4. RowsOK(out) /\ Len(out) = n /\ SlotsOf(out) = UNION {Elements(out[i]) : i \in 1..n}
  BY <1>1, <1>3, RowsFromFunction
<1>5. /\ SlotsOf(rows) = UNION {Elements(rows[i]) : i \in 1..n}
      /\ SlotsOf(fresh) = UNION {Elements(fresh[i]) : i \in 1..n}
  BY DEF SlotsOf, SlotsUpTo
<1>6. SlotsOf(out) = SlotsOf(rows) \cup SlotsOf(fresh)
  <2>1. \A i \in 1..n : Elements(out[i]) = Elements(rows[i]) \cup Elements(fresh[i])
    BY <1>1
  <2> DEFINE O == SlotsOf(out)
             R == SlotsOf(rows)
             F == SlotsOf(fresh)
  <2>2. \A i \in 1..n : Elements(rows[i]) \subseteq R /\ Elements(fresh[i]) \subseteq F
    BY RowFacts
  <2>3. \A i \in 1..n : Elements(out[i]) \subseteq O
    BY <1>4, RowFacts
  <2>4. /\ O = UNION {Elements(out[i]) : i \in 1..n}
        /\ R = UNION {Elements(rows[i]) : i \in 1..n}
        /\ F = UNION {Elements(fresh[i]) : i \in 1..n}
    BY <1>4, <1>5
  <2> HIDE DEF O, R, F
  <2>5. O \subseteq R \cup F
    <3> SUFFICES ASSUME NEW i \in 1..n PROVE Elements(out[i]) \subseteq R \cup F
      BY <2>4, Zenon
    <3>1. Elements(out[i]) = Elements(rows[i]) \cup Elements(fresh[i])
      BY <2>1
    <3> QED BY <2>2, <3>1
  <2>6. R \subseteq O /\ F \subseteq O
    BY <2>1, <2>3, <2>4, Zenon
  <2> QED BY <2>5, <2>6 DEF O, R, F
<1> QED BY <1>1, <1>4, <1>6 DEF JoinedOK

\* The length of a list of blocks.
LEMMA BlockLength ==
  ASSUME NEW m \in Nat, NEW w \in Nat, m >= 1, w >= 1
  PROVE  m * w \in Positive /\ m * w \in Nat /\ m * w >= w
BY DEF Positive, Sentinel

\* No rows.
LEMMA EmptyRows == RowsOK(<<>>) /\ SlotsOf(<<>>) = {} /\ Len(<<>>) = 0
<1>1. <<>> \in Seq(Seq(Positive)) /\ Len(<<>>) = 0 /\ 1..0 = {}
  BY EmptySeq
<1> QED BY <1>1 DEF RowsOK, SlotsOf, SlotsUpTo

\* The free list of a new pool, and of a pool that was reset, holds all its slots.
LEMMA WholePool ==
  ASSUME NEW n \in Nat \ {0, 1}
  PROVE  /\ SlotRange(1, n) \in Seq(Nat \ {Sentinel}) /\ Unique(SlotRange(1, n))
         /\ Len(SlotRange(1, n)) = n - 1 /\ Elements(SlotRange(1, n)) = 1..(n - 1)
BY SlotRangeList DEF Positive, Sentinel

LEMMA NewPoolFacts ==
  /\ NewPool \in PoolRecord /\ FreeListOK(NewPool)
  /\ NewPool.pool_version = 0 /\ NewPool.n_alloc = 0 /\ NewPool.in_capture = FALSE
  /\ NewPool.pool_size = InitialPoolSize
  /\ Elements(NewPool.free) = 1..(InitialPoolSize - 1)
  /\ Len(NewPool.free) = InitialPoolSize - 1
<1> DEFINE f == SlotRange(1, InitialPoolSize)
<1>1. InitialPoolSize \in Nat \ {0, 1}
  BY PoolAssumption
<1>2. /\ f \in Seq(Nat \ {Sentinel}) /\ Unique(f)
      /\ Len(f) = InitialPoolSize - 1 /\ Elements(f) = 1..(InitialPoolSize - 1)
  BY <1>1, WholePool
<1>3. NewPool = [free |-> f, pool_size |-> InitialPoolSize, n_alloc |-> 0,
                 high_water |-> 0, in_capture |-> FALSE, pool_version |-> 0]
  BY DEF NewPool
<1> HIDE DEF f
<1> QED BY <1>1, <1>2, <1>3 DEF PoolRecord, FreeListOK

LEMMA ResetPoolFacts ==
  ASSUME NEW p \in PoolRecord
  PROVE  LET r == ResetPool(p)
         IN  /\ r \in PoolRecord /\ FreeListOK(r)
             /\ r.pool_size = p.pool_size /\ r.pool_version = p.pool_version
             /\ r.in_capture = p.in_capture
             /\ r.n_alloc = 0 /\ Len(r.free) = p.pool_size - 1
             /\ Elements(r.free) = 1..(p.pool_size - 1)
<1> DEFINE f == SlotRange(1, p.pool_size)
           r == ResetPool(p)
<1>1. p.pool_size \in Nat \ {0, 1}
  BY DEF PoolRecord
<1>2. /\ f \in Seq(Nat \ {Sentinel}) /\ Unique(f)
      /\ Len(f) = p.pool_size - 1 /\ Elements(f) = 1..(p.pool_size - 1)
  BY <1>1, WholePool
<1>3. r = [p EXCEPT !.free = f, !.n_alloc = 0]
  BY DEF ResetPool
<1> HIDE DEF f, r
<1>4. r \in PoolRecord
  <2>1. f \in Seq(Nat \ {Sentinel}) /\ 0 \in Int
    BY <1>2
  <2> QED BY <1>3, <2>1 DEF PoolRecord
<1>5. /\ r.free = f /\ r.n_alloc = 0 /\ r.pool_size = p.pool_size
      /\ r.pool_version = p.pool_version /\ r.in_capture = p.in_capture
  BY <1>3 DEF PoolRecord
<1> QED BY <1>2, <1>4, <1>5 DEF FreeListOK, r
=============================================================================
