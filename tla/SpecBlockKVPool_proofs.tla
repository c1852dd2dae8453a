----------------------- MODULE SpecBlockKVPool_proofs -----------------------
(***************************************************************************)
(* Proofs about SpecBlockKVPool, for every set of clients and layers and   *)
(* every initial size, cap and growth chunk.                               *)
(*                                                                         *)
(* The invariant PoolInv is inductive as a whole and not part by part: the *)
(* free list stays without repetition because freed slots are owned and    *)
(* owned slots are not free; the cells of a store are never the sentinel   *)
(* because owned slots are in 1..pool_size-1; the high-water mark is below *)
(* the size because the counter is conserved.                              *)
(***************************************************************************)
EXTENDS SpecBlockKVPool, KVPoolOps_proofs

PoolInv == PoolTypeOK /\ SlotsConserved /\ SentinelStaysZero /\ CapRespected

\* What Enumerations yields, used for the index lists callers pass.
LEMMA EnumerationFacts ==
  ASSUME NEW S, S \subseteq Positive, NEW f \in Enumerations(S)
  PROVE  f \in Seq(Positive) /\ Unique(f) /\ Elements(f) \subseteq S
<1>1. PICK n \in 0..Cardinality(S) : f \in [1..n -> S]
  BY DEF Enumerations
<1>2. n \in Nat /\ DOMAIN f = 1..n /\ f \in [1..n -> Positive]
  BY <1>1
<1>3. f \in UNION {[1..m -> Positive] : m \in Nat}
  BY <1>2
<1>4. f \in Seq(Positive)
  BY <1>3, SeqDef, Zenon
<1>5. DOMAIN f = 1..Len(f)
  BY <1>4, LenProperties
<1>6. Unique(f)
  BY <1>5 DEF Unique, Enumerations
<1>7. Elements(f) \subseteq S
  BY <1>1, <1>2 DEF Elements
<1> QED BY <1>4, <1>6, <1>7

-----------------------------------------------------------------------------
(* The invariant, action by action.                                        *)

\* What the invariant says in the terms of the lemmas above.
LEMMA InvFacts ==
  ASSUME PoolInv
  PROVE  /\ pool \in PoolRecord /\ FreeListOK(pool)
         /\ pool.free \in Seq(Positive) /\ Len(pool.free) \in Nat
         /\ pool.pool_size \in Nat /\ pool.pool_size >= 2
         /\ pool.n_alloc \in Int /\ pool.high_water \in Nat
         /\ \A c \in Clients : held[c] \subseteq 1..(pool.pool_size - 1)
         /\ \A c \in Clients : held[c] \subseteq Positive
         /\ DOMAIN kv = Layers /\ DOMAIN held = Clients
<1>1. pool \in PoolRecord /\ kv \in [Layers -> [Slots(pool) -> Clients \cup {Zero}]]
      /\ held \in [Clients -> SUBSET Slots(pool)]
  BY DEF PoolInv, PoolTypeOK
<1>2. pool.free \in Seq(Positive) /\ pool.pool_size \in Nat \ {0, 1}
      /\ pool.n_alloc \in Int /\ pool.high_water \in Nat
  BY <1>1 DEF PoolRecord, Positive, Sentinel
<1>3. Len(pool.free) \in Nat
  BY <1>2, LenProperties
<1>4. FreeListOK(pool)
  BY DEF PoolInv, SlotsConserved, FreeListUnique, NoSlotLost, FreeListOK, Unique
<1>5. \A c \in Clients : held[c] \subseteq 1..(pool.pool_size - 1)
  BY DEF PoolInv, SlotsConserved, NoSlotLost
<1>6. \A c \in Clients : held[c] \subseteq Positive
  BY <1>5 DEF Positive, Sentinel
<1> QED BY <1>1, <1>2, <1>3, <1>4, <1>5, <1>6

\* A new pool (__init__) satisfies the invariant.
LEMMA InitInv == Init => PoolInv
<1> SUFFICES ASSUME Init PROVE PoolInv
  OBVIOUS
<1> DEFINE f == SlotRange(1, InitialPoolSize)
<1>1. /\ InitialPoolSize \in Nat /\ InitialPoolSize >= 2
      /\ f \in Seq(Positive) /\ Len(f) = InitialPoolSize - 1 /\ Unique(f)
      /\ Elements(f) = 1..(InitialPoolSize - 1)
  BY PoolAssumption, SlotRangeList DEF Positive, Sentinel
<1>2. pool = [free |-> f, pool_size |-> InitialPoolSize, n_alloc |-> 0,
              high_water |-> 0, in_capture |-> FALSE, pool_version |-> 0]
  BY DEF Init, NewPool
<1> HIDE DEF f
<1>3. pool \in PoolRecord
  BY <1>1, <1>2 DEF PoolRecord, Positive, Sentinel
<1>4. /\ kv \in [Layers -> [Slots(pool) -> Clients \cup {Zero}]]
      /\ held \in [Clients -> SUBSET Slots(pool)]
      /\ SentinelStaysZero
  BY <1>1, <1>2 DEF Init, SentinelStaysZero, Slots, Sentinel, NewPool
<1>5. SlotsConserved
  BY <1>1, <1>2 DEF Init, SlotsConserved, FreeListUnique, OwnersDisjoint, NoSlotLost,
     CountConserved, Unique
<1>6. CapRespected
  BY <1>1, <1>2, PoolAssumption DEF CapRespected, max_pool_size
<1> QED BY <1>3, <1>4, <1>5, <1>6 DEF PoolInv, PoolTypeOK

\* alloc, with the growth it may trigger, preserves the invariant.
LEMMA AllocInv ==
  ASSUME PoolInv, NEW c \in Clients, NEW n \in 1..MaxAlloc, Alloc(c, n)
  PROVE  PoolInv'
<1> DEFINE q == Provisioned(pool, n)
           a == AllocOut(pool, n)
<1>1. /\ pool \in PoolRecord /\ FreeListOK(pool) /\ Len(pool.free) \in Nat
      /\ pool.pool_size \in Nat /\ pool.pool_size >= 2
      /\ pool.n_alloc \in Int /\ pool.high_water \in Nat
      /\ \A d \in Clients : held[d] \subseteq 1..(pool.pool_size - 1)
      /\ n \in Positive /\ ~AllocRaises(pool, n)
  BY InvFacts, ClientAssumption DEF Alloc, Positive, Sentinel
<1>2. /\ q \in PoolRecord /\ FreeListOK(q) /\ n \in 1..Len(q.free)
      /\ pool.pool_size <= q.pool_size
      /\ Elements(q.free) = Elements(pool.free) \cup pool.pool_size..(q.pool_size - 1)
      /\ Len(q.free) = Len(pool.free) + (q.pool_size - pool.pool_size)
      /\ q.pool_size # pool.pool_size => q.pool_size <= max_pool_size
  BY <1>1, ProvisionedFacts
<1>3. /\ pool' \in PoolRecord /\ FreeListOK(pool')
      /\ Elements(pool'.free) \cup a = Elements(q.free)
      /\ Elements(pool'.free) \cap a = {}
      /\ Len(pool'.free) = Len(q.free) - n
      /\ pool'.n_alloc = pool.n_alloc + n
      /\ pool'.high_water >= pool.high_water /\ pool'.high_water >= pool'.n_alloc
      /\ pool'.high_water = pool.high_water \/ pool'.high_water = pool'.n_alloc
      /\ pool'.pool_size = q.pool_size
  BY <1>1, AllocFacts DEF Alloc
<1>4. /\ kv' = GrownBuffers(kv, pool, q)
      /\ held' = [held EXCEPT ![c] = held[c] \cup a]
      /\ kv \in [Layers -> [Slots(pool) -> Clients \cup {Zero}]]
      /\ held \in [Clients -> SUBSET Slots(pool)]
  BY DEF Alloc, PoolInv, PoolTypeOK
<1> HIDE DEF q, a
<1>5. q.pool_size \in Nat /\ q.pool_size >= 2 /\ Slots(pool') = Slots(q)
  <2>1. q.pool_size \in Nat \ {0, 1}
    BY <1>2 DEF PoolRecord
  <2>2. Slots(pool') = Slots(q)
    BY <1>3 DEF Slots
  <2> QED
    BY <2>1, <2>2
<1>6. a \subseteq 1..(q.pool_size - 1) /\ a \subseteq Slots(q) /\ Slots(pool) \subseteq Slots(q)
  BY <1>1, <1>2, <1>3, <1>5 DEF FreeListOK, Slots
<1>7. kv' \in [Layers -> [Slots(q) -> Clients \cup {Zero}]]
  BY <1>4, <1>6 DEF GrownBuffers
<1>8. held' \in [Clients -> SUBSET Slots(q)]
  BY <1>4, <1>6
<1>9. SentinelStaysZero'
  BY <1>1, <1>2, <1>4, <1>5 DEF PoolInv, SentinelStaysZero, GrownBuffers, Slots, Sentinel
<1>10. FreeListUnique'
  BY <1>3 DEF FreeListOK, FreeListUnique, Unique
<1>11. \A d \in Clients : held[d] \cap Elements(q.free) = {}
  BY <1>1, <1>2 DEF PoolInv, SlotsConserved, OwnersDisjoint
<1>12. OwnersDisjoint'
  BY <1>3, <1>4, <1>11 DEF PoolInv, SlotsConserved, OwnersDisjoint
<1>13. NoSlotLost'
  <2>1. UNION {held'[d] : d \in Clients} = (UNION {held[d] : d \in Clients}) \cup a
    BY <1>4
  <2>2. Elements(pool.free) \cup UNION {held[d] : d \in Clients} = 1..(pool.pool_size - 1)
    BY DEF PoolInv, SlotsConserved, NoSlotLost
  <2>3. Elements(pool'.free) \cup UNION {held'[d] : d \in Clients}
          = 1..(pool.pool_size - 1) \cup pool.pool_size..(q.pool_size - 1)
    BY <1>2, <1>3, <2>1, <2>2
  <2>4. 1..(pool.pool_size - 1) \cup pool.pool_size..(q.pool_size - 1) = 1..(q.pool_size - 1)
    BY <1>1, <1>2, <1>5
  <2> QED BY <1>3, <2>3, <2>4 DEF NoSlotLost
<1>14. CountConserved'
  <2>1. pool.n_alloc + Len(pool.free) = pool.pool_size - 1
    BY DEF PoolInv, SlotsConserved, CountConserved
  <2>2. /\ pool'.n_alloc = pool.n_alloc + n /\ Len(pool'.free) = Len(q.free) - n
        /\ Len(q.free) = Len(pool.free) + (q.pool_size - pool.pool_size)
        /\ pool'.pool_size = q.pool_size
        /\ n \in Nat
    BY <1>2, <1>3
  <2>3. PICK a0, f0, s0, s1, a1, f1, f2 \in Int :
          /\ a0 = pool.n_alloc /\ f0 = Len(pool.free) /\ s0 = pool.pool_size
          /\ s1 = q.pool_size /\ a1 = pool'.n_alloc /\ f1 = Len(q.free)
          /\ f2 = Len(pool'.free)
    <3>1. /\ pool.n_alloc \in Int /\ Len(pool.free) \in Int /\ pool.pool_size \in Int
          /\ q.pool_size \in Int
      BY <1>1, <1>5
    <3>2. pool'.n_alloc \in Int
      BY <1>3 DEF PoolRecord
    <3>3. Len(q.free) \in Int /\ Len(pool'.free) \in Int
      <4>1. q.free \in Seq(Positive) /\ pool'.free \in Seq(Positive)
        BY <1>2, <1>3 DEF PoolRecord, Positive, Sentinel
      <4> QED BY <4>1, LenProperties
    <3> QED BY <3>1, <3>2, <3>3, Zenon
  <2>4. a0 + f0 = s0 - 1 /\ a1 = a0 + n /\ f2 = f1 - n /\ f1 = f0 + (s1 - s0)
    BY <2>1, <2>2, <2>3
  <2>5. a1 + f2 = s1 - 1
    BY <2>2, <2>4
  <2> QED BY <2>2, <2>3, <2>5 DEF CountConserved
<1>15. CapRespected'
  <2>1. max_pool_size \in Nat
    BY PoolAssumption DEF max_pool_size
  <2>2. Len(pool'.free) \in Nat /\ n \in Nat
    BY <1>1, <1>2, <1>3
  <2>3. /\ pool.pool_size <= max_pool_size /\ pool.n_alloc <= pool.high_water
        /\ pool.high_water < pool.pool_size
    BY DEF PoolInv, CapRespected
  <2>4. pool'.pool_size <= max_pool_size
    BY <1>2, <1>3, <2>3
  <2>5. pool'.n_alloc <= pool'.high_water
    BY <1>1, <1>3, <2>2
  <2>6. pool'.n_alloc < pool'.pool_size
    <3>1. pool'.n_alloc + Len(pool'.free) = pool'.pool_size - 1
      BY <1>14 DEF CountConserved
    <3>2. pool'.n_alloc \in Int /\ pool'.pool_size \in Nat
      BY <1>1, <1>3, <1>5, <2>2
    <3> QED BY <2>2, <3>1, <3>2
  <2>7. pool'.high_water < pool'.pool_size
    BY <1>1, <1>2, <1>3, <1>5, <2>3, <2>6
  <2> QED BY <2>4, <2>5, <2>7 DEF CapRespected
<1> QED BY <1>3, <1>5, <1>7, <1>8, <1>9, <1>10, <1>12, <1>13, <1>14, <1>15
    DEF PoolInv, PoolTypeOK, SlotsConserved

\* free preserves the invariant: the freed slots leave the row they were in.
LEMMA FreeInv ==
  ASSUME PoolInv, NEW c \in Clients, NEW indices \in Enumerations(held[c]), Free(c, indices)
  PROVE  PoolInv'
<1>1. /\ pool \in PoolRecord /\ FreeListOK(pool) /\ pool.free \in Seq(Positive)
      /\ Len(pool.free) \in Nat /\ pool.pool_size \in Nat /\ pool.pool_size >= 2
      /\ pool.n_alloc \in Int /\ pool.high_water \in Nat
      /\ held[c] \subseteq 1..(pool.pool_size - 1) /\ held[c] \subseteq Positive
  BY InvFacts
<1>2. /\ indices \in Seq(Positive) /\ Unique(indices) /\ Elements(indices) \subseteq held[c]
      /\ Len(indices) \in Nat /\ DOMAIN indices = 1..Len(indices)
  BY <1>1, EnumerationFacts, LenProperties
<1>3. NonSentinel(indices) = indices
  <2>1. \A i \in 1..Len(indices) : indices[i] # Sentinel
    BY <1>2, ElementOfSeq DEF Positive, Sentinel
  <2> QED BY <2>1 DEF NonSentinel
<1> DEFINE f == pool.free \o indices
<1>4. /\ pool' = [pool EXCEPT !.free = f, !.n_alloc = pool.n_alloc - Len(indices)]
      /\ held' = [held EXCEPT ![c] = held[c] \ Elements(indices)]
      /\ kv' = kv
  BY <1>3 DEF Free, FreePool
<1>5. Elements(pool.free) \cap Elements(indices) = {}
  BY <1>2 DEF PoolInv, SlotsConserved, OwnersDisjoint
<1>6. /\ f \in Seq(Positive) /\ Len(f) = Len(pool.free) + Len(indices)
      /\ Unique(f) /\ Elements(f) = Elements(pool.free) \cup Elements(indices)
  BY <1>1, <1>2, <1>5, ConcatUnique DEF FreeListOK
<1> HIDE DEF f
<1>7. /\ pool'.free = f /\ pool'.n_alloc = pool.n_alloc - Len(indices)
      /\ pool'.pool_size = pool.pool_size /\ pool'.high_water = pool.high_water
  BY <1>1, <1>4 DEF PoolRecord
<1>8. pool' \in PoolRecord
  <2>1. f \in Seq(Nat \ {Sentinel}) /\ pool.n_alloc - Len(indices) \in Int
    BY <1>1, <1>2, <1>6 DEF Positive, Sentinel
  <2> QED BY <1>1, <1>4, <2>1 DEF PoolRecord
<1>9. Slots(pool') = Slots(pool)
  BY <1>7 DEF Slots
<1>10. PoolTypeOK'
  <2>1. held' \in [Clients -> SUBSET Slots(pool)] /\ kv' \in [Layers -> [Slots(pool) -> Clients \cup {Zero}]]
    BY <1>4 DEF PoolInv, PoolTypeOK
  <2> QED BY <1>8, <1>9, <2>1 DEF PoolTypeOK
<1>11. FreeListUnique'
  BY <1>6, <1>7 DEF FreeListUnique, Unique
<1>12. \A d \in Clients : held'[d] = IF d = c THEN held[c] \ Elements(indices) ELSE held[d]
  BY <1>4 DEF PoolInv, PoolTypeOK
<1>13. OwnersDisjoint'
  <2>1. \A d, e \in Clients : d # e => held'[d] \cap held'[e] = {}
    BY <1>12 DEF PoolInv, SlotsConserved, OwnersDisjoint
  <2>2. \A d \in Clients : held'[d] \cap Elements(f) = {}
    BY <1>2, <1>6, <1>12 DEF PoolInv, SlotsConserved, OwnersDisjoint
  <2> QED BY <1>7, <2>1, <2>2 DEF OwnersDisjoint
<1>14. NoSlotLost'
  <2>1. Elements(pool.free) \cup UNION {held[d] : d \in Clients} = 1..(pool.pool_size - 1)
    BY DEF PoolInv, SlotsConserved, NoSlotLost
  <2>2. UNION {held[d] : d \in Clients} = (UNION {held'[d] : d \in Clients}) \cup Elements(indices)
    BY <1>2, <1>12
  <2>3. Elements(f) \cup UNION {held'[d] : d \in Clients} = 1..(pool.pool_size - 1)
    BY <1>6, <2>1, <2>2
  <2> QED BY <1>7, <2>3 DEF NoSlotLost
<1>15. CountConserved'
  <2>1. pool.n_alloc + Len(pool.free) = pool.pool_size - 1
    BY DEF PoolInv, SlotsConserved, CountConserved
  <2>2. (pool.n_alloc - Len(indices)) + (Len(pool.free) + Len(indices)) = pool.pool_size - 1
    BY <1>1, <1>2, <2>1
  <2> QED BY <1>6, <1>7, <2>2 DEF CountConserved
<1>16. CapRespected'
  BY <1>1, <1>2, <1>7 DEF PoolInv, CapRespected
<1>17. SentinelStaysZero'
  BY <1>4 DEF PoolInv, SentinelStaysZero
<1> QED BY <1>10, <1>11, <1>13, <1>14, <1>15, <1>16, <1>17
    DEF PoolInv, SlotsConserved

\* A store to cells that their clients own: the invariant holds, and a client's
\* cells keep their contents or get the client's own.
LEMMA StoreInv ==
  ASSUME PoolInv, NEW l \in Layers, NEW C \in SUBSET Clients,
         NEW cells \in [C -> SUBSET Slots(pool)],
         \A c \in C : cells[c] \subseteq held[c],
         kv' = Stored(kv, l, cells), UNCHANGED <<pool, held>>
  PROVE  /\ PoolInv'
         /\ \A c \in Clients : \A s \in held[c], k \in Layers :
              kv'[k][s] \in {kv[k][s], c}
<1>1. /\ kv \in [Layers -> [Slots(pool) -> Clients \cup {Zero}]]
      /\ held \in [Clients -> SUBSET Slots(pool)] /\ pool \in PoolRecord
  BY DEF PoolInv, PoolTypeOK
<1>2. ASSUME NEW s \in Slots(pool), NEW k \in Layers
      PROVE  kv'[k][s] = IF k = l /\ \E c \in C : s \in cells[c]
                         THEN CHOOSE c \in C : s \in cells[c] ELSE kv[k][s]
  <2>1. DOMAIN cells = C /\ DOMAIN kv[l] = Slots(pool)
    BY <1>1
  <2>2. kv' = [kv EXCEPT ![l] = [t \in Slots(pool) |->
                 IF \E c \in C : t \in cells[c]
                 THEN CHOOSE c \in C : t \in cells[c] ELSE kv[l][t]]]
    BY <2>1 DEF Stored
  <2> QED BY <1>1, <2>2
<1>3. kv' \in [Layers -> [Slots(pool) -> Clients \cup {Zero}]]
  <2>1. ASSUME NEW s \in Slots(pool)
        PROVE  (IF \E c \in C : s \in cells[c] THEN CHOOSE c \in C : s \in cells[c]
                ELSE kv[l][s]) \in Clients \cup {Zero}
    BY <1>1
  <2>2. DOMAIN cells = C /\ DOMAIN kv[l] = Slots(pool)
    BY <1>1
  <2>3. kv' = [kv EXCEPT ![l] = [t \in Slots(pool) |->
                 IF \E c \in C : t \in cells[c]
                 THEN CHOOSE c \in C : t \in cells[c] ELSE kv[l][t]]]
    BY <2>2 DEF Stored
  <2>4. [t \in Slots(pool) |-> IF \E c \in C : t \in cells[c]
           THEN CHOOSE c \in C : t \in cells[c] ELSE kv[l][t]]
          \in [Slots(pool) -> Clients \cup {Zero}]
    BY <2>1
  <2> QED BY <1>1, <2>3, <2>4
<1>4. ASSUME NEW c \in Clients, NEW s \in held[c], NEW k \in Layers
      PROVE  kv'[k][s] \in {kv[k][s], c}
  <2>1. s \in Slots(pool)
    BY <1>1
  <2>2. CASE k = l /\ \E d \in C : s \in cells[d]
    <3> DEFINE d == CHOOSE d \in C : s \in cells[d]
    <3>1. d \in C /\ s \in cells[d]
      BY <2>2
    <3> HIDE DEF d
    <3>2. s \in held[d] /\ d \in Clients
      BY <3>1
    <3>3. d = c
      BY <3>2 DEF PoolInv, SlotsConserved, OwnersDisjoint
    <3> QED BY <1>2, <2>1, <2>2, <3>3 DEF d
  <2>3. CASE ~(k = l /\ \E d \in C : s \in cells[d])
    BY <1>2, <2>1, <2>3
  <2> QED BY <2>2, <2>3
<1>5. SentinelStaysZero'
  <2>1. Sentinel \in Slots(pool)
    BY InvFacts DEF Sentinel, Slots
  <2>2. \A c \in C : Sentinel \notin cells[c]
    BY InvFacts DEF Positive, Sentinel
  <2>3. \A k \in Layers : kv'[k][Sentinel] = kv[k][Sentinel]
    BY <1>2, <2>1, <2>2
  <2> QED BY <2>3 DEF PoolInv, SentinelStaysZero
<1>6. PoolTypeOK' /\ SlotsConserved' /\ CapRespected'
  BY <1>1, <1>3 DEF PoolInv, PoolTypeOK, SlotsConserved, FreeListUnique, OwnersDisjoint,
     NoSlotLost, CountConserved, CapRespected, Slots, Elements
<1> QED BY <1>4, <1>5, <1>6 DEF PoolInv
\* set_kv stores to cells its client owns.
LEMMA SetKVStores ==
  ASSUME PoolInv, NEW c \in Clients, NEW l \in Layers,
         NEW indices \in Enumerations(held[c]), SetKV(c, l, indices)
  PROVE  /\ PoolInv'
         /\ \A d \in Clients : \A s \in held[d], k \in Layers : kv'[k][s] \in {kv[k][s], d}
<1> DEFINE cells == [d \in {c} |-> Elements(indices)]
<1>1. Elements(indices) \subseteq held[c]
  BY InvFacts, EnumerationFacts
<1>2. cells \in [{c} -> SUBSET Slots(pool)] /\ \A d \in {c} : cells[d] \subseteq held[d]
  BY <1>1 DEF PoolInv, PoolTypeOK
<1>3. kv' = Stored(kv, l, cells) /\ UNCHANGED <<pool, held>>
  BY DEF SetKV
<1> HIDE DEF cells
<1> QED BY <1>2, <1>3, StoreInv

\* The mask of the padded kernel: the cells of a row are the row's own slots,
\* whatever the padding.
LEMMA MaskedCells ==
  ASSUME NEW row \in Seq(Positive), NEW width \in Nat, Len(row) <= width
  PROVE  ValidCells(PaddedRow(row, width), Len(row)) = Elements(row)
<1>1. Len(row) \in Nat /\ DOMAIN row = 1..Len(row)
  BY LenProperties
<1>2. \A i \in 1..Len(row) : PaddedRow(row, width)[i] = row[i]
  BY <1>1 DEF PaddedRow
<1> QED BY <1>1, <1>2 DEF ValidCells, Elements

\* set_kv_padded stores to cells their clients own.
LEMMA SetKVPaddedStores ==
  ASSUME PoolInv, NEW l \in Layers, NEW width \in 1..MaxAlloc, NEW rows,
         \A c \in Clients : rows[c] \in Enumerations(held[c]),
         SetKVPadded(l, rows, width)
  PROVE  /\ PoolInv'
         /\ \A d \in Clients : \A s \in held[d], k \in Layers : kv'[k][s] \in {kv[k][s], d}
<1> DEFINE cells == [c \in Clients |-> ValidCells(PaddedRow(rows[c], width), Len(rows[c]))]
<1>1. ASSUME NEW c \in Clients PROVE cells[c] \subseteq held[c]
  <2>1. rows[c] \in Seq(Positive) /\ Elements(rows[c]) \subseteq held[c]
    BY InvFacts, EnumerationFacts
  <2>2. Len(rows[c]) <= width /\ width \in Nat
    BY ClientAssumption DEF SetKVPadded
  <2> QED BY <2>1, <2>2, MaskedCells
<1>2. cells \in [Clients -> SUBSET Slots(pool)] /\ \A c \in Clients : cells[c] \subseteq held[c]
  BY <1>1 DEF PoolInv, PoolTypeOK
<1>3. kv' = Stored(kv, l, cells) /\ UNCHANGED <<pool, held>>
  BY DEF SetKVPadded
<1> HIDE DEF cells
<1> QED BY <1>2, <1>3, StoreInv

\* Entering or leaving capture_mode touches nothing the invariant speaks of.
LEMMA CaptureInv ==
  ASSUME PoolInv, EnterCapture \/ ExitCapture
  PROVE  PoolInv'
<1>1. /\ pool' \in PoolRecord /\ pool'.free = pool.free /\ pool'.pool_size = pool.pool_size
      /\ pool'.n_alloc = pool.n_alloc /\ pool'.high_water = pool.high_water
      /\ kv' = kv /\ held' = held
  BY InvFacts DEF EnterCapture, ExitCapture, PoolRecord
<1> QED BY <1>1 DEF PoolInv, PoolTypeOK, SlotsConserved, FreeListUnique, OwnersDisjoint,
     NoSlotLost, CountConserved, CapRespected, SentinelStaysZero, Slots, Elements

\* reset preserves the invariant: every slot is free again and no row is held.
LEMMA ResetInv ==
  ASSUME PoolInv, Reset
  PROVE  PoolInv'
<1> DEFINE f == SlotRange(1, pool.pool_size)
<1>1. /\ pool \in PoolRecord /\ pool.pool_size \in Nat /\ pool.pool_size >= 2
      /\ pool.n_alloc \in Int /\ pool.high_water \in Nat
  BY InvFacts
<1>2. /\ f \in Seq(Positive) /\ Len(f) = pool.pool_size - 1 /\ Unique(f)
      /\ Elements(f) = 1..(pool.pool_size - 1)
  <2>1. 1 \in Positive /\ 1 <= pool.pool_size
    BY <1>1 DEF Positive, Sentinel
  <2> QED BY <1>1, <2>1, SlotRangeList
<1>3. /\ pool' = [pool EXCEPT !.free = f, !.n_alloc = 0]
      /\ held' = [c \in Clients |-> {}] /\ kv' = kv
  BY DEF Reset, ResetPool
<1> HIDE DEF f
<1>4. /\ pool' \in PoolRecord /\ pool'.free = f /\ pool'.pool_size = pool.pool_size
      /\ pool'.n_alloc = 0 /\ pool'.high_water = pool.high_water
  <2>1. f \in Seq(Nat \ {Sentinel})
    BY <1>2 DEF Positive, Sentinel
  <2>2. pool \in PoolRecord /\ pool' = [pool EXCEPT !.free = f, !.n_alloc = 0]
    BY <1>1, <1>3
  <2>3. pool' \in PoolRecord
    <3>1. PICK z \in Int : z = 0
      OBVIOUS
    <3>2. pool' = [pool EXCEPT !.free = f, !.n_alloc = z]
      BY <2>2, <3>1, Zenon
    <3> QED BY <2>1, <2>2, <3>2 DEF PoolRecord
  <2>4. /\ pool'.free = f /\ pool'.pool_size = pool.pool_size
        /\ pool'.n_alloc = 0 /\ pool'.high_water = pool.high_water
    BY <2>2 DEF PoolRecord
  <2> QED BY <2>3, <2>4
<1>5. PoolTypeOK' /\ SentinelStaysZero' /\ CapRespected'
  BY <1>1, <1>3, <1>4 DEF PoolInv, PoolTypeOK, SentinelStaysZero, CapRespected, Slots
<1>6. SlotsConserved'
  BY <1>1, <1>2, <1>3, <1>4 DEF SlotsConserved, FreeListUnique, OwnersDisjoint, NoSlotLost,
     CountConserved, Unique
<1> QED BY <1>5, <1>6 DEF PoolInv

\* Every step preserves the invariant.
LEMMA NextInv == PoolInv /\ [Next]_vars => PoolInv'
<1> SUFFICES ASSUME PoolInv, [Next]_vars PROVE PoolInv'
  OBVIOUS
<1>1. ASSUME NEW c \in Clients, NEW n \in 1..MaxAlloc, Alloc(c, n) PROVE PoolInv'
  BY <1>1, AllocInv
<1>2. ASSUME NEW c \in Clients, NEW indices \in Enumerations(held[c]), Free(c, indices)
      PROVE  PoolInv'
  BY <1>2, FreeInv
<1>3. ASSUME NEW c \in Clients, NEW l \in Layers,
             NEW indices \in Enumerations(held[c]), SetKV(c, l, indices)
      PROVE  PoolInv'
  BY <1>3, SetKVStores
<1>4. ASSUME NEW l \in Layers, NEW width \in 1..MaxAlloc, NEW rows,
             \A c \in Clients : rows[c] \in Enumerations(held[c]),
             SetKVPadded(l, rows, width)
      PROVE  PoolInv'
  BY <1>4, SetKVPaddedStores
<1>5. CASE EnterCapture \/ ExitCapture
  BY <1>5, CaptureInv
<1>6. CASE Reset
  BY <1>6, ResetInv
<1>7. CASE UNCHANGED vars
  BY <1>7 DEF vars, PoolInv, PoolTypeOK, SlotsConserved, FreeListUnique, OwnersDisjoint,
     NoSlotLost, CountConserved, CapRespected, SentinelStaysZero, Slots, Elements
<1> QED BY <1>1, <1>2, <1>3, <1>4, <1>5, <1>6, <1>7 DEF Next

-----------------------------------------------------------------------------
(* The results.                                                            *)

\* The pool's state has its type in every reachable state.
THEOREM TypeCorrect == Spec => []PoolTypeOK
<1>1. PoolInv => PoolTypeOK
  BY DEF PoolInv
<1> QED BY <1>1, InitInv, NextInv, PTL DEF Spec

\* alloc, free, _grow and reset conserve the slots, for any number of requests:
\* nothing is handed out twice and nothing is lost.
THEOREM Conservation == Spec => []SlotsConserved
<1>1. PoolInv => SlotsConserved
  BY DEF PoolInv
<1> QED BY <1>1, InitInv, NextInv, PTL DEF Spec

\* Slot 0 reads as zeros forever.
THEOREM SentinelZero == Spec => []SentinelStaysZero
<1>1. PoolInv => SentinelStaysZero
  BY DEF PoolInv
<1> QED BY <1>1, InitInv, NextInv, PTL DEF Spec

\* The cap holds and high_water bounds n_alloc.
THEOREM CapHolds == Spec => []CapRespected
<1>1. PoolInv => CapRespected
  BY DEF PoolInv
<1> QED BY <1>1, InitInv, NextInv, PTL DEF Spec

\* Only an alloc outside capture replaces the buffers, and it bumps pool_version.
THEOREM ReplacementVisible == Spec => BuffersReplacedVisibly
<1> DEFINE Visible == pool'.pool_size # pool.pool_size =>
                        ~pool.in_capture /\ pool'.pool_version = pool.pool_version + 1
<1>1. PoolInv /\ [Next]_vars => [Visible]_vars
  <2> SUFFICES ASSUME PoolInv, Next PROVE Visible
    OBVIOUS
  <2>1. ASSUME NEW c \in Clients, NEW n \in 1..MaxAlloc, Alloc(c, n) PROVE Visible
    <3>1. pool \in PoolRecord /\ FreeListOK(pool) /\ n \in Positive /\ ~AllocRaises(pool, n)
      BY <2>1, InvFacts, ClientAssumption DEF Alloc, Positive, Sentinel
    <3>2. LET q == Provisioned(pool, n)
          IN  /\ q.pool_size # pool.pool_size =>
                   ~pool.in_capture /\ q.pool_version = pool.pool_version + 1
              /\ pool'.pool_size = q.pool_size /\ pool'.pool_version = q.pool_version
      BY <2>1, <3>1, ProvisionedFacts, AllocFacts DEF Alloc
    <3> QED BY <3>2
  <2>2. ASSUME NEW c \in Clients, NEW indices, Free(c, indices) PROVE Visible
    BY <2>2, InvFacts DEF Free, FreePool, PoolRecord
  <2>3. CASE EnterCapture \/ ExitCapture \/ Reset
    BY <2>3, InvFacts DEF EnterCapture, ExitCapture, Reset, ResetPool, PoolRecord
  <2>4. CASE UNCHANGED pool
    BY <2>4
  <2> HIDE DEF Visible
  <2> QED BY <2>1, <2>2, <2>3, <2>4 DEF Next, SetKV, SetKVPadded
<1> QED BY <1>1, InitInv, NextInv, PTL DEF Spec, BuffersReplacedVisibly
-----------------------------------------------------------------------------
(* The pool implements PrivateSlots.                                       *)

\* In the abstract memory an alloc gives one client fresh cells.
LEMMA AllocAcquires ==
  ASSUME PoolInv, NEW c \in Clients, NEW n \in 1..MaxAlloc, Alloc(c, n)
  PROVE  Private!Acquire(c)
<1> DEFINE q == Provisioned(pool, n)
           a == AllocOut(pool, n)
<1>1. /\ pool \in PoolRecord /\ FreeListOK(pool) /\ pool.pool_size \in Nat
      /\ n \in Positive /\ ~AllocRaises(pool, n)
      /\ \A d \in Clients : held[d] \subseteq 1..(pool.pool_size - 1)
      /\ held \in [Clients -> SUBSET Slots(pool)]
  BY InvFacts, ClientAssumption DEF Alloc, Positive, Sentinel, PoolInv, PoolTypeOK
<1>2. /\ Elements(q.free) = Elements(pool.free) \cup pool.pool_size..(q.pool_size - 1)
      /\ pool.pool_size <= q.pool_size /\ q.pool_size \in Nat
  BY <1>1, ProvisionedFacts DEF PoolRecord
<1>3. a \subseteq Elements(q.free)
  BY <1>1, AllocFacts
<1>4. kv' = GrownBuffers(kv, pool, q) /\ held' = [held EXCEPT ![c] = held[c] \cup a]
  BY DEF Alloc
<1> HIDE DEF q, a
<1>5. \A d \in Clients : a \cap held[d] = {}
  BY <1>1, <1>2, <1>3 DEF PoolInv, SlotsConserved, OwnersDisjoint
<1>6. \A l \in Layers, s \in Slots(pool) : kv'[l][s] = kv[l][s]
  BY <1>1, <1>2, <1>4 DEF GrownBuffers, Slots
<1>7. \A d \in Clients : held'[d] = IF d = c THEN held[c] \cup a ELSE held[d]
  BY <1>1, <1>4
<1>8. DOMAIN memory' = Clients
  BY DEF memory
<1>9. \A d \in Clients : DOMAIN memory[d] = held[d] /\ DOMAIN memory'[d] = held'[d]
  BY DEF memory
<1>10. ASSUME NEW d \in Clients, NEW s \in held[d] PROVE memory'[d][s] = memory[d][s]
  <2>1. s \in held'[d] /\ s \in Slots(pool)
    BY <1>1, <1>7
  <2>2. [l \in Layers |-> kv'[l][s]] = [l \in Layers |-> kv[l][s]]
    BY <1>6, <2>1
  <2> QED BY <2>1, <2>2 DEF memory
<1>11. ASSUME NEW d \in Clients \ {c} PROVE memory'[d] = memory[d]
  <2>1. memory'[d] = [s \in held'[d] |-> [l \in Layers |-> kv'[l][s]]]
        /\ memory[d] = [s \in held[d] |-> [l \in Layers |-> kv[l][s]]]
    BY DEF memory
  <2>2. held'[d] = held[d] /\ held[d] \subseteq Slots(pool)
    BY <1>1, <1>7
  <2>3. \A s \in held[d] : [l \in Layers |-> kv'[l][s]] = [l \in Layers |-> kv[l][s]]
    BY <1>6, <2>2
  <2> QED BY <2>1, <2>2, <2>3
<1>12. /\ DOMAIN memory[c] \subseteq DOMAIN memory'[c]
       /\ \A d \in Clients : (DOMAIN memory'[c] \ DOMAIN memory[c]) \cap DOMAIN memory[d] = {}
  BY <1>5, <1>7, <1>9
<1> QED BY <1>8, <1>9, <1>10, <1>11, <1>12 DEF Private!Acquire

\* In the abstract memory a free takes cells from one client.
LEMMA FreeReleases ==
  ASSUME PoolInv, NEW c \in Clients, NEW indices, Free(c, indices)
  PROVE  Private!Release(c)
<1>1. held \in [Clients -> SUBSET Slots(pool)]
  BY DEF PoolInv, PoolTypeOK
<1>2. /\ kv' = kv
      /\ \A d \in Clients : held'[d] = IF d = c THEN held[c] \ Elements(indices) ELSE held[d]
  BY <1>1 DEF Free
<1>3. DOMAIN memory' = Clients
      /\ \A d \in Clients : DOMAIN memory[d] = held[d] /\ DOMAIN memory'[d] = held'[d]
  BY DEF memory
<1>4. \A d \in Clients \ {c} : memory'[d] = memory[d]
  BY <1>2 DEF memory
<1>5. \A s \in held'[c] : s \in held[c] /\ memory'[c][s] = memory[c][s]
  BY <1>2 DEF memory
<1> QED BY <1>3, <1>4, <1>5 DEF Private!Release

\* In the abstract memory a store changes only cells of the storing clients.
LEMMA StoreWrites ==
  ASSUME held' = held,
         \A c \in Clients : \A s \in held[c], k \in Layers : kv'[k][s] \in {kv[k][s], c}
  PROVE  Private!Write
<1>1. DOMAIN memory' = Clients
      /\ \A d \in Clients : DOMAIN memory[d] = held[d] /\ DOMAIN memory'[d] = held[d]
  BY DEF memory
<1>2. \A c \in Clients : \A s \in held[c], l \in Layers :
        memory'[c][s][l] = kv'[l][s] /\ memory[c][s][l] = kv[l][s]
  BY DEF memory
<1> QED BY <1>1, <1>2 DEF Private!Write

\* Whatever the requests do, each sees a private memory: the slots it was given
\* keep their contents in every layer until it writes or frees them, across
\* growth of the buffers, recycling of slots and batched stores of others.
THEOREM Implementation == Spec => ImplementsPrivateSlots
<1>1. Init => Private!Init
  <2> SUFFICES ASSUME Init PROVE memory = [c \in Clients |-> Private!Nothing]
    BY DEF Private!Init
  <2> QED BY DEF Init, memory, Private!Nothing
<1>2. PoolInv /\ [Next]_vars => [Private!Next]_memory
  <2> SUFFICES ASSUME PoolInv, [Next]_vars PROVE Private!Next \/ UNCHANGED memory
    OBVIOUS
  <2>1. ASSUME NEW c \in Clients, NEW n \in 1..MaxAlloc, Alloc(c, n) PROVE Private!Next
    BY <2>1, AllocAcquires DEF Private!Next
  <2>2. ASSUME NEW c \in Clients, NEW indices \in Enumerations(held[c]), Free(c, indices)
        PROVE  Private!Next
    BY <2>2, FreeReleases DEF Private!Next
  <2>3. ASSUME NEW c \in Clients, NEW l \in Layers,
               NEW indices \in Enumerations(held[c]), SetKV(c, l, indices)
        PROVE  Private!Next
    <3>1. held' = held
      BY <2>3 DEF SetKV
    <3> QED BY <2>3, <3>1, SetKVStores, StoreWrites DEF Private!Next
  <2>4. ASSUME NEW l \in Layers, NEW width \in 1..MaxAlloc, NEW rows,
               \A c \in Clients : rows[c] \in Enumerations(held[c]),
               SetKVPadded(l, rows, width)
        PROVE  Private!Next
    <3>1. held' = held
      BY <2>4 DEF SetKVPadded
    <3> QED BY <2>4, <3>1, SetKVPaddedStores, StoreWrites DEF Private!Next
  <2>5. CASE EnterCapture \/ ExitCapture \/ UNCHANGED vars
    BY <2>5 DEF EnterCapture, ExitCapture, vars, memory
  <2>6. CASE Reset
    <3>1. held' = [c \in Clients |-> {}]
      BY <2>6 DEF Reset
    <3>2. memory' = [c \in Clients |-> Private!Nothing]
      BY <3>1 DEF memory, Private!Nothing
    <3> QED BY <3>2 DEF Private!Next, Private!Clear
  <2> QED BY <2>1, <2>2, <2>3, <2>4, <2>5, <2>6 DEF Next
<1> QED BY <1>1, <1>2, InitInv, NextInv, PTL DEF Spec, ImplementsPrivateSlots, Private!Spec
=============================================================================
