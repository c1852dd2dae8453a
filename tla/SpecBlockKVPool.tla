--------------------------- MODULE SpecBlockKVPool ---------------------------
(***************************************************************************)
(* SpecBlockKVPool (speculative/spec_kv_pool.py): the worker-local pool of *)
(* cross-attention K/V slots, with the buffers themselves and with the     *)
(* requests that hold its indices.                                         *)
(*                                                                         *)
(* The pool has no owner table: a slot belongs to whoever was given its    *)
(* index.  `held' is that ownership, and the actions take their arguments  *)
(* from it as specblock_worker.py and specblock_info.py do: a request      *)
(* frees and writes only indices it was given.                             *)
(*                                                                         *)
(* K and V are always written together with the same indices, so one       *)
(* buffer per layer stands for the pair.  What a slot holds is abstracted  *)
(* to the client it was computed for.                                      *)
(***************************************************************************)
EXTENDS KVPoolOps

CONSTANTS
  Clients,   \* requests that hold cross-attention slots
  Layers,    \* draft layers
  Zero,      \* the zero vector every buffer starts with
  MaxAlloc   \* bound on the n of one alloc call

ASSUME ClientAssumption ==
  /\ Zero \notin Clients
  /\ MaxAlloc \in Nat

VARIABLES
  pool,  \* the pool record of KVPoolOps
  kv,    \* kv[l][s]: what slot s of layer l's buffers holds
  held   \* held[c]: the slots whose indices client c was given

vars == <<pool, kv, held>>

Slots(p) == 0..(p.pool_size - 1)

\* The lists without repetition that can be made of the slots in S.
Enumerations(S) ==
  {f \in UNION {[1..n -> S] : n \in 0..Cardinality(S)} :
     \A i, j \in DOMAIN f : f[i] = f[j] => i = j}

-----------------------------------------------------------------------------
(* Mutants. *)

\* _grow allocates the new tensors and does not copy the old ones.
GrownBuffersUncopied(b, p, q) ==
  [l \in Layers |-> [s \in Slots(q) |-> Zero]]

\* _grow lengthens the free list and leaves the tensors as they are.
GrownBuffersUnresized(b, p, q) == b

\* The kernel stores every column of the padded matrix.
ValidCellsUnmasked(indices, valid) == Elements(indices)

-----------------------------------------------------------------------------
\* What _grow does to the tensors: fresh zeros, then the old contents copied.
GrownBuffers(b, p, q) ==
  [l \in Layers |-> [s \in Slots(q) |-> IF s \in Slots(p) THEN b[l][s] ELSE Zero]]

\* The store to layer l: cells[c] are the slots of the row computed for c.
Stored(b, l, cells) ==
  [b EXCEPT ![l] = [s \in DOMAIN b[l] |->
     IF \E c \in DOMAIN cells : s \in cells[c]
     THEN CHOOSE c \in DOMAIN cells : s \in cells[c] ELSE b[l][s]]]

\* A row of the index matrix of set_kv_padded: padded with the sentinel.
PaddedRow(row, width) ==
  [i \in 1..width |-> IF i <= Len(row) THEN row[i] ELSE Sentinel]

\* The cells of one padded row that _set_kv_padded_kernel stores to.
ValidCells(indices, valid) == {indices[i] : i \in 1..valid}

Init ==
  /\ pool = NewPool
  /\ kv = [l \in Layers |-> [s \in Slots(NewPool) |-> Zero]]
  /\ held = [c \in Clients |-> {}]

\* alloc(n); a call that raises changes nothing and is no step.
Alloc(c, n) ==
  /\ ~AllocRaises(pool, n)
  /\ pool' = AllocPool(pool, n)
  /\ kv' = GrownBuffers(kv, pool, Provisioned(pool, n))
  /\ held' = [held EXCEPT ![c] = @ \cup AllocOut(pool, n)]

\* free(indices): the whole row of a dropped request or part of a row.
Free(c, indices) ==
  /\ pool' = FreePool(pool, indices)
  /\ held' = [held EXCEPT ![c] = @ \ Elements(indices)]
  /\ UNCHANGED kv

\* set_kv(l, indices, ...) for slots of one client.
SetKV(c, l, indices) ==
  /\ kv' = Stored(kv, l, [d \in {c} |-> Elements(indices)])
  /\ UNCHANGED <<pool, held>>

\* set_kv_padded(l, indices, ..., valid_slots): one row per client, padded to
\* a common width; row c is valid up to the length of rows[c].
SetKVPadded(l, rows, width) ==
  /\ \A c \in Clients : Len(rows[c]) <= width
  /\ kv' = Stored(kv, l,
                  [c \in Clients |-> ValidCells(PaddedRow(rows[c], width), Len(rows[c]))])
  /\ UNCHANGED <<pool, held>>

EnterCapture ==
  /\ ~pool.in_capture
  /\ pool' = [pool EXCEPT !.in_capture = TRUE]
  /\ UNCHANGED <<kv, held>>

ExitCapture ==
  /\ pool.in_capture
  /\ pool' = [pool EXCEPT !.in_capture = FALSE]
  /\ UNCHANGED <<kv, held>>

\* reset(), which flush_cache calls when no request is left: whatever is still
\* allocated has no user.
Reset ==
  /\ ~pool.in_capture
  /\ pool' = ResetPool(pool)
  /\ held' = [c \in Clients |-> {}]
  /\ UNCHANGED kv

Next ==
  \/ \E c \in Clients, n \in 1..MaxAlloc : Alloc(c, n)
  \/ \E c \in Clients : \E indices \in Enumerations(held[c]) : Free(c, indices)
  \/ \E c \in Clients, l \in Layers :
       \E indices \in Enumerations(held[c]) : SetKV(c, l, indices)
  \/ \E l \in Layers, width \in 1..MaxAlloc :
       \E rows \in [Clients -> UNION {Enumerations(held[c]) : c \in Clients}] :
         /\ \A c \in Clients : rows[c] \in Enumerations(held[c])
         /\ SetKVPadded(l, rows, width)
  \/ EnterCapture
  \/ ExitCapture
  \/ Reset

Spec == Init /\ [][Next]_vars

-----------------------------------------------------------------------------
(* Properties. *)

\* Type invariant: the record, one buffer cell per slot and layer, and held
\* slots that exist.
PoolTypeOK ==
  /\ pool \in PoolRecord
  /\ kv \in [Layers -> [Slots(pool) -> Clients \cup {Zero}]]
  /\ held \in [Clients -> SUBSET Slots(pool)]

\* No slot is listed twice in the free list (a slot freed twice would later be
\* given to two requests).
FreeListUnique ==
  \A i, j \in 1..Len(pool.free) : pool.free[i] = pool.free[j] => i = j

\* A slot has at most one owner, and an owned slot is not free.
OwnersDisjoint ==
  /\ \A c, d \in Clients : c # d => held[c] \cap held[d] = {}
  /\ \A c \in Clients : held[c] \cap Elements(pool.free) = {}

\* Every slot but the sentinel is free or owned: none is lost by alloc, free,
\* _grow or reset, and the sentinel never enters circulation.
NoSlotLost ==
  Elements(pool.free) \cup UNION {held[c] : c \in Clients} = 1..(pool.pool_size - 1)

\* The counter that capacity checks and statistics read agrees with the list.
CountConserved == pool.n_alloc + Len(pool.free) = pool.pool_size - 1

\* The allocator's accounting, over every order of alloc, free, growth, capture
\* and reset: the slots 1..pool_size-1 are partitioned into the free list and
\* the rows the requests hold, and _n_alloc counts the second part.
SlotsConserved ==
  FreeListUnique /\ OwnersDisjoint /\ NoSlotLost /\ CountConserved

\* "Slot 0 is the zero sentinel (kept zero forever for pad-friendly gather)":
\* padded rows, growth and recycling never put data there.
SentinelStaysZero == \A l \in Layers : kv[l][Sentinel] = Zero

\* The pool never outgrows the cap of __init__, and high_water is a true
\* high-water mark.
CapRespected ==
  /\ pool.pool_size <= max_pool_size
  /\ pool.n_alloc <= pool.high_water
  /\ pool.high_water < pool.pool_size

\* A captured graph holds the addresses of the buffers: the buffers are replaced
\* only outside capture, and each replacement is visible in pool_version.
BuffersReplacedVisibly ==
  [][pool'.pool_size # pool.pool_size =>
       /\ ~pool.in_capture
       /\ pool'.pool_version = pool.pool_version + 1]_vars

\* What the pool promises its clients: the private memories of PrivateSlots,
\* where a request's cells are the slots it holds and a cell's contents are the
\* slot's values in all layers.
memory == [c \in Clients |-> [s \in held[c] |-> [l \in Layers |-> kv[l][s]]]]

Private == INSTANCE PrivateSlots WITH mem <- memory

\* Behind one shared pool each request keeps a memory of its own: no alloc, free,
\* growth or store of another request changes what its slots hold.
ImplementsPrivateSlots == Private!Spec
=============================================================================
