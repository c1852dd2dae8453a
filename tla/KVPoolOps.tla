------------------------------ MODULE KVPoolOps ------------------------------
(***************************************************************************)
(* The bookkeeping of SpecBlockKVPool (speculative/spec_kv_pool.py) as     *)
(* operators on a pool record, so that the pool's own specification and    *)
(* the modules that use a pool share one definition of each method.        *)
(*                                                                         *)
(*   free         _free, the deque of free slot numbers, left end first    *)
(*   pool_size    _pool_size, slots of k_buffer / v_buffer, slot 0 too     *)
(*   n_alloc      _n_alloc                                                 *)
(*   high_water   _high_water                                              *)
(*   in_capture   _in_capture, TRUE inside capture_mode()                  *)
(*   pool_version pool_version, bumped when _grow replaces the tensors     *)
(*                                                                         *)
(* alloc sorts the indices it returns, so the set of indices carries the   *)
(* same information as the tensor.                                         *)
(***************************************************************************)
EXTENDS RowLists

CONSTANTS
  InitialPoolSize,  \* initial_pool_size
  MaxPoolSize,      \* the max_pool_size argument
  GrowChunk         \* _DEFAULT_GROW_CHUNK

ASSUME PoolAssumption ==
  /\ InitialPoolSize \in Nat /\ InitialPoolSize >= 2
  /\ MaxPoolSize \in Nat
  /\ GrowChunk \in Nat \ {0}

\* Slot 0, the zero sentinel.
Sentinel == 0

\* The cap that __init__ keeps: never below the initial size.
max_pool_size ==
  IF MaxPoolSize < InitialPoolSize THEN InitialPoolSize ELSE MaxPoolSize

\* Mutant: _grow starts the new indices one too early, a slot is handed out twice.
SlotRangeOverlapping(from, to) ==
  [i \in 1..(to - from) |-> IF from > 1 THEN from + i - 2 ELSE from + i - 1]

\* The slots from..to-1 in ascending order, as range(from, to) yields them.
SlotRange(from, to) == [i \in 1..(to - from) |-> from + i - 1]

NewPool ==
  [free |-> SlotRange(1, InitialPoolSize), pool_size |-> InitialPoolSize,
   n_alloc |-> 0, high_water |-> 0, in_capture |-> FALSE, pool_version |-> 0]

PoolRecord ==
  [free : Seq(Nat \ {Sentinel}), pool_size : Nat \ {0, 1}, n_alloc : Int,
   high_water : Nat, in_capture : BOOLEAN, pool_version : Nat]

-----------------------------------------------------------------------------
(* Mutants of the operators below: each is a plausible slip in the code.   *)

\* _grow forgets pool_version.
GrownWithoutVersion(p, new_size) ==
  IF new_size <= p.pool_size THEN p
  ELSE [p EXCEPT !.free = @ \o SlotRange(p.pool_size, new_size),
                 !.pool_size = new_size]

\* alloc does not look at _in_capture before it grows.
AllocRaisesOnlyAtCap(p, n) ==
  /\ n > Len(p.free)
  /\ p.pool_size + (IF n > GrowChunk THEN n ELSE GrowChunk) > max_pool_size

\* alloc does not look at max_pool_size before it grows.
AllocRaisesInCapture(p, n) == n > Len(p.free) /\ p.in_capture

-----------------------------------------------------------------------------
(* _grow(new_size): the caller has checked new_size against the cap.       *)
Grown(p, new_size) ==
  IF new_size <= p.pool_size THEN p
  ELSE [p EXCEPT !.free = @ \o SlotRange(p.pool_size, new_size),
                 !.pool_size = new_size,
                 !.pool_version = @ + 1]

\* The size alloc(n) asks _grow for when the free list is too short.
GrowTarget(p, n) == p.pool_size + (IF n > GrowChunk THEN n ELSE GrowChunk)

\* alloc(n) raises: it would have to grow, and capture or the cap forbids it.
\* Both raises come before the first mutation.
AllocRaises(p, n) ==
  /\ n > Len(p.free)
  /\ p.in_capture \/ GrowTarget(p, n) > max_pool_size

\* The pool from which alloc(n) pops, grown first when the free list is short.
Provisioned(p, n) == IF n > Len(p.free) THEN Grown(p, GrowTarget(p, n)) ELSE p

\* The indices alloc(n) returns (sorted ascending by the code).
AllocOut(p, n) == LET q == Provisioned(p, n) IN {q.free[i] : i \in 1..n}

\* The pool after alloc(n): n popleft calls, the counters, no change for n <= 0.
AllocPool(p, n) ==
  LET q == Provisioned(p, n)
  IN  IF n <= 0 THEN p
      ELSE [q EXCEPT !.free = SubSeq(@, n + 1, Len(@)),
                     !.n_alloc = @ + n,
                     !.high_water = IF q.n_alloc + n > @ THEN q.n_alloc + n ELSE @]

\* The indices free() appends: every one but the sentinel.
NonSentinel(indices) ==
  IF \A i \in 1..Len(indices) : indices[i] # Sentinel THEN indices
  ELSE SelectSeq(indices, LAMBDA s : s # Sentinel)

\* The pool after free(indices). n_alloc drops by the length of the list.
FreePool(p, indices) ==
  [p EXCEPT !.free = @ \o NonSentinel(indices), !.n_alloc = @ - Len(indices)]

\* The pool after reset(): the buffers and their version stay.
ResetPool(p) ==
  [p EXCEPT !.free = SlotRange(1, p.pool_size), !.n_alloc = 0]

-----------------------------------------------------------------------------
(* The loops in which the worker calls the pool, one call per row.         *)

\* free of each row in turn.
FreeRows(p, rows) ==
  LET after[i \in 0..Len(rows)] ==
        IF i = 0 THEN p ELSE FreePool(after[i - 1], rows[i])
  IN  after[Len(rows)]

\* One turn of the loop that allocates row by row: the first call that raises ends
\* it, with what was allocated so far.
AllocStep(before, n) ==
  IF ~before.ok \/ AllocRaises(before.pool, n) THEN [before EXCEPT !.ok = FALSE]
  ELSE [before EXCEPT !.pool = AllocPool(@, n),
                      !.rows = Append(@, Ascending(AllocOut(before.pool, n)))]

\* alloc(ns[i]) for each i in turn: the pool after it, the rows returned, and
\* whether all went well.
AllocRows(p, ns) ==
  LET after[i \in 0..Len(ns)] ==
        IF i = 0 THEN [pool |-> p, rows |-> <<>>, ok |-> TRUE]
        ELSE AllocStep(after[i - 1], ns[i])
  IN  after[Len(ns)]
=============================================================================
