------------------------------ MODULE HostCopy ------------------------------
(***************************************************************************)
(* How the accepted paths of a verify pass reach the host.                 *)
(*                                                                         *)
(* The verify kernel leaves one accepted path per request on the device.   *)
(* The host copies the path lengths and the flat list of accepted ids with *)
(* .to("cpu", non_blocking=True): the copy goes into pinned memory and is  *)
(* only queued on the stream, so it is complete when the stream has got    *)
(* that far and not when the call returns.  The synchronous worker reads   *)
(* both tensors at once (_fill_requests).  The overlap worker reads the    *)
(* lengths at once for its own use (_verify_and_accept), packs the ids into*)
(* rows of a fixed stride, and the scheduler reads lengths and rows behind *)
(* the event copy_done (_resolve_spec_overlap_token_ids).                  *)
(*                                                                         *)
(* A token is named by its pass, its request and its place in the path.    *)
(* Pinned blocks come from a cache: until the copy runs, a block holds what*)
(* an earlier pass left in it.                                             *)
(***************************************************************************)
EXTENDS Integers, Sequences, FiniteSets, SequencesExt

CONSTANTS
  Bs,         \* requests of the batch
  PathLen,    \* longest accepted path, bonus token included
  Stride,     \* speculative_num_draft_tokens
  SpecV2,     \* the overlap worker
  MaxPasses   \* bound on the verify passes

ASSUME HostCopyAssumption ==
  /\ {Bs, PathLen, Stride, MaxPasses} \subseteq Nat \ {0}
  /\ PathLen <= Stride
  /\ SpecV2 \in BOOLEAN

VARIABLES
  pc,        \* where the host is
  pass,      \* verify passes launched
  accepted,  \* accepted[p]: the path lengths of pass p, bonus included
  stream,    \* queued copies that have not run
  ran,       \* copies that have run
  host,      \* host[p]: the pinned tensors lens and ids of pass p
  read,      \* lengths read by the worker, V1 ids with them
  results,   \* passes whose result waits for the scheduler, with copy_done
  taken      \* taken[p]: the paths appended to the requests

copyVars == <<pc, pass, accepted, stream, ran, host, read, results, taken>>

Reqs == 1..Bs
Zeros == [r \in Reqs |-> 0]
Path(p, lens, r) == [i \in 1..lens[r] |-> <<p, r, i>>]
Flat(p, lens) == FlattenSeq([r \in Reqs |-> Path(p, lens, r)])
Slice(s, from, n) == SubSeq(s, from + 1, IF from + n < Len(s) THEN from + n ELSE Len(s))

-----------------------------------------------------------------------------
(* Mutants. *)

\* The row of an id is found with right = False.
RowLeft(ends, s) == Cardinality({r \in Reqs : ends[r] < s})

\* The scheduler does not wait for copy_done.
CopyDoneAlways(mark) == TRUE

-----------------------------------------------------------------------------
(* _pack_verified_ids_for_scheduler. *)

Ends(lens) == LET sum[r \in 0..Bs] == IF r = 0 THEN 0 ELSE sum[r - 1] + lens[r]
              IN [r \in Reqs |-> sum[r]]

\* searchsorted(ends, s, right=True): how many ends are not above s.
Row(ends, s) == Cardinality({r \in Reqs : ends[r] <= s})

\* Where id s of the flat list goes, counted from 0.
Destination(lens, s) ==
  LET row == Row(Ends(lens), s) IN row * Stride + s - (Ends(lens)[row + 1] - lens[row + 1])

PackVerifiedIds(flat, lens) ==
  [x \in 1..(Bs * Stride) |->
     LET from == {s \in 0..(Len(flat) - 1) : Destination(lens, s) = x - 1}
     IN IF from = {} THEN <<>> ELSE flat[1 + CHOOSE s \in from : TRUE]]

-----------------------------------------------------------------------------

CopyInit ==
  /\ pc = "idle" /\ pass = 0
  /\ accepted = <<>> /\ stream = <<>> /\ ran = 0 /\ host = <<>>
  /\ read = [lens |-> Zeros, ids |-> <<>>]
  /\ results = <<>> /\ taken = <<>>

\* The verify kernel, and accept_index[accept_index != -1]: its size is known
\* when the stream has drained.  The blocks of the copies that follow are
\* taken from the cache with the contents of the pass before.
Verify(lens) ==
  /\ pc = "idle" /\ pass < MaxPasses /\ stream = <<>>
  /\ Len(results) <= 1
  /\ pass' = pass + 1
  /\ accepted' = Append(accepted, lens)
  /\ host' = Append(host, IF pass = 0 THEN [lens |-> Zeros, ids |-> <<>>] ELSE host[pass])
  /\ pc' = "copy_lens"
  /\ UNCHANGED <<stream, ran, read, results, taken>>

Queue(field, val) == stream' = Append(stream, [pass |-> pass, field |-> field, val |-> val])

CopyLens ==
  /\ pc = "copy_lens"
  /\ Queue("lens", accepted[pass])
  /\ pc' = IF SpecV2 THEN "read_lens" ELSE "copy_ids"
  /\ UNCHANGED <<pass, accepted, ran, host, read, results, taken>>

\* V1: the flat ids; V2: the packed rows, after the worker's own tolist().
CopyIds ==
  /\ pc = "copy_ids"
  /\ LET flat == Flat(pass, accepted[pass])
     IN Queue("ids", IF SpecV2 THEN PackVerifiedIds(flat, accepted[pass]) ELSE flat)
  /\ pc' = IF SpecV2 THEN "record" ELSE "read_lens"
  /\ UNCHANGED <<pass, accepted, ran, host, read, results, taken>>

\* accept_lens_cpu.tolist(): host memory, nothing is waited for.
ReadLens ==
  /\ pc = "read_lens"
  /\ read' = [read EXCEPT !.lens = host[pass].lens]
  /\ pc' = IF SpecV2 THEN "copy_ids" ELSE "read_ids"
  /\ UNCHANGED <<pass, accepted, stream, ran, host, results, taken>>

\* compact_verified_id_cpu.tolist() and the loop over the requests.
FillRequests ==
  /\ pc = "read_ids"
  /\ LET ids == host[pass].ids
         from == Ends(read.lens)
     IN taken' = Append(taken, [r \in Reqs |->
                   Slice(ids, from[r] - read.lens[r], read.lens[r])])
  /\ pc' = "idle"
  /\ UNCHANGED <<pass, accepted, stream, ran, host, read, results>>

\* copy_done.record(): the result waits behind every copy queued so far.
Record ==
  /\ pc = "record"
  /\ results' = Append(results, [pass |-> pass, mark |-> ran + Len(stream)])
  /\ pc' = "idle"
  /\ UNCHANGED <<pass, accepted, stream, ran, host, read, taken>>

CopyDone(mark) == ran >= mark

\* copy_done.synchronize() and _resolve_spec_overlap_token_ids, one launch
\* later, or when there is nothing left to launch.
Process ==
  /\ pc = "idle" /\ results # <<>>
  /\ Len(results) = 2 \/ pass = MaxPasses
  /\ LET p == Head(results).pass
         got == host[p]
     IN /\ CopyDone(Head(results).mark)
        /\ taken' = Append(taken, [r \in Reqs |->
                      Slice(got.ids, (r - 1) * Stride, got.lens[r])])
  /\ results' = Tail(results)
  /\ UNCHANGED <<pc, pass, accepted, stream, ran, host, read>>

\* The device runs the next copy.
Device ==
  /\ stream # <<>>
  /\ LET c == Head(stream) IN host' = [host EXCEPT ![c.pass][c.field] = c.val]
  /\ stream' = Tail(stream)
  /\ ran' = ran + 1
  /\ UNCHANGED <<pc, pass, accepted, read, results, taken>>

Launch ==
  \/ \E lens \in [Reqs -> 1..PathLen] : Verify(lens)
  \/ CopyLens
  \/ CopyIds
  \/ ReadLens

\* The synchronous worker and the overlap worker.
NextSync == Launch \/ FillRequests \/ Device
NextOverlap == Launch \/ Record \/ Process \/ Device

SpecSync == CopyInit /\ [][NextSync]_copyVars
SpecOverlap == CopyInit /\ [][NextOverlap]_copyVars

-----------------------------------------------------------------------------
(* Properties. *)

\* Every request gets the path the target accepted for it, pass by pass
\* (_fill_requests; _pack_verified_ids_for_scheduler and
\* _resolve_spec_overlap_token_ids).
PathsTaken ==
  \A p \in DOMAIN taken : \A r \in Reqs : taken[p][r] = Path(p, accepted[p], r)
=============================================================================
