------------------------- MODULE SpecBlockReference -------------------------
(***************************************************************************)
(* The single-request SpecBlock-Shift loop of the Hugging Face harness     *)
(* (benchmarks_hf/algorithms/_specblock_base.py), one independent copy per *)
(* request: what the draft model's cross-attention cache must hold, with   *)
(* no batch, no pages and no scheduler.                                    *)
(*                                                                         *)
(* Tokens are named by their index in the request's sequence.  A cache     *)
(* entry is <<r, tok, pos>>: computed for request r from token tok at      *)
(* rotary position pos.  Every token makes a block of K entries, at K      *)
(* consecutive positions.                                                  *)
(***************************************************************************)
EXTENDS Integers, Sequences

CONSTANTS
  Reqs,       \* the requests
  K,          \* slots per block
  MaxAccept,  \* the deepest path a tree offers
  MaxTokens   \* bound on the length of a sequence

\* session[r] is Off or the state of r's loop: n tokens are known, the last
\* one the root of the next tree; the cache; and draft_position.
VARIABLE session

Off == [n |-> 0, cache |-> <<>>, position |-> 0]

\* The K entries made from token tok, the first one at position pos.
Block(r, tok, pos) == [k \in 1..K |-> <<r, tok, pos + k - 1>>]

\* Blocks 1..n one after the other; B(i) is the i-th.
Blocks(n, B(_)) == [j \in 1..(n * K) |-> B((j - 1) \div K + 1)[((j - 1) % K) + 1]]

\* prefill_and_draft over the tokens from+1..to: block i sees the token that
\* follows position i, and the block of the first draft repeats the newest one.
Prefilled(r, from, to) ==
  LET S == to - from
      Tok(i) == IF i <= S THEN from + i + 1 ELSE to + 1
      B(i) == Block(r, Tok(i), i)
  IN  [n |-> to + 1, cache |-> Blocks(S + 1, B), position |-> S + 1]

\* pop_cache drops the root's block, _build_draft_tree drafts from the token the
\* target chose instead; draft_position stays.
Rejected(r, s) ==
  [n |-> s.n + 1,
   cache |-> SubSeq(s.cache, 1, Len(s.cache) - K) \o Block(r, s.n + 1, s.position + 1),
   position |-> s.position]

\* update_cache_and_draft with a accepted tokens: the tokens after the first
\* accepted one, then the new root twice, from position draft_position + 1 on.
Accepted(r, s, a) ==
  LET start == s.position + 1
      Tok(i) == IF i < a THEN s.n + i + 1 ELSE s.n + a + 1
      B(i) == Block(r, Tok(i), start + i)
  IN  [n |-> s.n + a + 1,
       cache |-> s.cache \o Blocks(a + 1, B),
       position |-> start + a + 1]

Init == session = [r \in Reqs |-> Off]

\* One move of one request's loop, from s to t.
Move(r, s, t) ==
  \/ t = s
  \/ t = Off
  \/ s = Off /\ \E to \in 1..MaxTokens : \E from \in 0..(to - 1) : t = Prefilled(r, from, to)
  \/ s # Off /\ t = Rejected(r, s)
  \/ s # Off /\ \E a \in 1..MaxAccept : t = Accepted(r, s, a)

\* The requests move independently, any number of them at a time.
Next ==
  /\ DOMAIN session' = Reqs
  /\ \A r \in Reqs : Move(r, session[r], session'[r])

Spec == Init /\ [][Next]_session
=============================================================================
