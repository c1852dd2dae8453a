---------------------------- MODULE TokenStream ----------------------------
(***************************************************************************)
(* What the scheduler promises a client, with no batches, no device and no *)
(* results in flight: the tokens of a request arrive in the order in which *)
(* they were generated, none twice and none left out, until the request is *)
(* done; nothing arrives after that.                                       *)
(*                                                                         *)
(* A token is named by its index in its request, prompt included: the      *)
(* index says which context the target computed it from.                   *)
(***************************************************************************)
EXTENDS Naturals, Sequences

CONSTANTS
  Reqs,          \* requests
  PromptLen(_),  \* length of a request's prompt
  MaxNew         \* max_new_tokens

VARIABLES
  out,   \* out[r]: the tokens delivered for r
  done   \* done[r]: r is finished

Init ==
  /\ out = [r \in Reqs |-> <<>>]
  /\ done = [r \in Reqs |-> FALSE]

\* Request r gets the tokens that follow those it has, or none.
Extends(r) ==
  /\ Len(out'[r]) >= Len(out[r])
  /\ \A k \in DOMAIN out'[r] : out'[r][k] = PromptLen(r) + k

\* One result is delivered: it may hold tokens for many requests.
Deliver ==
  /\ DOMAIN out' = Reqs /\ DOMAIN done' = Reqs
  /\ \A r \in Reqs :
       /\ Extends(r)
       /\ done[r] => done'[r] /\ out'[r] = out[r]
       /\ Len(out'[r]) >= MaxNew => done'[r]

Spec == Init /\ [][Deliver]_<<out, done>>
=============================================================================
