-------------------------- MODULE MCSpecBlockKVPool --------------------------
(* SpecBlockKVPool for TLC: two requests, a pool that grows twice.         *)
EXTENDS SpecBlockKVPool, TLC

\* Requests are interchangeable.
ClientSymmetry == Permutations(Clients)
=============================================================================
