------------------------- MODULE MCSpecBlockOverlap -------------------------
(* SpecBlockOverlap for TLC. *)
EXTENDS SpecBlockOverlap, TLC

CONSTANT Long   \* the requests with a prompt of more than one chunk

Symmetry == Permutations(Reqs)

MCPromptLen(r) == IF r \in Long THEN 4 ELSE 1
=============================================================================
