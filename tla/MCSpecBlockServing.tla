------------------------- MODULE MCSpecBlockServing -------------------------
(* SpecBlockServing for TLC. *)
EXTENDS SpecBlockServing, TLC

CONSTANT Long   \* the requests with a prompt of three tokens, more than one chunk

MCPromptLen(r) == IF r \in Long THEN 3 ELSE 1
=============================================================================
