----------------------------- MODULE MCTargetKV -----------------------------
(* TargetKV for TLC. *)
EXTENDS TargetKV
CONSTANTS r1, r2

\* Prompts that end inside a page of two slots and on its boundary.
MCPrompt(r) == IF r = r1 THEN 1 ELSE 2

Mode(v2, chain, page_size, pages, max_steps) ==
  [v2 |-> v2, chain |-> chain, page_size |-> page_size, pages |-> pages,
   max_steps |-> max_steps]

\* The synchronous worker on trees, by the token and by the page, and the overlap
\* worker on chains.
MCModes == {Mode(FALSE, FALSE, 1, 9, 5), Mode(FALSE, FALSE, 2, 6, 7), Mode(TRUE, TRUE, 2, 10, 6)}

\* The overlap worker on trees.
MCTreeModes == {Mode(TRUE, FALSE, 1, 20, 4)}
=============================================================================
