---------------------------- MODULE MCDraftTree -----------------------------
EXTENDS DraftTree

\* rank_slot_topk of three classes: one candidate, two, and give up.
MCRankSlotTopk == [r \in 0..2 |-> <<1, 2, 0>>[r + 1]]

\* A draw: its rank classes, the order of the two tokens in each slot and the
\* log probabilities of the two in each slot.
DrawsOf(ranks, orders, lps) ==
  {[k \in 1..K |-> [rank |-> r[k],
                    top |-> <<[token |-> o[k][1], lp |-> l[k][1]],
                              [token |-> o[k][2], lp |-> l[k][2]]>>]] :
     r \in ranks, o \in orders, l \in lps}

\* The tokens are interchangeable: the first slot prefers token 1.
FirstOrders == {<<1, 2>>} \X {<<1, 2>>, <<2, 1>>}
AllOrders == {<<1, 2>>, <<2, 1>>} \X {<<1, 2>>, <<2, 1>>}
Ranks1 == {<<0, 0>>, <<0, 1>>, <<0, 2>>, <<1, 2>>, <<2, 1>>}

\* A token of probability 1 (a log-softmax rounded to 0) scores as its parent
\* does: uncertain and certain first slots before an uncertain or certain second.
Lps1 == {<<<<-1, -2>>, <<0, -2>>>>, <<<<-1, -6>>, <<-1, -1>>>>, <<<<0, -2>>, <<0, -1>>>>}
Likely == <<<<-1, -2>>, <<0, -1>>>>
Unlikely == <<<<-2, -3>>, <<-1, -1>>>>

\* Below a leaf: a full block the draft model is more or less sure of (a node two
\* leaves draft may win in the block of either) and a bare chain.
MCDraws1 == DrawsOf(Ranks1, FirstOrders, Lps1)
MCDraws2 == DrawsOf({<<1, 1>>}, AllOrders, {Likely})
              \cup DrawsOf({<<1, 1>>}, FirstOrders, {Unlikely})
              \cup DrawsOf({<<2, 0>>}, {<<<<1, 2>>, <<1, 2>>>>}, {Likely})
=============================================================================
