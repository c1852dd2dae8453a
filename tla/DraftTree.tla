----------------------------- MODULE DraftTree ------------------------------
(***************************************************************************)
(* The draft tree of one request, from the draft model's predictions to    *)
(* the path the target accepts.                                            *)
(*                                                                         *)
(* Every step is one kernel (or one torch call) of the captured draft      *)
(* graph, in stream order: the first block (a greedy chain of K tokens and *)
(* alternatives beside it), the choice of the roots that are expanded, the *)
(* second block, the merge of nodes that spell the same path, one depth at *)
(* a time, the choice of the Budget best nodes, the packed tree with its   *)
(* links, and the target's greedy walk over them.                          *)
(*                                                                         *)
(* A raw node is a record: token, parent (the index of a raw node, or Root *)
(* for the request's last token, -1 in the code) and cumulative log        *)
(* probability.  Log probabilities are integers <= 0; NegInf is -inf.      *)
(* The adaptive slot modes are off (ADAPTIVE_SLOT0 = ADAPTIVE_ALL = 0).    *)
(***************************************************************************)
EXTENDS Integers, Sequences, FiniteSets, SequencesExt, RowLists

CONSTANTS
  Tokens,
  K,             \* slots of a block
  BeamWidth,     \* beam_width, the candidates of the first slot
  RankSlotTopk,  \* rank_slot_topk: candidates for each rank class
  MaxBlocks,     \* max_blocks
  ExpandBucket,  \* expand_bucket: roots of the second block
  Budget,        \* total_tokens: nodes of the packed tree below the root
  Draws1,        \* what the draft model may predict for the first block
  Draws2,        \* and for the block below a leaf
  LpRange        \* bound on the cumulative log probabilities

\* A draw gives each slot its rank class and its candidates, best first.
Slots == 1..K
MaxTopk == Max({BeamWidth} \cup {RankSlotTopk[i] : i \in DOMAIN RankSlotTopk})
GiveUpClass == Max(DOMAIN RankSlotTopk)

IsDraw(draw) ==
  /\ DOMAIN draw = Slots
  /\ \A k \in Slots :
       LET top == draw[k].top IN
         /\ draw[k].rank \in DOMAIN RankSlotTopk
         /\ Len(top) = MaxTopk
         /\ \A i, j \in DOMAIN top : i < j => /\ top[i].token # top[j].token
                                              /\ top[i].lp >= top[j].lp
         /\ \A i \in DOMAIN top : top[i].token \in Tokens /\ top[i].lp <= 0

ASSUME DraftTreeAssumption ==
  /\ {K, BeamWidth, ExpandBucket, Budget} \subseteq Nat \ {0}
  /\ MaxBlocks \in {1, 2}
  /\ LpRange \in Nat
  /\ \A draw \in Draws1 \cup Draws2 : IsDraw(draw)

VARIABLES
  phase,    \* the kernel that runs next
  raw,      \* tree_buf: the raw nodes
  pend,     \* pend_buf: the nodes a second block may start from
  depths,   \* depth of every raw node, as the merge computed it
  d,        \* depth the merge has reached
  drafted,  \* history: the paths drafted and the best probability of each
  kept,     \* kept_idx: raw nodes that are packed, in increasing order
  out,      \* the packed tree
  cur,      \* VerifyTreeGreedy: cur_index
  last,     \* last_accepted_retrive_idx
  target    \* target_predict at last

tree == <<raw, pend, depths, d, drafted, kept, out>>
walk == <<cur, last, target>>
vars == <<phase, tree, walk>>

Root == 0
MinLp == -LpRange
NegInf == MinLp - 1
NoWinner == -1    \* winner_pid when no node of the group won (0xFFFFFFFF)
NoLink == -1
Nodes == DOMAIN raw
NoOut == [n |-> 0]

-----------------------------------------------------------------------------
(* Mutants. *)

\* Children of a merged node keep their parent.
RedirectedNever(i) == raw[i].parent

\* The mask row and the depth of a node stop at its parent.
AncestorsNearest(i) == {i} \cup ({raw[i].parent} \ {Root})

\* The last child comes first, the siblings behind it are never linked.
NextTokenLast(parent, n, q) ==
  LET s == {p \in 1..n : parent[p] = q} IN IF s = {} THEN NoLink ELSE Max(s)

\* The siblings before a node are candidates too.
NextSiblingAround(parent, n, q) ==
  LET s == {p \in 1..n : p # q /\ parent[p] = parent[q]} IN IF s = {} THEN NoLink ELSE Min(s)

-----------------------------------------------------------------------------
(* Raw nodes. *)

\* compute_slot_topks_block1_gpu_batched: beam_width for the first slot, the
\* rank table for the others, nothing from the slot that gives up.
SlotTopksBlock1(draw) ==
  [k \in Slots |->
     IF RankSlotTopk[GiveUpClass] = 0 /\ \E j \in 2..k : draw[j].rank = GiveUpClass
     THEN 0
     ELSE IF k = 1 THEN BeamWidth ELSE RankSlotTopk[draw[k].rank]]

\* compute_slot_topks_bfs_gpu.
SlotTopksBfs(draw) == [k \in Slots |-> RankSlotTopk[draw[k].rank]]

\* cum_greedy_lps.
CumGreedy(draw) ==
  LET cum[k \in 0..K] == IF k = 0 THEN 0 ELSE cum[k - 1] + draw[k].top[1].lp IN cum

\* The parent of what slot k predicts: the greedy token before it.
AltParent(first, anchor, k) == IF k = 1 THEN anchor ELSE first + k - 2

\* The greedy chain that starts at index first below anchor.
Chain(draw, first, anchor, lp) ==
  [k \in Slots |-> [token |-> draw[k].top[1].token,
                    parent |-> IF k = 1 THEN anchor ELSE first + k - 2,
                    lp |-> lp + CumGreedy(draw)[k]]]

\* The alternatives to that chain, slot by slot.
Alternatives(draw, topks, first, anchor, lp) ==
  FlattenSeq([k \in Slots |->
    [j \in 1..(Max({topks[k], 1}) - 1) |->
       [token |-> draw[k].top[j + 1].token,
        parent |-> AltParent(first, anchor, k),
        lp |-> lp + CumGreedy(draw)[k - 1] + draw[k].top[j + 1].lp]]])

\* The first rank that is not 0 is the give-up class.
GivesUp(draw) ==
  \E k \in Slots : /\ draw[k].rank = GiveUpClass
                   /\ \A j \in 1..(k - 1) : draw[j].rank = 0

\* The pending nodes: the greedy tokens of slots with alternatives, the
\* alternatives, and the end of the chain when it is not among them.
Pending(draw, topks, alts) ==
  SelectSeq([k \in Slots |-> k], LAMBDA k : topks[k] > 1)
    \o [i \in 1..alts |-> K + i]
    \o (IF ~GivesUp(draw) /\ topks[K] <= 1 THEN <<K>> ELSE <<>>)

\* The token path from the request's last token to raw node i.
PathIn(nodes) ==
  LET path[i \in 0..Len(nodes)] ==
        IF i = Root THEN <<>> ELSE Append(path[nodes[i].parent], nodes[i].token)
  IN path

\* Every drafted path with the best probability a node gives it.
BestOf(nodes) ==
  LET path == PathIn(nodes)
      paths == {path[i] : i \in DOMAIN nodes}
  IN [p \in paths |-> Max({nodes[i].lp : i \in {j \in DOMAIN nodes : path[j] = p}})]

Init ==
  /\ phase = "block1"
  /\ raw = <<>> /\ pend = <<>> /\ depths = <<>> /\ d = 0 /\ kept = <<>>
  /\ drafted = <<>> /\ out = NoOut
  /\ cur = NoLink /\ last = Root /\ target = NoLink

\* _block1_mega_kernel_batched.
Block1(draw) ==
  LET topks == SlotTopksBlock1(draw)
      alts == Alternatives(draw, topks, 1, Root, 0)
  IN /\ phase = "block1"
     /\ raw' = Chain(draw, 1, Root, 0) \o alts
     /\ pend' = Pending(draw, topks, Len(alts))
     /\ phase' = IF MaxBlocks = 1 THEN "walk_depths" ELSE "select"
     /\ UNCHANGED <<depths, d, drafted, kept, out, walk>>

\* torch.topk over the pending probabilities: best first, ties in any order.
TopkOrders(m) ==
  {s \in [1..m -> DOMAIN pend] :
     /\ \A i, j \in 1..m : i # j => s[i] # s[j]
     /\ \A i, j \in 1..m : i < j => raw[pend[s[i]]].lp >= raw[pend[s[j]]].lp
     /\ \A i \in 1..m, j \in DOMAIN pend \ {s[x] : x \in 1..m} :
          raw[pend[s[i]]].lp >= raw[pend[j]].lp}

Select ==
  /\ phase = "select"
  /\ \E s \in TopkOrders(Min({ExpandBucket, Len(pend)})) :
       pend' = [i \in DOMAIN s |-> pend[s[i]]]
  /\ phase' = "block2"
  /\ UNCHANGED <<raw, depths, d, drafted, kept, out, walk>>

\* _bfs_scatter_kernel_flat: the chains of all leaves, then the alternatives
\* of all leaves.  draws[i] is what the draft model predicts below leaf i.
Block2(draws) ==
  LET n == Len(raw)
      First(i) == n + (i - 1) * K + 1
      chains == [i \in DOMAIN pend |-> Chain(draws[i], First(i), pend[i], raw[pend[i]].lp)]
      alts == [i \in DOMAIN pend |->
                 Alternatives(draws[i], SlotTopksBfs(draws[i]), First(i), pend[i], raw[pend[i]].lp)]
  IN /\ phase = "block2"
     /\ raw' = raw \o FlattenSeq(chains) \o FlattenSeq(alts)
     /\ phase' = "walk_depths"
     /\ UNCHANGED <<pend, depths, d, drafted, kept, out, walk>>

-----------------------------------------------------------------------------
(* _dedup_tree_rows_by_depth_kernel. *)

\* The static depths, from the parents as they were drafted.
WalkDepths ==
  /\ phase = "walk_depths"
  /\ LET path == PathIn(raw) IN depths' = [i \in Nodes |-> Len(path[i]) - 1]
  /\ drafted' = BestOf(raw)
  /\ d' = 1
  /\ phase' = "merge"
  /\ UNCHANGED <<raw, pend, kept, out, walk>>

AtDepth == {i \in Nodes : depths[i] = d /\ raw[i].lp # NegInf}
Group(i) == {j \in AtDepth : raw[j].parent = raw[i].parent /\ raw[j].token = raw[i].token}

\* combined: the complemented bits of the probability above the complemented
\* node index, as a signed word.  The bits of a negative float have the sign
\* bit set, so their complement is positive and grows with the probability;
\* the bits of 0.0 are 0, and their complement makes the word negative.
Width == Len(raw) + 1
Combined(i) ==
  (IF raw[i].lp = 0 THEN -1 ELSE raw[i].lp - MinLp + 1) * Width + (Width - i)

\* Mutant: the least likely node of a group wins.
WinnerCombinedMin(i) == Min({Combined(j) : j \in Group(i)})

\* atomic_max into a cell that starts at 0.
WinnerCombined(i) == Max({0} \cup {Combined(j) : j \in Group(i)})
WinnerPid(i) ==
  LET won == {j \in Group(i) : Combined(j) = WinnerCombined(i)} IN
    IF won = {} THEN NoWinner ELSE CHOOSE j \in won : TRUE
Merged(i) == i \in AtDepth /\ Combined(i) # WinnerCombined(i)

\* The parent of node i after its parent's depth has been merged.
Redirected(i) ==
  IF raw[i].parent # Root /\ Merged(raw[i].parent) THEN WinnerPid(raw[i].parent)
  ELSE raw[i].parent

\* A parent that is no node is read out of bounds: nothing is said about
\* what follows.
InBounds == \A i \in Nodes : raw[i].parent # NoWinner

MergeDepth ==
  /\ phase = "merge" /\ d <= K * MaxBlocks /\ InBounds
  /\ raw' = [i \in Nodes |-> [raw[i] EXCEPT !.parent = Redirected(i),
                                            !.lp = IF Merged(i) THEN NegInf ELSE @]]
  /\ d' = d + 1
  /\ UNCHANGED <<phase, pend, depths, drafted, kept, out, walk>>

-----------------------------------------------------------------------------
(* finalize_one_block_fixed_batched. *)

ScoredNodes == {i \in Nodes : raw[i].lp # NegInf}

\* torch.topk over the scores: the m best, ties broken in any way.
BestNodes(m) ==
  LET Better(i) == {j \in ScoredNodes : raw[j].lp > raw[i].lp}
      sure == {i \in ScoredNodes : Cardinality({j \in ScoredNodes : raw[j].lp >= raw[i].lp}) <= m}
      tied == {i \in ScoredNodes \ sure : Cardinality(Better(i)) < m}
  IN {sure \cup s : s \in kSubset(m - Cardinality(sure), tied)}

\* Mutant: the root is not counted.
TopkSetsOver == BestNodes(Min({Budget + 1, Cardinality(ScoredNodes)}))
TopkSets == BestNodes(Min({Budget, Cardinality(ScoredNodes)}))

KeptOrder(S) == Ascending(S)

Prune ==
  /\ phase = "merge" /\ d > K * MaxBlocks /\ InBounds
  /\ \E S \in TopkSets : kept' = KeptOrder(S)
  /\ phase' = "pack"
  /\ UNCHANGED <<raw, pend, depths, d, drafted, out, walk>>

\* The raw parent's place in kept_idx; a parent that is not found is the root.
TopoParent(p) ==
  LET place == {q \in DOMAIN kept : kept[q] = raw[kept[p]].parent}
  IN IF place = {} THEN Root ELSE Max(place)

\* The raw nodes from i up: what its depth counts and its mask row shows.
Ancestors(i) ==
  LET up[j \in 0..Len(raw)] == IF j = Root THEN {} ELSE {j} \cup up[raw[j].parent] IN up[i]

\* First child and next sibling, in packed order.
NextToken(parent, n, q) ==
  LET s == {p \in 1..n : parent[p] = q} IN IF s = {} THEN NoLink ELSE Min(s)
NextSibling(parent, n, q) ==
  LET s == {p \in 1..n : p > q /\ parent[p] = parent[q]} IN IF s = {} THEN NoLink ELSE Min(s)

\* _finalize_one_block_fixed_kernel.
Pack ==
  LET n == Len(kept)
      parent == [p \in 1..n |-> TopoParent(p)]
  IN /\ phase = "pack"
     /\ out' = [n |-> n,
                token |-> [p \in 1..n |-> raw[kept[p]].token],
                parent |-> parent,
                lp |-> [p \in 1..n |-> raw[kept[p]].lp],
                depth |-> [p \in 1..n |-> Cardinality(Ancestors(kept[p]))],
                mask |-> [p \in 1..n |-> {q \in 1..n : kept[q] \in Ancestors(kept[p])}],
                next_token |-> [q \in 0..n |-> NextToken(parent, n, q)],
                next_sibling |-> [q \in 1..n |-> NextSibling(parent, n, q)]]
     /\ phase' = "predict"
     /\ UNCHANGED <<raw, pend, depths, d, drafted, kept, walk>>

-----------------------------------------------------------------------------
(* VerifyTreeGreedy: the target's choice after the node accepted last, then *)
(* its children one link at a time.                                         *)

Predict(t) ==
  /\ phase = "predict"
  /\ target' = t
  /\ cur' = out.next_token[last]
  /\ phase' = "walk"
  /\ UNCHANGED <<tree, last>>

Accept ==
  /\ phase = "walk" /\ cur # NoLink /\ out.token[cur] = target
  /\ last' = cur
  /\ phase' = "predict"
  /\ UNCHANGED <<tree, cur, target>>

Skip ==
  /\ phase = "walk" /\ cur # NoLink /\ out.token[cur] # target
  /\ cur' = out.next_sibling[cur]
  /\ UNCHANGED <<phase, tree, last, target>>

Stop ==
  /\ phase = "walk" /\ cur = NoLink
  /\ phase' = "done"
  /\ UNCHANGED <<tree, walk>>

Next ==
  \/ \E draw \in Draws1 : Block1(draw)
  \/ Select
  \/ \E draws \in [DOMAIN pend -> Draws2] : Block2(draws)
  \/ WalkDepths
  \/ MergeDepth
  \/ Prune
  \/ Pack
  \/ \E t \in Tokens : Predict(t)
  \/ Accept
  \/ Skip
  \/ Stop

Spec == Init /\ [][Next]_vars
FairSpec == Spec /\ WF_vars(Next)

-----------------------------------------------------------------------------
(* Properties. *)

Packed == phase \in {"predict", "walk", "done"}
PackedPath ==
  LET path[p \in 0..out.n] ==
        IF p = Root THEN <<>> ELSE Append(path[out.parent[p]], out.token[p])
  IN path
PackedAncestors ==
  LET up[p \in 0..out.n] == IF p = Root THEN {} ELSE {p} \cup up[out.parent[p]] IN up

\* Type invariant of the packed tree (_finalize_one_block_fixed_kernel): it fits
\* its buffer, and links and parents are nodes of the tree.  A parent need not
\* come before its child: the winner of a merge may stand behind the losers'
\* children.
TreeTypeOK ==
  /\ phase \in {"block1", "select", "block2", "walk_depths", "merge", "pack",
                "predict", "walk", "done"}
  /\ \A i \in Nodes : raw[i].parent \in {NoWinner, Root} \cup Nodes
  /\ Packed => /\ out.n \in 0..Budget
               /\ \A p \in 1..out.n : out.parent[p] \in (0..out.n) \ {p}
               /\ cur \in {NoLink} \cup 1..out.n

\* What goes wrong with certainty (line 1552): a cumulative probability of 1 below
\* the first depth has a word below 0, so its node loses the merge, to a less
\* likely duplicate or to nobody.
Certain == {path \in DOMAIN drafted : Len(path) >= 2 /\ drafted[path] = 0}

\* What goes wrong with ties (line 1654): a node kept without its parent is
\* linked below the root.
Orphans == {p \in 1..out.n : out.parent[p] = Root /\ raw[kept[p]].parent # Root}

\* The budget is spent on the best paths: the packed nodes spell distinct
\* paths the draft model drafted, each with its best probability, as many as
\* the budget allows, and no path left out is better than one that is packed
\* (dedup before top-k, finalize_one_block_fixed_batched).  Only a certain path
\* may be lost, or kept for less than it is worth.
BestPathsPacked ==
  Packed =>
    LET path == PathIn(raw)
        paths == {path[kept[p]] : p \in 1..out.n}
    IN /\ \A p \in 1..out.n :
            /\ path[kept[p]] \in DOMAIN drafted
            /\ out.lp[p] = drafted[path[kept[p]]] \/ path[kept[p]] \in Certain
       /\ Cardinality(paths) = out.n
       /\ out.n >= Min({Budget, Cardinality(DOMAIN drafted \ Certain)})
       /\ \A q \in DOMAIN drafted \ (Certain \cup paths), p \in 1..out.n :
            drafted[q] <= out.lp[p]

\* The comment "Top-k cumulative probability is ancestor-closed" (line 1654) holds
\* up to ties: a node is torn from its parent only by a full budget, and only when
\* the two score the same or the parent's path was certain and lost.  Everywhere
\* else the three views of the packed tree agree: the mask row and the position
\* of a node, read off the raw parents the merge redirected, are those of its
\* ancestors over the packed parents the links are made from.
TornOnlyByTies ==
  Packed =>
    /\ \A p \in Orphans :
         /\ out.n = Budget
         /\ \/ raw[raw[kept[p]].parent].lp = out.lp[p]
            \/ PathIn(raw)[raw[kept[p]].parent] \in Certain
    /\ \A p \in 1..out.n :
         PackedAncestors[p] \cap Orphans = {} =>
           /\ out.depth[p] = Len(PackedPath[p])
           /\ out.mask[p] = PackedAncestors[p]

\* The target's walk misses nothing: when it stops in a tree that is not torn, no
\* packed node spells the accepted path followed by the target's choice.
WalkComplete ==
  phase = "done" /\ Orphans = {} =>
    \A p \in 1..out.n : PackedPath[p] # Append(PackedPath[last], target)

\* The walk of a packed tree always ends (the links have no cycle).
WalkEnds == phase = "pack" ~> phase = "done"
=============================================================================
