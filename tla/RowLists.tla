------------------------------ MODULE RowLists ------------------------------
(***************************************************************************)
(* Lists the code keeps per row of a batch or per slot of a pool, and the  *)
(* two things it does with index lists: it sorts them, and it gathers the  *)
(* elements they name.                                                     *)
(***************************************************************************)
EXTENDS Integers, Sequences, FiniteSets

\* The elements of a list.
Elements(seq) == {seq[i] : i \in DOMAIN seq}

\* A set of numbers as a sorted list.
Ascending(S) ==
  [i \in 1..Cardinality(S) |->
     CHOOSE s \in S : Cardinality({t \in S : t < s}) = i - 1]

\* [x[i] for i in keep].
Gather(seq, keep) == [i \in DOMAIN keep |-> seq[keep[i]]]
=============================================================================
