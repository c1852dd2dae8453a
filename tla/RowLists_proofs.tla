-------------------------- MODULE RowLists_proofs ---------------------------
(***************************************************************************)
(* Lemmas about lists of rows: induction over the rows, lists without      *)
(* repetition, sorting, gathering and flattening.                          *)
(***************************************************************************)
EXTENDS RowLists, SequencesExt, SequenceTheorems, FiniteSetTheorems, TLAPS

Positive == Nat \ {0}

\* A list without repetition.
Unique(s) == \A i, j \in 1..Len(s) : s[i] = s[j] => i = j

-----------------------------------------------------------------------------
(* Induction. *)

\* Induction up to n, over a set instead of a predicate.
LEMMA UpTo ==
  ASSUME NEW n \in Nat, NEW S, 0 \in S, \A i \in 0..(n - 1) : i \in S => i + 1 \in S
  PROVE  0..n \subseteq S
<1> DEFINE B == {i \in 0..n : i \notin S}
<1>1. SUFFICES ASSUME B # {} PROVE FALSE
  OBVIOUS
<1>2. B \in SUBSET Nat
  OBVIOUS
<1> HIDE DEF B
<1>3. PICK m \in B : \A j \in B : ~ (<<j, m>> \in OpToRel(<, Nat))
  BY <1>1, <1>2, NatLessThanWellFounded, WFMin
<1>4. m \in 0..n /\ m \notin S /\ m # 0
  BY DEF B
<1>5. m - 1 \in Nat /\ m \in Nat /\ m - 1 \in 0..(n - 1) /\ m - 1 < m /\ (m - 1) + 1 = m
  BY <1>4
<1>6. m - 1 \notin S
  BY <1>4, <1>5
<1>7. m - 1 \in B
  BY <1>4, <1>5, <1>6 DEF B
<1>8. <<m - 1, m>> \in OpToRel(<, Nat)
  <2>1. <<m - 1, m>> \in Nat \X Nat /\ <<m - 1, m>>[1] = m - 1 /\ <<m - 1, m>>[2] = m
    BY <1>5
  <2> QED BY <1>5, <2>1, Zenon DEF OpToRel
<1> QED BY <1>3, <1>7, <1>8

\* A finite set of numbers has a least element.
LEMMA LeastOf ==
  ASSUME NEW S \in SUBSET Nat, S # {}
  PROVE  \E m \in S : \A j \in S : m <= j
<1>1. PICK m \in S : \A j \in S : ~ (<<j, m>> \in OpToRel(<, Nat))
  BY NatLessThanWellFounded, WFMin
<1>2. ASSUME NEW j \in S PROVE ~ (j < m)
  <2>1. <<j, m>> \in Nat \X Nat /\ <<j, m>>[1] = j /\ <<j, m>>[2] = m
    OBVIOUS
  <2>2. j < m => <<j, m>> \in OpToRel(<, Nat)
    BY <2>1, Zenon DEF OpToRel
  <2> QED BY <1>1, <2>2
<1> QED BY <1>2

\* The longest of n > 0 lengths.
LEMMA LargestOf ==
  ASSUME NEW n \in Nat, n > 0, NEW f \in [1..n -> Nat]
  PROVE  \E i \in 1..n : \A j \in 1..n : f[j] <= f[i]
<1> DEFINE S == {k \in 0..(n - 1) : \E i \in 1..(k + 1) : \A j \in 1..(k + 1) : f[j] <= f[i]}
<1>1. 0 \in S
  <2>1. 1 \in 1..(0 + 1) /\ \A j \in 1..(0 + 1) : j = 1 /\ f[j] \in Nat
    OBVIOUS
  <2> QED BY <2>1
<1>2. ASSUME NEW k \in 0..((n - 1) - 1), k \in S PROVE k + 1 \in S
  <2>1. PICK i \in 1..(k + 1) : \A j \in 1..(k + 1) : f[j] <= f[i]
    BY <1>2
  <2>2. k + 2 \in 1..n /\ f[k + 2] \in Nat /\ i \in 1..n /\ f[i] \in Nat
        /\ k + 2 \in 1..((k + 1) + 1) /\ i \in 1..((k + 1) + 1) /\ k + 1 \in 0..(n - 1)
    OBVIOUS
  <2>3. ASSUME NEW j \in 1..((k + 1) + 1) PROVE j = k + 2 \/ (j \in 1..(k + 1) /\ f[j] \in Nat)
    OBVIOUS
  <2>4. CASE f[k + 2] <= f[i]
    <3>1. \A j \in 1..((k + 1) + 1) : f[j] <= f[i]
      BY <2>1, <2>3, <2>4
    <3> QED BY <2>2, <3>1
  <2>5. CASE f[i] < f[k + 2]
    <3>1. \A j \in 1..((k + 1) + 1) : f[j] <= f[k + 2]
      BY <2>1, <2>2, <2>3, <2>5
    <3> QED BY <2>2, <3>1
  <2> QED BY <2>2, <2>4, <2>5
<1> HIDE DEF S
<1>3. 0..(n - 1) \subseteq S
  <2>1. n - 1 \in Nat
    OBVIOUS
  <2> QED BY <1>1, <1>2, <2>1, UpTo
<1>4. n - 1 \in S /\ (n - 1) + 1 = n
  BY <1>3
<1> QED BY <1>4 DEF S

-----------------------------------------------------------------------------
(* Lists without repetition. *)

\* Joining two lists without common elements and without repetition.
LEMMA ConcatUnique ==
  ASSUME NEW s \in Seq(Positive), NEW t \in Seq(Positive),
         Unique(s), Unique(t), Elements(s) \cap Elements(t) = {}
  PROVE  /\ s \o t \in Seq(Positive)
         /\ Len(s \o t) = Len(s) + Len(t)
         /\ Unique(s \o t)
         /\ Elements(s \o t) = Elements(s) \cup Elements(t)
<1> DEFINE u == s \o t
<1>1. /\ u \in Seq(Positive)
      /\ Len(u) = Len(s) + Len(t)
      /\ \A i \in 1..(Len(s) + Len(t)) : u[i] = IF i <= Len(s) THEN s[i] ELSE t[i - Len(s)]
  BY ConcatProperties
<1>2. Len(s) \in Nat /\ Len(t) \in Nat /\ DOMAIN s = 1..Len(s) /\ DOMAIN t = 1..Len(t)
      /\ DOMAIN u = 1..Len(u)
  BY <1>1, LenProperties
<1> HIDE DEF u
<1>3. ASSUME NEW i \in 1..Len(u), NEW j \in 1..Len(u), u[i] = u[j]
      PROVE  i = j
  <2>1. CASE i <= Len(s) /\ j <= Len(s)
    BY <1>1, <1>2, <1>3, <2>1 DEF Unique
  <2>2. CASE i > Len(s) /\ j > Len(s)
    <3>1. i - Len(s) \in 1..Len(t) /\ j - Len(s) \in 1..Len(t)
      BY <1>1, <1>2, <2>2
    <3>2. t[i - Len(s)] = t[j - Len(s)]
      BY <1>1, <1>2, <1>3, <2>2
    <3>3. i - Len(s) = j - Len(s)
      BY <3>1, <3>2 DEF Unique
    <3> QED BY <1>1, <1>2, <3>3
  <2>3. CASE i <= Len(s) /\ j > Len(s)
    <3>1. i \in DOMAIN s /\ j - Len(s) \in DOMAIN t /\ s[i] = t[j - Len(s)]
      BY <1>1, <1>2, <1>3, <2>3
    <3> QED BY <3>1 DEF Elements
  <2>4. CASE i > Len(s) /\ j <= Len(s)
    <3>1. j \in DOMAIN s /\ i - Len(s) \in DOMAIN t /\ s[j] = t[i - Len(s)]
      BY <1>1, <1>2, <1>3, <2>4
    <3> QED BY <3>1 DEF Elements
  <2> QED BY <1>1, <1>2, <2>1, <2>2, <2>3, <2>4
<1>4. Elements(u) \subseteq Elements(s) \cup Elements(t)
  <2> SUFFICES ASSUME NEW i \in 1..Len(u)
               PROVE  u[i] \in Elements(s) \cup Elements(t)
    BY <1>2 DEF Elements
  <2>1. CASE i <= Len(s)
    BY <1>1, <1>2, <2>1 DEF Elements
  <2>2. CASE i > Len(s)
    <3>1. i - Len(s) \in DOMAIN t /\ u[i] = t[i - Len(s)]
      BY <1>1, <1>2, <2>2
    <3> QED BY <3>1 DEF Elements
  <2> QED BY <1>1, <1>2, <2>1, <2>2
<1>5. Elements(s) \subseteq Elements(u)
  <2> SUFFICES ASSUME NEW i \in 1..Len(s) PROVE s[i] \in Elements(u)
    BY <1>2 DEF Elements
  <2>1. i \in DOMAIN u /\ u[i] = s[i]
    BY <1>1, <1>2
  <2> QED BY <2>1 DEF Elements
<1>6. Elements(t) \subseteq Elements(u)
  <2> SUFFICES ASSUME NEW i \in 1..Len(t) PROVE t[i] \in Elements(u)
    BY <1>2 DEF Elements
  <2> DEFINE k == Len(s) + i
  <2>1. k \in 1..(Len(s) + Len(t)) /\ k > Len(s) /\ k - Len(s) = i
    BY <1>2
  <2>2. k \in DOMAIN u /\ u[k] = t[k - Len(s)]
    BY <1>1, <1>2, <2>1
  <2> QED BY <2>1, <2>2 DEF Elements
<1>7. u \in Seq(Positive) /\ Len(u) = Len(s) + Len(t) /\ Unique(u)
      /\ Elements(u) = Elements(s) \cup Elements(t)
  BY <1>1, <1>3, <1>4, <1>5, <1>6 DEF Unique
<1> QED BY <1>7 DEF u

\* Dropping the first n elements of a list.
LEMMA DropFront ==
  ASSUME NEW s \in Seq(Positive), Unique(s), NEW n \in 1..Len(s)
  PROVE  LET r == SubSeq(s, n + 1, Len(s))
             a == {s[i] : i \in 1..n}
         IN  /\ r \in Seq(Positive)
             /\ Len(r) = Len(s) - n
             /\ Unique(r)
             /\ Elements(r) \cup a = Elements(s)
             /\ Elements(r) \cap a = {}
<1> DEFINE r == SubSeq(s, n + 1, Len(s))
           a == {s[i] : i \in 1..n}
<1>1. Len(s) \in Nat /\ DOMAIN s = 1..Len(s) /\ \A i \in 1..Len(s) : s[i] \in Positive
  BY LenProperties, ElementOfSeq
<1>2. /\ r \in Seq(Positive)
      /\ Len(r) = IF n + 1 <= Len(s) THEN Len(s) - (n + 1) + 1 ELSE 0
      /\ \A i \in 1..(Len(s) - (n + 1) + 1) : r[i] = s[n + 1 + i - 1]
  <2>1. n + 1 \in Int /\ Len(s) \in Int /\ \A i \in (n + 1)..Len(s) : s[i] \in Positive
    BY <1>1
  <2> QED BY <2>1, SubSeqProperties
<1> HIDE DEF r
<1>3. Len(r) = Len(s) - n /\ DOMAIN r = 1..Len(r) /\ \A i \in 1..Len(r) : r[i] = s[n + i]
  <2>1. Len(r) = Len(s) - n
    <3>1. n \in Nat /\ n <= Len(s) /\ Len(s) \in Nat
      BY <1>1
    <3>2. Len(r) = IF n + 1 <= Len(s) THEN Len(s) - (n + 1) + 1 ELSE 0
      BY <1>2
    <3>3. CASE n + 1 <= Len(s)
      BY <3>1, <3>2, <3>3
    <3>4. CASE n = Len(s)
      BY <3>1, <3>2, <3>4
    <3> QED BY <3>1, <3>3, <3>4
  <2>2. DOMAIN r = 1..Len(r)
    BY <1>2, LenProperties
  <2>3. ASSUME NEW i \in 1..Len(r) PROVE r[i] = s[n + i]
    <3>1. i \in 1..(Len(s) - (n + 1) + 1) /\ n + 1 + i - 1 = n + i
      BY <1>1, <2>1
    <3>2. r[i] = s[n + 1 + i - 1]
      BY <1>2, <3>1
    <3> QED BY <3>1, <3>2
  <2> QED BY <2>1, <2>2, <2>3
<1>4. Unique(r)
  <2> SUFFICES ASSUME NEW i \in 1..Len(r), NEW j \in 1..Len(r), r[i] = r[j]
               PROVE  i = j
    BY DEF Unique
  <2>1. n + i \in 1..Len(s) /\ n + j \in 1..Len(s) /\ s[n + i] = s[n + j]
    BY <1>1, <1>3
  <2>2. n + i = n + j
    BY <2>1 DEF Unique
  <2> QED BY <1>1, <1>3, <2>2
<1>5. Elements(r) \subseteq Elements(s) /\ a \subseteq Elements(s)
  <2>1. ASSUME NEW i \in 1..Len(r) PROVE r[i] \in Elements(s)
    <3>1. n + i \in DOMAIN s /\ r[i] = s[n + i]
      BY <1>1, <1>3
    <3> QED BY <3>1 DEF Elements
  <2>2. \A i \in 1..n : i \in DOMAIN s
    BY <1>1
  <2> QED BY <1>3, <2>1, <2>2 DEF Elements
<1>6. ASSUME NEW i \in 1..Len(s) PROVE s[i] \in Elements(r) \cup a
  <2>1. CASE i <= n
    BY <1>1, <2>1
  <2>2. CASE i > n
    <3>1. i - n \in DOMAIN r /\ r[i - n] = s[i]
      BY <1>1, <1>3, <2>2
    <3> QED BY <3>1 DEF Elements
  <2> QED BY <1>1, <2>1, <2>2
<1>7. ASSUME NEW i \in 1..Len(r), NEW j \in 1..n PROVE r[i] # s[j]
  <2>1. n + i \in 1..Len(s) /\ j \in 1..Len(s) /\ n + i # j
    BY <1>1, <1>3
  <2>2. r[i] = s[n + i]
    BY <1>3
  <2> QED BY <2>1, <2>2 DEF Unique
<1>8. Elements(r) \cap a = {}
  BY <1>3, <1>7 DEF Elements
<1>9. Elements(r) \cup a = Elements(s)
  BY <1>1, <1>5, <1>6 DEF Elements
<1> QED BY <1>2, <1>3, <1>4, <1>8, <1>9 DEF r

-----------------------------------------------------------------------------
(* Sorted sets. *)

\* The first n elements of a list without repetition are n slots.
LEMMA FrontSet ==
  ASSUME NEW s \in Seq(Positive), Unique(s), NEW n \in Nat, n <= Len(s)
  PROVE  LET a == {s[i] : i \in 1..n}
         IN  IsFiniteSet(a) /\ Cardinality(a) = n /\ a \subseteq Positive
<1> DEFINE a == {s[i] : i \in 1..n}
           f == [i \in 1..n |-> s[i]]
<1>1. Len(s) \in Nat /\ \A i \in 1..n : i \in 1..Len(s) /\ s[i] \in Positive
  BY LenProperties, ElementOfSeq
<1>2. f \in Bijection(1..n, a)
  <2>1. f \in [1..n -> a]
    OBVIOUS
  <2>2. \A i, j \in 1..n : f[i] = f[j] => i = j
    BY <1>1 DEF Unique
  <2>3. \A t \in a : \E i \in 1..n : f[i] = t
    OBVIOUS
  <2> QED BY <2>1, <2>2, <2>3 DEF Bijection, Injection, Surjection, IsInjective
<1>3. ExistsBijection(1..n, a)
  BY <1>2 DEF ExistsBijection
<1>4. IsFiniteSet(a) /\ Cardinality(a) = n
  BY <1>3, FS_NatBijection, FS_CountingElements
<1> QED BY <1>1, <1>4

\* Sorting a set of slots lists each of them once.
LEMMA AscendingFacts ==
  ASSUME NEW S \in SUBSET Positive, IsFiniteSet(S)
  PROVE  /\ Ascending(S) \in Seq(Positive)
         /\ Len(Ascending(S)) = Cardinality(S)
         /\ Unique(Ascending(S))
         /\ Elements(Ascending(S)) = S
<1> DEFINE n == Cardinality(S)
           Below(s) == {t \in S : t < s}
           rank == [s \in S |-> Cardinality(Below(s))]
           f == Ascending(S)
<1>0. \A s \in S : s \in Nat
  BY DEF Positive
<1>1. n \in Nat
  BY FS_CardinalityType
<1>2. ASSUME NEW s \in S
      PROVE  IsFiniteSet(Below(s)) /\ Cardinality(Below(s)) \in 0..(n - 1)
  <2>1. Below(s) \in SUBSET S /\ s \notin Below(s) /\ Below(s) # S
    BY DEF Positive
  <2>2. IsFiniteSet(Below(s)) /\ Cardinality(Below(s)) <= n /\ Cardinality(Below(s)) # n
    BY <2>1, FS_Subset
  <2>3. Cardinality(Below(s)) \in Nat
    BY <2>2, FS_CardinalityType
  <2> QED BY <1>1, <2>2, <2>3
<1>3. ASSUME NEW s \in S, NEW u \in S, s < u
      PROVE  Cardinality(Below(s)) # Cardinality(Below(u))
  <2>1. Below(s) \in SUBSET Below(u) /\ s \in Below(u) /\ s \notin Below(s)
    <3>1. s \in Nat /\ u \in Nat /\ ~(s < s) /\ s < u
      BY <1>0, <1>3
    <3>2. ASSUME NEW t \in S, t < s PROVE t < u
      <4>1. t \in Nat
        BY <1>0
      <4> QED BY <3>1, <3>2, <4>1
    <3> QED BY <3>1, <3>2
  <2>2. Below(s) # Below(u)
    BY <2>1
  <2> HIDE DEF Below
  <2> QED BY <1>2, <2>1, <2>2, FS_Subset
<1>4. rank \in Injection(S, 0..(n - 1))
  <2>1. rank \in [S -> 0..(n - 1)]
    BY <1>2
  <2>2. ASSUME NEW s \in S, NEW u \in S, rank[s] = rank[u] PROVE s = u
    <3>1. rank[s] = Cardinality(Below(s)) /\ rank[u] = Cardinality(Below(u))
      OBVIOUS
    <3>2. s \in Nat /\ u \in Nat /\ (s < u \/ u < s \/ s = u)
      BY <1>0
    <3> HIDE DEF rank, Below
    <3> QED BY <1>3, <2>2, <3>1, <3>2
  <2> QED BY <2>1, <2>2 DEF Injection, IsInjective
<1>5. IsFiniteSet(0..(n - 1)) /\ Cardinality(0..(n - 1)) = n
  BY <1>1, FS_Interval, SMTT(30)
<1>6. rank \in Surjection(S, 0..(n - 1))
  BY <1>4, <1>5, FS_Injection
<1>7. ASSUME NEW k \in 0..(n - 1) PROVE \E s \in S : Cardinality(Below(s)) = k
  <2>1. PICK s \in S : rank[s] = k
    BY <1>6 DEF Surjection
  <2> QED BY <2>1
<1>8. f = [i \in 1..n |-> CHOOSE s \in S : Cardinality(Below(s)) = i - 1]
  BY DEF Ascending
<1>9. ASSUME NEW i \in 1..n PROVE f[i] \in S /\ Cardinality(Below(f[i])) = i - 1
  <2>1. i - 1 \in 0..(n - 1)
    BY <1>1
  <2> HIDE DEF n, f, Below
  <2>2. f[i] = CHOOSE s \in S : Cardinality(Below(s)) = i - 1
    BY <1>8
  <2> QED BY <1>7, <2>1, <2>2
<1> HIDE DEF f, Below, rank
<1>10. f \in [1..n -> Positive]
  <2>1. f \in [1..n -> S]
    BY <1>8, <1>9
  <2> QED BY <2>1
<1>11. f \in Seq(Positive) /\ Len(f) = n
  <2>1. f \in Seq(Positive)
    BY <1>1, <1>10, IsASeq
  <2>2. Len(f) \in Nat /\ DOMAIN f = 1..Len(f) /\ DOMAIN f = 1..n
    BY <1>10, <2>1, LenProperties
  <2> QED BY <1>1, <2>1, <2>2
<1>12. Unique(f)
  <2> SUFFICES ASSUME NEW i \in 1..n, NEW j \in 1..n, f[i] = f[j] PROVE i = j
    BY <1>11 DEF Unique
  <2>1. i - 1 = j - 1
    BY <1>9
  <2> QED BY <1>1, <2>1
<1>13. Elements(f) = S
  <2>1. DOMAIN f = 1..n
    BY <1>10
  <2>2. Elements(f) \subseteq S
    BY <1>9, <2>1 DEF Elements
  <2>3. ASSUME NEW s \in S PROVE s \in Elements(f)
    <3>1. PICK k \in 0..(n - 1) : k = Cardinality(Below(s))
      BY <1>2
    <3>2. k + 1 \in 1..n /\ (k + 1) - 1 = k
      BY <1>1
    <3>3. f[k + 1] \in S /\ Cardinality(Below(f[k + 1])) = k
      BY <1>9, <3>2
    <3>4. ~(f[k + 1] < s) /\ ~(s < f[k + 1])
      BY <1>3, <3>1, <3>3
    <3>5. f[k + 1] = s
      <4>1. f[k + 1] \in Nat /\ s \in Nat
        BY <1>0, <3>3
      <4> QED BY <3>4, <4>1
    <3> QED BY <2>1, <3>2, <3>5 DEF Elements
  <2> QED BY <2>2, <2>3
<1> QED BY <1>11, <1>12, <1>13 DEF f

-----------------------------------------------------------------------------
(* Gathering rows. *)

\* A list given as a function on 1..n.
LEMMA ListOf ==
  ASSUME NEW n \in Nat, NEW S, NEW f \in [1..n -> S]
  PROVE  f \in Seq(S) /\ Len(f) = n
<1>1. f = [i \in 1..n |-> f[i]] /\ DOMAIN f = 1..n
  OBVIOUS
<1>2. \A i \in 1..n : f[i] \in S
  OBVIOUS
<1>3. [i \in 1..n |-> f[i]] \in Seq(S)
  BY <1>2, IsASeq
<1>4. f \in Seq(S)
  BY <1>1, <1>3, Zenon
<1>5. Len(f) \in Nat /\ 1..Len(f) = 1..n
  BY <1>1, <1>4, LenProperties
<1>6. \A a, c \in Nat : 1..a = 1..c => a = c
  OBVIOUS
<1> QED BY <1>4, <1>5, <1>6, Zenon

\* A list of rows to keep: some of 1..n, each once.
KeepOK(keep, n) ==
  keep \in Seq(1..n) /\ Unique(keep) /\ Elements(keep) \subseteq 1..n

\* g is the list of those rows of seq.
Gathers(S, seq, keep, g) ==
  /\ g \in Seq(S) /\ Len(g) = Len(keep)
  /\ \A j \in 1..Len(keep) : g[j] = seq[keep[j]]

LEMMA GatherFacts ==
  ASSUME NEW S, NEW seq \in Seq(S), NEW keep, KeepOK(keep, Len(seq))
  PROVE  Gathers(S, seq, keep, Gather(seq, keep))
<1> DEFINE g == Gather(seq, keep)
           m == Len(keep)
<1>1. keep \in Seq(1..Len(seq))
  BY DEF KeepOK
<1>2. m \in Nat /\ DOMAIN keep = 1..m
  BY <1>1, LenProperties
<1>3. \A j \in 1..m : keep[j] \in 1..Len(seq)
  BY <1>1, ElementOfSeq
<1>4. \A j \in 1..m : seq[keep[j]] \in S
  BY <1>3, ElementOfSeq
<1>5. g = [j \in 1..m |-> seq[keep[j]]]
  BY <1>2 DEF Gather
<1>6. g \in Seq(S)
  BY <1>2, <1>4, <1>5, IsASeq
<1>7. Len(g) \in Nat /\ DOMAIN g = 1..Len(g) /\ DOMAIN g = 1..m
  BY <1>5, <1>6, LenProperties
<1>8. Len(g) = m
  <2>1. 1..Len(g) = 1..m
    BY <1>7, Zenon
  <2>2. \A a, c \in Nat : 1..a = 1..c => a = c
    OBVIOUS
  <2> QED BY <1>2, <1>7, <2>1, <2>2, Zenon
<1>9. \A j \in 1..m : g[j] = seq[keep[j]]
  BY <1>5
<1> QED BY <1>6, <1>8, <1>9 DEF Gathers

\* What Ascending makes of a set of row numbers.
LEMMA KeepRows ==
  ASSUME NEW n \in Nat, NEW S \in SUBSET (1..n)
  PROVE  KeepOK(Ascending(S), n) /\ Elements(Ascending(S)) = S /\ Len(Ascending(S)) \in Nat
<1>1. IsFiniteSet(1..n)
  BY FS_Interval
<1>2. IsFiniteSet(S)
  BY <1>1, FS_Subset
<1>3. S \in SUBSET Positive
  BY DEF Positive
<1>4. Ascending(S) \in Seq(Positive) /\ Unique(Ascending(S)) /\ Elements(Ascending(S)) = S
  BY <1>2, <1>3, AscendingFacts
<1>5. Len(Ascending(S)) \in Nat /\ DOMAIN Ascending(S) = 1..Len(Ascending(S))
  BY <1>4, LenProperties
<1>6. \A i \in 1..Len(Ascending(S)) : Ascending(S)[i] \in 1..n
  BY <1>4, <1>5 DEF Elements
<1>7. Ascending(S) = [i \in 1..Len(Ascending(S)) |-> Ascending(S)[i]]
  <2>1. Ascending(S) \in [1..Len(Ascending(S)) -> Positive]
    BY <1>4, LenProperties
  <2> QED BY <2>1
<1>8. Ascending(S) \in Seq(1..n)
  <2>1. [i \in 1..Len(Ascending(S)) |-> Ascending(S)[i]] \in Seq(1..n)
    BY <1>5, <1>6, IsASeq
  <2> QED BY <1>7, <2>1
<1> QED BY <1>4, <1>5, <1>8 DEF KeepOK

\* The row numbers 1..k, in order.
LEMMA FrontRows ==
  ASSUME NEW n \in Nat, NEW k \in 0..n
  PROVE  /\ KeepOK([i \in 1..k |-> i], n) /\ Elements([i \in 1..k |-> i]) = 1..k
         /\ Len([i \in 1..k |-> i]) = k
<1> DEFINE f == [i \in 1..k |-> i]
<1>1. k \in Nat /\ \A i \in 1..k : i \in 1..n
  OBVIOUS
<1>2. f \in Seq(1..n)
  BY <1>1, IsASeq
<1>3. DOMAIN f = 1..k /\ \A i \in 1..k : f[i] = i
  OBVIOUS
<1> HIDE DEF f
<1>4. Len(f) \in Nat /\ DOMAIN f = 1..Len(f)
  BY <1>2, LenProperties
<1>5. Len(f) = k
  BY <1>1, <1>3, <1>4
<1>6. Unique(f) /\ Elements(f) = 1..k /\ Elements(f) \subseteq 1..n
  BY <1>1, <1>3, <1>5 DEF Unique, Elements
<1> QED BY <1>2, <1>5, <1>6 DEF KeepOK, f

\* A keep list as long as the batch keeps every row.
LEMMA KeepsAll ==
  ASSUME NEW n \in Nat, NEW keep, KeepOK(keep, n), Len(keep) = n
  PROVE  Elements(keep) = 1..n
<1>1. keep \in Seq(Positive) /\ DOMAIN keep = 1..n
  <2>1. 1..n \subseteq Positive
    BY DEF Positive
  <2>2. keep \in Seq(1..n)
    BY DEF KeepOK
  <2> QED BY <2>1, <2>2, SeqMonotonic, LenProperties
<1>2. Elements(keep) = {keep[i] : i \in 1..n}
  BY <1>1 DEF Elements
<1>3. Cardinality(Elements(keep)) = n
  <2>1. Unique(keep) /\ n <= Len(keep)
    BY DEF KeepOK
  <2> QED BY <1>1, <1>2, <2>1, FrontSet
<1>4. IsFiniteSet(1..n) /\ Cardinality(1..n) = n
  BY FS_Interval
<1>5. Elements(keep) \subseteq 1..n
  BY DEF KeepOK
<1> QED BY <1>3, <1>4, <1>5, FS_Subset

\* u is s, then t.
Joined(S, s, t, u) ==
  /\ u \in Seq(S) /\ Len(u) = Len(s) + Len(t)
  /\ \A j \in 1..Len(s) : u[j] = s[j]
  /\ \A j \in 1..Len(t) : u[Len(s) + j] = t[j]

LEMMA ConcatJoins ==
  ASSUME NEW S, NEW s \in Seq(S), NEW t \in Seq(S)
  PROVE  Joined(S, s, t, s \o t)
<1> DEFINE u == s \o t
<1>1. /\ u \in Seq(S) /\ Len(u) = Len(s) + Len(t)
      /\ \A i \in 1..(Len(s) + Len(t)) : u[i] = IF i <= Len(s) THEN s[i] ELSE t[i - Len(s)]
  BY ConcatProperties
<1>2. Len(s) \in Nat /\ Len(t) \in Nat
  BY LenProperties
<1> HIDE DEF u
<1>3. \A j \in 1..Len(s) : u[j] = s[j]
  <2>1. \A j \in 1..Len(s) : j \in 1..(Len(s) + Len(t)) /\ j <= Len(s)
    BY <1>2
  <2> QED BY <1>1, <2>1
<1>4. \A j \in 1..Len(t) : u[Len(s) + j] = t[j]
  <2>1. \A j \in 1..Len(t) : /\ Len(s) + j \in 1..(Len(s) + Len(t)) /\ ~(Len(s) + j <= Len(s))
                             /\ (Len(s) + j) - Len(s) = j
    BY <1>2
  <2> QED BY <1>1, <2>1
<1> QED BY <1>1, <1>3, <1>4 DEF Joined, u

-----------------------------------------------------------------------------
(* Rows one behind the other. *)

\* f[k] is the first k rows of a, one behind the other.
Runs(S, n, a, f) ==
  /\ f \in [1..n -> Seq(S)] /\ f[1] = a[1]
  /\ \A i \in 1..(n - 1) : f[i + 1] = f[i] \o a[i + 1]

LEMMA RunsExist ==
  ASSUME NEW S, NEW n \in Nat, n >= 1, NEW a \in [1..n -> Seq(S)]
  PROVE  \E f : Runs(S, n, a, f)
<1> DEFINE Is(m, f) == f[1] = a[1] /\ \A i \in 1..m : f[i + 1] = f[i] \o a[i + 1]
           M == {m \in 0..(n - 1) : \E f \in [1..n -> Seq(S)] : Is(m, f)}
<1>1. 0 \in M
  <2>1. a \in [1..n -> Seq(S)] /\ Is(0, a) /\ 0 \in 0..(n - 1)
    OBVIOUS
  <2> QED BY <2>1
<1>2. ASSUME NEW m \in 0..((n - 1) - 1), m \in M PROVE m + 1 \in M
  <2>1. PICK f \in [1..n -> Seq(S)] : Is(m, f)
    BY <1>2
  <2> DEFINE g == [f EXCEPT ![(m + 1) + 1] = f[m + 1] \o a[(m + 1) + 1]]
  <2>2. m + 1 \in 1..n /\ (m + 1) + 1 \in 1..n /\ m + 1 \in 0..(n - 1) /\ m + 1 # (m + 1) + 1
    OBVIOUS
  <2>3. /\ g \in [1..n -> Seq(S)] /\ g[(m + 1) + 1] = f[m + 1] \o a[(m + 1) + 1]
        /\ \A k \in 1..(m + 1) : g[k] = f[k]
    <3>1. f[m + 1] \o a[(m + 1) + 1] \in Seq(S)
      BY <2>2, ConcatProperties
    <3>2. \A k \in 1..(m + 1) : k \in 1..n /\ k # (m + 1) + 1
      BY <2>2
    <3> QED BY <2>2, <3>1, <3>2
  <2> HIDE DEF g
  <2>4. g[1] = a[1]
    <3>1. 1 \in 1..(m + 1)
      OBVIOUS
    <3> QED BY <2>1, <2>3, <3>1
  <2>5. ASSUME NEW i \in 1..(m + 1) PROVE g[i + 1] = g[i] \o a[i + 1]
    <3>1. CASE i = m + 1
      BY <2>3, <3>1
    <3>2. CASE i # m + 1
      <4>1. i \in 1..m /\ i \in 1..(m + 1) /\ i + 1 \in 1..(m + 1)
        BY <3>2
      <4> QED BY <2>1, <2>3, <4>1
    <3> QED BY <3>1, <3>2
  <2> QED BY <2>2, <2>3, <2>4, <2>5
<1> HIDE DEF M
<1>3. n - 1 \in Nat
  OBVIOUS
<1>4. 0..(n - 1) \subseteq M
  BY <1>1, <1>2, <1>3, UpTo
<1>5. n - 1 \in M
  BY <1>3, <1>4
<1>6. PICK f \in [1..n -> Seq(S)] : Is(n - 1, f)
  BY <1>5 DEF M
<1> QED BY <1>6 DEF Runs

LEMMA FlattenRuns ==
  ASSUME NEW S, NEW n \in Nat, n >= 1, NEW a \in [1..n -> Seq(S)]
  PROVE  \E f : Runs(S, n, a, f) /\ FlattenSeq(a) = f[n]
<1>1. Len(a) = n
  BY ListOf
<1>2. PICK h : Runs(S, n, a, h)
  BY RunsExist
<1> DEFINE Def(f) == [i \in 1..n |-> IF i = 1 THEN a[i] ELSE f[i - 1] \o a[i]]
<1>3. h = Def(h)
  <2>1. \A i \in 1..n : h[i] = IF i = 1 THEN a[i] ELSE h[i - 1] \o a[i]
    <3> SUFFICES ASSUME NEW i \in 1..n, i # 1 PROVE h[i] = h[i - 1] \o a[i]
      BY <1>2 DEF Runs
    <3>1. i - 1 \in 1..(n - 1) /\ (i - 1) + 1 = i
      OBVIOUS
    <3> QED BY <1>2, <3>1 DEF Runs
  <2>2. DOMAIN h = 1..n /\ h = [i \in DOMAIN h |-> h[i]]
    BY <1>2 DEF Runs
  <2> QED BY <2>1, <2>2
<1> DEFINE fl == CHOOSE f : f = Def(f)
<1>4. FlattenSeq(a) = fl[n]
  <2>1. ~(Len(a) = 0)
    BY <1>1
  <2> QED BY <1>1, <2>1, Zenon DEF FlattenSeq
<1>5. fl = Def(fl)
  <2> HIDE DEF Def
  <2> QED BY <1>3
<1> HIDE DEF fl
<1>6. /\ fl[1] = a[1] /\ \A i \in 1..(n - 1) : fl[i + 1] = fl[i] \o a[i + 1]
  <2>1. 1 \in 1..n
    OBVIOUS
  <2>2. \A i \in 1..(n - 1) : i + 1 \in 1..n /\ i + 1 # 1 /\ (i + 1) - 1 = i
    OBVIOUS
  <2>3. \A i \in 1..n : fl[i] = IF i = 1 THEN a[i] ELSE fl[i - 1] \o a[i]
    BY <1>5
  <2> QED BY <2>1, <2>2, <2>3
<1>7. fl \in [1..n -> Seq(S)]
  <2> DEFINE M == {m \in 0..(n - 1) : fl[m + 1] \in Seq(S)}
  <2>1. 0 \in M
    BY <1>6
  <2>2. ASSUME NEW m \in 0..((n - 1) - 1), m \in M PROVE m + 1 \in M
    <3>1. m + 1 \in 1..(n - 1) /\ m + 1 \in 0..(n - 1) /\ (m + 1) + 1 \in 1..n
      OBVIOUS
    <3>2. fl[(m + 1) + 1] = fl[m + 1] \o a[(m + 1) + 1] /\ fl[m + 1] \in Seq(S)
      BY <1>6, <2>2, <3>1
    <3>3. fl[m + 1] \o a[(m + 1) + 1] \in Seq(S)
      BY <3>1, <3>2, ConcatProperties
    <3> QED BY <3>1, <3>2, <3>3
  <2> HIDE DEF M
  <2>3. n - 1 \in Nat
    OBVIOUS
  <2>4. 0..(n - 1) \subseteq M
    BY <2>1, <2>2, <2>3, UpTo
  <2>5. ASSUME NEW i \in 1..n PROVE fl[i] \in Seq(S)
    <3>1. i - 1 \in 0..(n - 1) /\ (i - 1) + 1 = i
      OBVIOUS
    <3>2. i - 1 \in M
      BY <2>4, <3>1
    <3> QED BY <3>1, <3>2 DEF M
  <2>6. DOMAIN fl = 1..n /\ fl = [i \in DOMAIN fl |-> fl[i]]
    BY <1>5
  <2> QED BY <2>5, <2>6
<1>8. Runs(S, n, a, fl)
  BY <1>6, <1>7 DEF Runs
<1> QED BY <1>4, <1>8
=============================================================================
