-------------------------- MODULE TargetKV_proofs ---------------------------
(***************************************************************************)
(* Proofs about the target's KV slots: pages are conserved and the context *)
(* of a request is the sequence that was generated, for every page size,   *)
(* number of pages, tree and batch.                                        *)
(***************************************************************************)
EXTENDS TargetKV, RowLists_proofs

-----------------------------------------------------------------------------
(* Pages and offsets. *)

LEMMA ProductUp ==
  ASSUME NEW P \in Positive, NEW a \in Nat, NEW b \in Nat, a < b
  PROVE  a * P + P <= b * P
<1>1. P \in Nat /\ P >= 1 /\ b - a - 1 \in Nat
  BY DEF Positive
<1>2. PICK d \in Nat : d = b - a - 1
  BY <1>1
<1>3. b = a + 1 + d
  BY <1>2
<1>4. b * P = a * P + P + d * P
  BY <1>1, <1>3
<1>5. d * P \in Nat /\ a * P \in Nat
  BY <1>1
<1> QED BY <1>1, <1>4, <1>5

\* A number is a page and an offset in it, in one way.
LEMMA Parts ==
  ASSUME NEW P \in Positive, NEW n \in Nat
  PROVE  /\ n \div P \in Nat /\ n % P \in 0..(P - 1)
         /\ n = (n \div P) * P + (n % P)
<1>1. P \in Nat /\ P > 0
  BY DEF Positive
<1>2. n % P \in 0..(P - 1) /\ n \div P \in Nat /\ n = P * (n \div P) + (n % P)
  BY <1>1
<1>3. PICK q \in Nat : q = n \div P
  BY <1>2
<1>4. P * q = q * P
  BY <1>1
<1> QED BY <1>2, <1>3, <1>4

LEMMA OneWay ==
  ASSUME NEW P \in Positive, NEW a \in Nat, NEW k \in 0..(P - 1), NEW b \in Nat, NEW l \in 0..(P - 1),
         a * P + k = b * P + l
  PROVE  a = b /\ k = l
<1>1. P \in Nat /\ P >= 1 /\ k \in Nat /\ l \in Nat /\ k < P /\ l < P
  BY DEF Positive
<1>2. PICK x \in Nat, y \in Nat : x = a * P /\ y = b * P
  BY <1>1
<1>3. CASE a < b
  <2>1. a * P + P <= b * P
    BY <1>3, ProductUp
  <2> QED BY <1>1, <1>2, <2>1
<1>4. CASE b < a
  <2>1. b * P + P <= a * P
    BY <1>4, ProductUp
  <2> QED BY <1>1, <1>2, <2>1
<1>5. CASE a = b
  BY <1>1, <1>2, <1>5
<1> QED BY <1>3, <1>4, <1>5

LEMMA PartsOf ==
  ASSUME NEW P \in Positive, NEW a \in Nat, NEW k \in 0..(P - 1)
  PROVE  a * P + k \in Nat /\ (a * P + k) \div P = a /\ (a * P + k) % P = k
<1>1. P \in Nat /\ k \in Nat
  BY DEF Positive
<1>2. PICK n \in Nat : n = a * P + k
  BY <1>1
<1>3. n \div P \in Nat /\ n % P \in 0..(P - 1) /\ n = (n \div P) * P + (n % P)
  BY Parts
<1>4. n \div P = a /\ n % P = k
  BY <1>2, <1>3, OneWay
<1> QED BY <1>2, <1>4

\* Pages for n slots.
PagesFor(P, n) == (n + P - 1) \div P

LEMMA PagesForFacts ==
  ASSUME NEW P \in Positive, NEW n \in Nat
  PROVE  /\ PagesFor(P, n) \in Nat
         /\ n <= PagesFor(P, n) * P /\ PagesFor(P, n) * P < n + P
         /\ PagesFor(P, n) * P \in Nat
         /\ n > 0 => PagesFor(P, n) = ((n - 1) \div P) + 1
         /\ n = 0 => PagesFor(P, n) = 0
<1>1. P \in Nat /\ P >= 1
  BY DEF Positive
<1>2. PICK m \in Nat : m = n + P - 1
  BY <1>1
<1>3. m \div P \in Nat /\ m % P \in 0..(P - 1) /\ m = (m \div P) * P + (m % P)
  BY Parts
<1>4. PICK c \in Nat : c = PagesFor(P, n)
  BY <1>2, <1>3 DEF PagesFor
<1>5. PICK x \in Nat : x = c * P
  BY <1>1
<1>6. c = m \div P
  BY <1>2, <1>4 DEF PagesFor
<1>7. n <= x /\ x < n + P
  <2>1. m = x + (m % P) /\ m % P \in Nat /\ m % P <= P - 1
    BY <1>1, <1>3, <1>5, <1>6
  <2> QED BY <1>1, <1>2, <2>1
<1>8. ASSUME n > 0 PROVE c = ((n - 1) \div P) + 1
  <2>1. n - 1 \in Nat
    BY <1>8
  <2>2. /\ (n - 1) \div P \in Nat /\ (n - 1) % P \in 0..(P - 1)
        /\ n - 1 = ((n - 1) \div P) * P + ((n - 1) % P)
    BY <2>1, Parts
  <2>3. PICK a \in Nat, k \in 0..(P - 1) : a = (n - 1) \div P /\ k = (n - 1) % P
    BY <2>2
  <2>4. PICK y \in Nat : y = a * P
    BY <1>1
  <2>5. (a + 1) * P = y + P
    BY <1>1, <2>4
  <2>6. m = (a + 1) * P + k
    BY <1>1, <1>2, <2>2, <2>3, <2>4, <2>5
  <2>7. (m \div P) = a + 1
    BY <2>6, <2>3, PartsOf
  <2> QED BY <1>6, <2>3, <2>7
<1>9. ASSUME n = 0 PROVE c = 0
  <2>1. m = 0 * P + (P - 1) /\ P - 1 \in 0..(P - 1)
    BY <1>1, <1>2, <1>9
  <2>2. m \div P = 0
    BY <2>1, PartsOf
  <2> QED BY <1>6, <2>2
<1> QED BY <1>4, <1>5, <1>7, <1>8, <1>9

LEMMA PagesForUp ==
  ASSUME NEW P \in Positive, NEW m \in Nat, NEW n \in Nat, m <= n
  PROVE  PagesFor(P, m) <= PagesFor(P, n)
<1>1. P \in Nat /\ P >= 1
  BY DEF Positive
<1>2. PICK c \in Nat, d \in Nat : c = PagesFor(P, m) /\ d = PagesFor(P, n)
  BY PagesForFacts
<1>3. c * P < m + P /\ n <= d * P /\ c * P \in Nat /\ d * P \in Nat
  BY <1>2, PagesForFacts
<1>4. CASE d < c
  <2>1. d * P + P <= c * P
    BY <1>2, <1>4, ProductUp
  <2>2. PICK x \in Nat, y \in Nat : x = c * P /\ y = d * P
    BY <1>3
  <2> QED BY <1>1, <1>3, <2>1, <2>2
<1> QED BY <1>2, <1>4

\* Position p lies in the first c pages.
LEMMA InFirstPages ==
  ASSUME NEW P \in Positive, NEW c \in Nat, NEW p \in Nat
  PROVE  p < c * P <=> p \div P < c
<1>1. P \in Nat /\ P >= 1
  BY DEF Positive
<1>2. PICK b \in Nat, k \in 0..(P - 1) : b = p \div P /\ p = b * P + k
  BY Parts
<1>3. PICK x \in Nat, y \in Nat : x = b * P /\ y = c * P
  BY <1>1, <1>2
<1>4. CASE b < c
  <2>1. b * P + P <= c * P
    BY <1>2, <1>4, ProductUp
  <2>2. p < c * P
    BY <1>1, <1>2, <1>3, <2>1
  <2> QED BY <1>2, <1>4, <2>2
<1>5. CASE ~(b < c)
  <2>1. c * P <= b * P
    <3>1. CASE c = b
      BY <1>1, <1>3, <3>1
    <3>2. CASE c < b
      <4>1. c * P + P <= b * P
        BY <1>2, <3>2, ProductUp
      <4> QED BY <1>1, <1>3, <4>1
    <3> QED BY <1>2, <1>5, <3>1, <3>2
  <2>2. ~(p < c * P)
    BY <1>1, <1>2, <1>3, <2>1
  <2> QED BY <1>2, <1>5, <2>2
<1> QED BY <1>4, <1>5

LEMMA NewPages ==
  ASSUME NEW P \in Positive, P = PageSize, NEW m \in Nat, NEW n \in Nat, m <= n
  PROVE  /\ CeilAlign(m) = PagesFor(P, m) * P
         /\ NumNewPages(m, n) = PagesFor(P, n) - PagesFor(P, m)
         /\ NumNewPages(m, n) \in Nat
<1>1. P \in Nat /\ P >= 1 /\ 0 \in 0..(P - 1)
  BY DEF Positive
<1>2. PICK c \in Nat, d \in Nat : c = PagesFor(P, m) /\ d = PagesFor(P, n)
  BY PagesForFacts
<1>3. c <= d /\ d - c \in Nat
  BY <1>2, PagesForUp
<1>4. CeilAlign(m) = c * P /\ CeilAlign(n) = d * P
  BY <1>2 DEF CeilAlign, PagesFor
<1>5. d * P - c * P = (d - c) * P + 0
  BY <1>1
<1>6. ((d - c) * P + 0) \div P = d - c
  BY <1>1, <1>3, PartsOf
<1>7. NumNewPages(m, n) = (d * P - c * P) \div P
  BY <1>4 DEF NumNewPages
<1> QED BY <1>2, <1>3, <1>4, <1>5, <1>6, <1>7

-----------------------------------------------------------------------------
(* Rows of req_to_token. *)

\* The page of position p, and the pages of a row.
Block(P, p) == (p - 1) \div P
PagesIn(P, row) == {row[p] \div P : p \in 1..Len(row)}

\* A row fills one page after the other.
RowPaged(P, row) ==
  /\ row \in Seq(Nat)
  /\ \A p \in 1..Len(row) : row[p] % P = (p - 1) % P
  /\ \A p, q \in 1..Len(row) : row[p] \div P = row[q] \div P <=> Block(P, p) = Block(P, q)

\* Two numbers with the same page and offset are the same.
LEMMA SameParts ==
  ASSUME NEW P \in Positive, NEW m \in Nat, NEW n \in Nat, m \div P = n \div P, m % P = n % P
  PROVE  m = n
<1>1. m = (m \div P) * P + (m % P) /\ n = (n \div P) * P + (n % P)
  BY Parts
<1> QED BY <1>1

\* A row names a slot once.
LEMMA RowUnique ==
  ASSUME NEW P \in Positive, NEW row, RowPaged(P, row)
  PROVE  Unique(row)
<1>1. Len(row) \in Nat /\ row \in Seq(Nat)
  BY LenProperties DEF RowPaged
<1> SUFFICES ASSUME NEW p \in 1..Len(row), NEW q \in 1..Len(row), row[p] = row[q] PROVE p = q
  BY DEF Unique
<1>2. Block(P, p) = Block(P, q) /\ (p - 1) % P = (q - 1) % P
  BY DEF RowPaged
<1>3. p - 1 \in Nat /\ q - 1 \in Nat
  BY <1>1
<1>4. p - 1 = q - 1
  BY <1>2, <1>3, SameParts DEF Block
<1> QED BY <1>3, <1>4

\* With pages of one slot, any list without repetition is a row.
LEMMA UnitPages ==
  ASSUME NEW row \in Seq(Nat), Unique(row)
  PROVE  RowPaged(1, row) /\ PagesIn(1, row) = Elements(row)
<1>1. Len(row) \in Nat /\ DOMAIN row = 1..Len(row) /\ \A p \in 1..Len(row) : row[p] \in Nat
  BY LenProperties, ElementOfSeq
<1>2. \A n \in Nat : n \div 1 = n /\ n % 1 = 0
  OBVIOUS
<1>3. \A p \in 1..Len(row) : p - 1 \in Nat /\ Block(1, p) = p - 1 /\ row[p] \div 1 = row[p]
  BY <1>1, <1>2 DEF Block
<1>4. \A p \in 1..Len(row) : row[p] % 1 = (p - 1) % 1
  BY <1>1, <1>2, <1>3
<1>5. \A p, q \in 1..Len(row) : row[p] \div 1 = row[q] \div 1 <=> Block(1, p) = Block(1, q)
  <2> SUFFICES ASSUME NEW p \in 1..Len(row), NEW q \in 1..Len(row)
               PROVE  row[p] \div 1 = row[q] \div 1 <=> Block(1, p) = Block(1, q)
    OBVIOUS
  <2>1. row[p] = row[q] <=> p = q
    BY DEF Unique
  <2>2. p = q <=> p - 1 = q - 1
    BY <1>1
  <2> QED BY <1>3, <2>1, <2>2
<1>6. PagesIn(1, row) = Elements(row)
  BY <1>1, <1>3 DEF PagesIn, Elements
<1> QED BY <1>4, <1>5, <1>6 DEF RowPaged

\* The front of a row; the pages it has, and those of the rest from the next page on.
LEMMA CutRow ==
  ASSUME NEW P \in Positive, NEW row, RowPaged(P, row), NEW n \in 0..Len(row)
  PROVE  /\ SubSeq(row, 1, n) \in Seq(Nat) /\ Len(SubSeq(row, 1, n)) = n
         /\ \A p \in 1..n : SubSeq(row, 1, n)[p] = row[p]
         /\ RowPaged(P, SubSeq(row, 1, n))
         /\ PagesIn(P, SubSeq(row, 1, n)) \subseteq PagesIn(P, row)
<1> DEFINE s == SubSeq(row, 1, n)
<1>1. /\ Len(row) \in Nat /\ row \in Seq(Nat) /\ n \in Nat /\ n <= Len(row)
      /\ \A p \in 1..Len(row) : row[p] \in Nat
  BY LenProperties, ElementOfSeq DEF RowPaged
<1>2. /\ s \in Seq(Nat) /\ Len(s) = n /\ \A p \in 1..n : s[p] = row[p]
  <2>1. \A i \in 1..n : row[i] \in Nat
    BY <1>1
  <2>2. /\ s \in Seq(Nat) /\ Len(s) = IF 1 <= n THEN n - 1 + 1 ELSE 0
        /\ \A i \in 1..(n - 1 + 1) : s[i] = row[1 + i - 1]
    BY <1>1, <2>1, SubSeqProperties
  <2>3. Len(s) = n /\ n - 1 + 1 = n
    BY <1>1, <2>2
  <2>4. \A i \in 1..n : 1 + i - 1 = i
    BY <1>1
  <2> QED BY <2>2, <2>3, <2>4
<1> HIDE DEF s
<1>3. \A p \in 1..n : p \in 1..Len(row)
  BY <1>1
<1>4. RowPaged(P, s)
  BY <1>2, <1>3 DEF RowPaged
<1>5. PagesIn(P, s) \subseteq PagesIn(P, row)
  BY <1>2, <1>3 DEF PagesIn
<1> QED BY <1>2, <1>4, <1>5 DEF s

\* The first position of a page.
LEMMA PageStart ==
  ASSUME NEW P \in Positive, NEW b \in Nat
  PROVE  /\ b * P + 1 \in Positive /\ Block(P, b * P + 1) = b
         /\ \A n \in Nat : b < PagesFor(P, n) => b * P + 1 <= n
         /\ \A p \in Positive : Block(P, p) = b => b * P + 1 <= p
<1>1. P \in Nat /\ P >= 1 /\ 0 \in 0..(P - 1)
  BY DEF Positive
<1>2. PICK x \in Nat : x = b * P
  BY <1>1
<1>3. Block(P, b * P + 1) = b
  <2>1. (b * P + 0) \div P = b
    BY <1>1, PartsOf
  <2>2. (b * P + 1) - 1 = b * P + 0
    BY <1>2
  <2> QED BY <2>1, <2>2 DEF Block
<1>4. ASSUME NEW n \in Nat, b < PagesFor(P, n) PROVE b * P + 1 <= n
  <2>1. PICK d \in Nat : d = PagesFor(P, n) /\ d * P < n + P /\ d * P \in Nat
    BY PagesForFacts
  <2>2. b * P + P <= d * P
    BY <1>4, <2>1, ProductUp
  <2> QED BY <1>1, <1>2, <2>1, <2>2
<1>5. ASSUME NEW p \in Positive, Block(P, p) = b PROVE b * P + 1 <= p
  <2>1. p - 1 \in Nat /\ p \in Nat
    BY DEF Positive
  <2>2. p - 1 = ((p - 1) \div P) * P + ((p - 1) % P) /\ (p - 1) % P \in 0..(P - 1)
    BY <2>1, Parts
  <2>3. PICK k \in Nat : p - 1 = x + k
    BY <1>1, <1>2, <1>5, <2>2 DEF Block
  <2> QED BY <1>2, <2>1, <2>3
<1> QED BY <1>2, <1>3, <1>4, <1>5 DEF Positive

\* The pages of a row: one per block.
LEMMA RowBlocks ==
  ASSUME NEW P \in Positive, NEW row, RowPaged(P, row)
  PROVE  /\ \A p \in 1..Len(row) : /\ Block(P, p) \in 0..(PagesFor(P, Len(row)) - 1)
                                   /\ row[p] \div P = row[Block(P, p) * P + 1] \div P
         /\ \A b \in 0..(PagesFor(P, Len(row)) - 1) :
              b * P + 1 \in 1..Len(row) /\ Block(P, b * P + 1) = b
         /\ PagesIn(P, row) = {row[b * P + 1] \div P : b \in 0..(PagesFor(P, Len(row)) - 1)}
<1> DEFINE n == Len(row)
           d == PagesFor(P, n)
<1>1. n \in Nat /\ d \in Nat /\ n <= d * P
  BY LenProperties, PagesForFacts DEF RowPaged
<1>2. ASSUME NEW b \in 0..(d - 1) PROVE b * P + 1 \in 1..n /\ Block(P, b * P + 1) = b
  <2>1. b \in Nat /\ b < d
    BY <1>1
  <2>2. b * P + 1 \in Positive /\ Block(P, b * P + 1) = b /\ b * P + 1 <= n
    BY <1>1, <2>1, PageStart
  <2> QED BY <1>1, <2>2 DEF Positive
<1>3. ASSUME NEW p \in 1..n
      PROVE  Block(P, p) \in 0..(d - 1) /\ row[p] \div P = row[Block(P, p) * P + 1] \div P
  <2>1. p - 1 \in Nat /\ p - 1 < d * P
    <3>1. PICK x \in Nat : x = d * P
      BY <1>1 DEF Positive
    <3> QED BY <1>1, <3>1
  <2>2. (p - 1) \div P \in Nat /\ (p - 1) \div P < d
    BY <1>1, <2>1, Parts, InFirstPages
  <2>3. Block(P, p) \in 0..(d - 1)
    BY <1>1, <2>2 DEF Block
  <2>4. Block(P, p) * P + 1 \in 1..n /\ Block(P, Block(P, p) * P + 1) = Block(P, p)
    BY <1>2, <2>3
  <2> QED BY <2>3, <2>4 DEF RowPaged
<1>4. PagesIn(P, row) \subseteq {row[b * P + 1] \div P : b \in 0..(d - 1)}
  BY <1>3 DEF PagesIn
<1>5. {row[b * P + 1] \div P : b \in 0..(d - 1)} \subseteq PagesIn(P, row)
  BY <1>2 DEF PagesIn
<1> QED BY <1>2, <1>3, <1>4, <1>5

\* s is the slot of position p: in the last page of the row, or in a drawn page.
SlotOf(P, row, pre, first, p, s) ==
  /\ s \in Nat /\ s % P = (p - 1) % P
  /\ Block(P, p) < PagesFor(P, pre) => s \div P = row[Block(P, p) * P + 1] \div P
  /\ Block(P, p) >= PagesFor(P, pre) =>
       /\ first + (Block(P, p) - PagesFor(P, pre)) + 1 \in 1..Len(free)
       /\ s \div P = free[first + (Block(P, p) - PagesFor(P, pre)) + 1]

\* The slot alloc_extend_kernel gives to position p.
LEMMA NewSlot ==
  ASSUME NEW P \in Positive, P = PageSize, NEW row, RowPaged(P, row), NEW pre \in Nat, pre = Len(row),
         NEW post \in Nat, NEW first \in Nat, free \in Seq(Positive),
         pre <= post, first + NumNewPages(pre, post) <= Len(free),
         NEW p \in (pre + 1)..post
  PROVE  SlotOf(P, row, pre, first, p, ExtendedSlots(row, pre, post, first)[p - pre])
<1> DEFINE s == ExtendedSlots(row, pre, post, first)[p - pre]
<1>0. PICK z \in Nat : z = p - 1
  OBVIOUS
<1>1. /\ P \in Nat /\ P >= 1 /\ z \in Nat /\ z >= pre /\ z < post /\ p - pre \in 1..(post - pre)
      /\ pre + (p - pre) - 1 = z /\ p = z + 1
  BY <1>0 DEF Positive
<1>2. PICK c \in Nat, d \in Nat : c = PagesFor(P, pre) /\ d = PagesFor(P, post)
  BY PagesForFacts
<1>3. /\ CeilAlign(pre) = c * P /\ NumNewPages(pre, post) = d - c /\ c <= d
  BY <1>2, NewPages, PagesForUp
<1>4. PICK b \in Nat, k \in 0..(P - 1) : b = z \div P /\ k = z % P /\ z = b * P + k
  <2>1. z \div P \in Nat /\ z % P \in 0..(P - 1) /\ z = (z \div P) * P + (z % P)
    BY Parts
  <2> QED BY <2>1, Zenon
<1>5. Block(P, p) = b
  BY <1>0, <1>4 DEF Block
<1>6. PICK x \in Nat, y \in Nat : x = b * P /\ y = c * P
  BY <1>1
<1>7. s = IF z < c * P THEN (IF pre = 0 THEN -1 ELSE row[pre]) + 1 + (z - pre)
          ELSE free[first + ((z - c * P) \div P) + 1] * P + ((z - c * P) % P)
  BY <1>1, <1>3 DEF ExtendedSlots
<1> HIDE DEF s
<1>8. CASE b < c
  <2>1. z < c * P
    BY <1>1, <1>4, <1>8, InFirstPages
  <2>2. pre > 0 /\ c = ((pre - 1) \div P) + 1 /\ c * P < pre + P
    <3>1. c * P < pre + P /\ (pre > 0 => c = ((pre - 1) \div P) + 1) /\ (pre = 0 => c = 0)
      BY <1>2, PagesForFacts
    <3> QED BY <1>8, <3>1
  <2>3. pre \in 1..Len(row) /\ pre - 1 \in Nat
    BY <2>2
  <2>4. PICK e \in Nat, l \in 0..(P - 1) :
           e = (pre - 1) \div P /\ l = (pre - 1) % P /\ pre - 1 = e * P + l
    <3>1. /\ (pre - 1) \div P \in Nat /\ (pre - 1) % P \in 0..(P - 1)
          /\ pre - 1 = ((pre - 1) \div P) * P + ((pre - 1) % P)
      BY <2>3, Parts
    <3> QED BY <3>1, Zenon
  <2>5. b = c - 1
    <3>1. ~(b < c - 1)
      <4>1. SUFFICES ASSUME b < c - 1 PROVE FALSE
        OBVIOUS
      <4>2. c - 1 \in Nat /\ b + 1 \in Nat /\ b + 1 < c
        BY <1>2, <4>1
      <4>3. (b + 1) * P + P <= c * P
        BY <4>2, ProductUp
      <4>4. (b + 1) * P = x + P
        BY <1>1, <1>6
      <4>5. y < pre + P /\ x + P + P <= y
        BY <1>6, <2>2, <4>3, <4>4
      <4>6. z = x + k /\ k \in Nat /\ k < P
        BY <1>1, <1>4, <1>6, SMTT(30)
      <4> QED BY <1>1, <4>5, <4>6
    <3> QED BY <1>8, <3>1
  <2>6. e = b /\ pre - 1 = x + l
    <3>1. c = e + 1
      BY <2>2, <2>4
    <3>2. e = b
      BY <2>5, <3>1
    <3> QED BY <1>6, <2>4, <3>2
  <2>7. row[pre] \in Nat /\ row[pre] % P = l /\ row[pre] \div P = row[b * P + 1] \div P
    <3>1. Block(P, pre) = b
      BY <2>4, <2>6 DEF Block
    <3>2. row[pre] \in Nat
      BY <2>3, ElementOfSeq DEF RowPaged
    <3>3. row[pre] % P = l
      BY <2>3, <2>4 DEF RowPaged
    <3>4. row[pre] \div P = row[b * P + 1] \div P
      BY <2>3, <3>1, RowBlocks
    <3> QED BY <3>2, <3>3, <3>4
  <2>8. PICK g \in Nat : g = row[pre] \div P /\ row[pre] = g * P + l
    BY <2>7, Parts
  <2>9. PICK w \in Nat : w = g * P
    BY <1>1
  <2>10. s = g * P + k
    <3>1. s = row[pre] + 1 + (z - pre)
      BY <1>7, <2>1, <2>2
    <3>2. z = x + k /\ row[pre] = w + l
      BY <1>4, <1>6, <2>8, <2>9
    <3>3. pre = x + l + 1 /\ l \in Nat /\ k \in Nat
      BY <1>1, <2>6
    <3> HIDE DEF s
    <3>4. s = w + k
      BY <3>1, <3>2, <3>3
    <3> QED BY <2>9, <3>4
  <2>11. s \in Nat /\ s \div P = g /\ s % P = k
    BY <2>10, PartsOf
  <2>12. s \div P = row[Block(P, p) * P + 1] \div P /\ s % P = (p - 1) % P
    BY <1>0, <1>4, <1>5, <2>7, <2>8, <2>11
  <2> QED BY <1>2, <1>5, <1>8, <2>11, <2>12 DEF s, SlotOf
<1>9. CASE ~(b < c)
  <2>1. ~(z < c * P)
    BY <1>1, <1>4, <1>9, InFirstPages
  <2>2. PICK a \in Nat : a = b - c
    BY <1>9
  <2>3. z - c * P = a * P + k
    <3>1. a * P = x - y
      BY <1>1, <1>6, <2>2
    <3>2. z = x + k /\ k \in Nat
      <4>1. z = x + k
        BY <1>4, <1>6, Zenon
      <4>2. k \in Nat
        BY <1>1, <1>4
      <4> QED BY <4>1, <4>2
    <3>3. PICK v \in Nat : v = a * P
      BY <1>1
    <3>4. z - y = v + k
      BY <3>1, <3>2, <3>3
    <3> QED BY <1>6, <3>3, <3>4
  <2>4. (z - c * P) \div P = a /\ (z - c * P) % P = k
    BY <2>3, PartsOf
  <2>5. b < d
    <3>1. z < d * P
      <4>1. post <= d * P /\ d * P \in Nat
        BY <1>2, PagesForFacts
      <4> QED BY <1>1, <4>1
    <3> QED BY <1>1, <1>4, <3>1, InFirstPages
  <2>6. first + a + 1 \in 1..Len(free) /\ free[first + a + 1] \in Nat
    <3>1. first + a + 1 \in 1..Len(free)
      BY <1>3, <2>2, <2>5, LenProperties
    <3> QED BY <3>1, ElementOfSeq DEF Positive
  <2>7. s = free[first + a + 1] * P + k
    BY <1>7, <2>1, <2>4
  <2>8. s \in Nat /\ s \div P = free[first + a + 1] /\ s % P = k
    BY <2>6, <2>7, PartsOf
  <2>9. s % P = (p - 1) % P /\ Block(P, p) - c = a
    BY <1>0, <1>4, <1>5, <2>2, <2>8
  <2> QED BY <1>2, <1>5, <1>9, <2>6, <2>8, <2>9 DEF s, SlotOf
<1> QED BY <1>8, <1>9

\* A row that is extended keeps its slots and draws the next pages of the free list.
ExtendedTo(P, row, pre, post, first, new) ==
  /\ RowPaged(P, new) /\ Len(new) = post
  /\ \A p \in 1..pre : new[p] = row[p]
  /\ PagesIn(P, new) =
       PagesIn(P, row) \cup {free[first + i] : i \in 1..NumNewPages(pre, post)}

LEMMA ExtendRow ==
  ASSUME NEW P \in Positive, P = PageSize, NEW row, RowPaged(P, row), NEW pre \in Nat, pre = Len(row),
         NEW post \in Nat, NEW first \in Nat, free \in Seq(Positive), Unique(free),
         pre <= post, first + NumNewPages(pre, post) <= Len(free),
         PagesIn(P, row) \cap Elements(free) = {}
  PROVE  ExtendedTo(P, row, pre, post, first, row \o ExtendedSlots(row, pre, post, first))
<1> DEFINE ext == ExtendedSlots(row, pre, post, first)
           new == row \o ext
           c == PagesFor(P, pre)
           d == PagesFor(P, post)
           At(b) == IF b < c THEN row[b * P + 1] \div P ELSE free[first + (b - c) + 1]
           drawn == {free[first + i] : i \in 1..NumNewPages(pre, post)}
<1>1. /\ P \in Nat /\ P >= 1 /\ row \in Seq(Nat) /\ Len(free) \in Nat
      /\ c \in Nat /\ d \in Nat /\ c <= d /\ NumNewPages(pre, post) = d - c
  <2>1. P \in Nat /\ P >= 1
    BY DEF Positive
  <2>2. row \in Seq(Nat) /\ Len(free) \in Nat
    BY LenProperties DEF RowPaged
  <2>3. c \in Nat /\ d \in Nat
    BY PagesForFacts
  <2>4. c <= d
    BY PagesForUp
  <2>5. NumNewPages(pre, post) = d - c
    BY NewPages
  <2> QED BY <2>1, <2>2, <2>3, <2>4, <2>5
<1> HIDE DEF c, d
<1>2. ASSUME NEW p \in (pre + 1)..post
      PROVE  /\ ext[p - pre] \in Nat /\ ext[p - pre] % P = (p - 1) % P
             /\ Block(P, p) < c => ext[p - pre] \div P = row[Block(P, p) * P + 1] \div P
             /\ Block(P, p) >= c => /\ first + (Block(P, p) - c) + 1 \in 1..Len(free)
                                    /\ ext[p - pre] \div P = free[first + (Block(P, p) - c) + 1]
  <2>1. SlotOf(P, row, pre, first, p, ext[p - pre])
    BY <1>2, NewSlot
  <2> HIDE DEF ext
  <2> QED BY <2>1 DEF SlotOf, c
<1>3. /\ new \in Seq(Nat) /\ Len(new) = post
      /\ \A p \in 1..pre : new[p] = row[p]
      /\ \A p \in (pre + 1)..post : new[p] = ext[p - pre]
  <2>1. ext \in [1..(post - pre) -> Nat]
    <3>1. \A i \in 1..(post - pre) : pre + i \in (pre + 1)..post /\ (pre + i) - pre = i
      OBVIOUS
    <3>2. \A i \in 1..(post - pre) : ext[i] \in Nat
      <4> HIDE DEF ext
      <4> QED BY <1>2, <3>1
    <3>3. ext = [i \in 1..(post - pre) |-> ext[i]]
      BY DEF ExtendedSlots
    <3> HIDE DEF ext
    <3> QED BY <3>2, <3>3
  <2> HIDE DEF ext
  <2>2. ext \in Seq(Nat) /\ Len(ext) = post - pre
    <3>1. post - pre \in Nat
      OBVIOUS
    <3> QED BY <2>1, <3>1, ListOf
  <2>3. Joined(Nat, row, ext, row \o ext)
    BY <1>1, <2>2, ConcatJoins
  <2>4. new \in Seq(Nat) /\ Len(new) = pre + (post - pre)
    BY <2>2, <2>3 DEF Joined
  <2>5. \A p \in (pre + 1)..post : p - pre \in 1..(post - pre) /\ pre + (p - pre) = p
    OBVIOUS
  <2>6. \A p \in (pre + 1)..post : new[p] = ext[p - pre]
    BY <2>2, <2>3, <2>5 DEF Joined
  <2>7. \A p \in 1..pre : new[p] = row[p]
    BY <2>3 DEF Joined
  <2> QED BY <2>4, <2>6, <2>7
<1> HIDE DEF ext, new
<1>4. ASSUME NEW p \in 1..post
      PROVE  /\ Block(P, p) \in 0..(d - 1) /\ new[p] \in Nat /\ new[p] % P = (p - 1) % P
             /\ new[p] \div P = At(Block(P, p))
             /\ Block(P, p) < c => Block(P, p) * P + 1 \in 1..pre
             /\ Block(P, p) >= c => first + (Block(P, p) - c) + 1 \in 1..Len(free)
  <2>1. Block(P, p) \in 0..(d - 1)
    <3>1. p - 1 \in Nat /\ post <= d * P /\ d * P \in Nat
      BY PagesForFacts DEF d
    <3>2. p - 1 < d * P
      BY <3>1
    <3>3. (p - 1) \div P \in Nat /\ (p - 1) \div P < d
      BY <1>1, <3>1, <3>2, Parts, InFirstPages
    <3> QED BY <1>1, <3>3 DEF Block
  <2>2. Block(P, p) < c => Block(P, p) * P + 1 \in 1..pre
    BY <1>1, <2>1, RowBlocks, SMTT(30) DEF c
  <2>3. CASE p \in 1..pre
    <3>1. /\ Block(P, p) \in 0..(c - 1) /\ row[p] \div P = row[Block(P, p) * P + 1] \div P
      BY <2>3, RowBlocks DEF c
    <3>2. new[p] = row[p] /\ row[p] \in Nat /\ row[p] % P = (p - 1) % P
      BY <1>1, <1>3, <2>3, ElementOfSeq DEF RowPaged
    <3>3. Block(P, p) < c /\ ~(Block(P, p) >= c)
      BY <1>1, <3>1
    <3> QED BY <2>1, <2>2, <3>1, <3>2, <3>3
  <2>4. CASE p \in (pre + 1)..post
    <3>1. Block(P, p) < c \/ (~(Block(P, p) < c) /\ Block(P, p) >= c)
      BY <1>1, <2>1
    <3> QED BY <1>2, <1>3, <2>1, <2>2, <2>4, <3>1
  <2> QED BY <2>3, <2>4
<1>5. ASSUME NEW p \in 1..post, NEW q \in 1..post
      PROVE  new[p] \div P = new[q] \div P <=> Block(P, p) = Block(P, q)
  <2> DEFINE b == Block(P, p)
             e == Block(P, q)
  <2>1. /\ new[p] \div P = At(b) /\ new[q] \div P = At(e) /\ b \in Nat /\ e \in Nat
        /\ b < c => b * P + 1 \in 1..pre
        /\ e < c => e * P + 1 \in 1..pre
        /\ b >= c => first + (b - c) + 1 \in 1..Len(free)
        /\ e >= c => first + (e - c) + 1 \in 1..Len(free)
    BY <1>1, <1>4
  <2> HIDE DEF b, e
  <2>2. ASSUME NEW m \in Nat, NEW n \in Nat, m < c, n >= c, m * P + 1 \in 1..pre,
               first + (n - c) + 1 \in 1..Len(free)
        PROVE  At(m) # At(n)
    <3>1. At(m) \in PagesIn(P, row)
      BY <2>2 DEF PagesIn
    <3>2. At(n) = free[first + (n - c) + 1]
      BY <1>1, <2>2
    <3>3. At(n) \in Elements(free)
      <4>1. DOMAIN free = 1..Len(free)
        BY LenProperties
      <4> QED BY <2>2, <3>2, <4>1 DEF Elements
    <3> QED BY <3>1, <3>3
  <2>3. CASE b < c /\ e < c
    <3>1. /\ b * P + 1 \in 1..Len(row) /\ Block(P, b * P + 1) = b
          /\ e * P + 1 \in 1..Len(row) /\ Block(P, e * P + 1) = e
      BY <2>1, <2>3, PageStart
    <3>2. At(b) = row[b * P + 1] \div P /\ At(e) = row[e * P + 1] \div P
      BY <2>3
    <3>3. At(b) = At(e) <=> b = e
      BY <3>1, <3>2 DEF RowPaged
    <3> QED BY <2>1, <3>3 DEF b, e
  <2>4. CASE b < c /\ e >= c
    <3>1. At(b) # At(e) /\ b # e
      BY <1>1, <2>1, <2>2, <2>4
    <3> QED BY <2>1, <3>1 DEF b, e
  <2>5. CASE b >= c /\ e < c
    <3>1. At(b) # At(e) /\ b # e
      BY <1>1, <2>1, <2>2, <2>5
    <3> QED BY <2>1, <3>1 DEF b, e
  <2>6. CASE b >= c /\ e >= c
    <3>1. At(b) = free[first + (b - c) + 1] /\ At(e) = free[first + (e - c) + 1]
      BY <1>1, <2>1, <2>6
    <3>2. free[first + (b - c) + 1] = free[first + (e - c) + 1] =>
            first + (b - c) + 1 = first + (e - c) + 1
      BY <2>1, <2>6 DEF Unique
    <3>3. first + (b - c) + 1 = first + (e - c) + 1 => b = e
      BY <1>1, <2>1
    <3>4. At(b) = At(e) <=> b = e
      BY <3>1, <3>2, <3>3
    <3> QED BY <2>1, <3>4 DEF b, e
  <2> QED BY <1>1, <2>1, <2>3, <2>4, <2>5, <2>6
<1>6. RowPaged(P, new)
  BY <1>3, <1>4, <1>5 DEF RowPaged
<1>7. PagesIn(P, new) \subseteq PagesIn(P, row) \cup drawn
  <2> SUFFICES ASSUME NEW p \in 1..post PROVE new[p] \div P \in PagesIn(P, row) \cup drawn
    BY <1>3 DEF PagesIn
  <2> DEFINE b == Block(P, p)
  <2>1. /\ new[p] \div P = At(b) /\ b \in 0..(d - 1) /\ (b < c => b * P + 1 \in 1..pre)
    BY <1>4
  <2> HIDE DEF b
  <2>2. CASE b < c
    BY <2>1, <2>2 DEF PagesIn
  <2>3. CASE ~(b < c)
    <3>1. (b - c) + 1 \in 1..(d - c) /\ first + (b - c) + 1 = first + ((b - c) + 1)
      BY <1>1, <2>1, <2>3
    <3>2. At(b) = free[first + ((b - c) + 1)]
      BY <2>3, <3>1
    <3>3. At(b) \in drawn
      BY <1>1, <3>1, <3>2
    <3> QED BY <2>1, <3>3
  <2> QED BY <2>2, <2>3
<1>8. PagesIn(P, row) \subseteq PagesIn(P, new)
  <2>1. \A p \in 1..pre : p \in 1..post
    OBVIOUS
  <2> QED BY <1>3, <2>1 DEF PagesIn
<1>9. drawn \subseteq PagesIn(P, new)
  <2> SUFFICES ASSUME NEW i \in 1..(d - c) PROVE free[first + i] \in PagesIn(P, new)
    BY <1>1
  <2>1. PICK b \in Nat : b = c + i - 1
    BY <1>1
  <2>2. b < d /\ ~(b < c) /\ first + (b - c) + 1 = first + i
    BY <1>1, <2>1
  <2>3. b * P + 1 \in Positive /\ Block(P, b * P + 1) = b /\ b * P + 1 <= post
    BY <2>2, PageStart DEF d
  <2>4. b * P + 1 \in 1..post
    BY <2>3 DEF Positive
  <2>5. new[b * P + 1] \div P = At(b)
    BY <1>4, <2>3, <2>4
  <2>6. At(b) = free[first + i]
    BY <2>2
  <2> QED BY <1>3, <2>4, <2>5, <2>6 DEF PagesIn
<1> QED BY <1>3, <1>6, <1>7, <1>8, <1>9 DEF new, ext, ExtendedTo

-----------------------------------------------------------------------------
(* Pages drawn by a batch. *)

\* A running sum exists.
LEMMA RunningSum ==
  ASSUME NEW n \in Nat, NEW w \in [1..n -> Nat]
  PROVE  \E f \in [0..n -> Nat] : f = [k \in 0..n |-> IF k = 0 THEN 0 ELSE f[k - 1] + w[k]]
<1> DEFINE Is(m, f) == f[0] = 0 /\ \A k \in 1..m : f[k] = f[k - 1] + w[k]
           S == {m \in 0..n : \E f \in [0..n -> Nat] : Is(m, f)}
<1>1. 0 \in S
  <2>1. [k \in 0..n |-> 0] \in [0..n -> Nat] /\ Is(0, [k \in 0..n |-> 0]) /\ 0 \in 0..n
    OBVIOUS
  <2> QED BY <2>1
<1>2. ASSUME NEW m \in 0..(n - 1), m \in S PROVE m + 1 \in S
  <2>1. PICK f \in [0..n -> Nat] : Is(m, f)
    BY <1>2
  <2> DEFINE g == [f EXCEPT ![m + 1] = f[m] + w[m + 1]]
  <2>2. m \in 0..n /\ m + 1 \in 0..n /\ m + 1 \in 1..n
    OBVIOUS
  <2>3. g \in [0..n -> Nat] /\ g[m + 1] = f[m] + w[m + 1] /\ \A k \in 0..m : g[k] = f[k]
    <3>1. f[m] + w[m + 1] \in Nat
      BY <2>2
    <3>2. \A k \in 0..m : k \in 0..n /\ k # m + 1
      BY <2>2
    <3> QED BY <2>2, <3>1, <3>2
  <2> HIDE DEF g
  <2>4. g[0] = 0
    BY <2>1, <2>3
  <2>5. ASSUME NEW k \in 1..(m + 1) PROVE g[k] = g[k - 1] + w[k]
    <3>1. CASE k = m + 1
      <4>1. k - 1 = m /\ m \in 0..m
        BY <3>1
      <4> QED BY <2>3, <3>1, <4>1
    <3>2. CASE k # m + 1
      <4>1. k \in 1..m /\ k \in 0..m /\ k - 1 \in 0..m
        BY <3>2
      <4> QED BY <2>1, <2>3, <4>1
    <3> QED BY <3>1, <3>2
  <2> QED BY <2>2, <2>3, <2>4, <2>5
<1> HIDE DEF S
<1>3. 0..n \subseteq S
  BY <1>1, <1>2, UpTo
<1>4. PICK f \in [0..n -> Nat] : Is(n, f)
  <2>1. n \in S
    BY <1>3
  <2> QED BY <2>1 DEF S
<1>5. f = [k \in 0..n |-> IF k = 0 THEN 0 ELSE f[k - 1] + w[k]]
  <2>1. \A k \in 0..n : f[k] = IF k = 0 THEN 0 ELSE f[k - 1] + w[k]
    BY <1>4
  <2> QED BY <2>1
<1> QED BY <1>5

\* sum[k] is what the first k rows draw.
DrawnBy(pre, post, sum) ==
  /\ sum \in [0..Len(batch) -> Nat] /\ sum[0] = 0
  /\ \A k \in 1..Len(batch) :
       sum[k] = sum[k - 1] + NumNewPages(pre[batch[k]], post[batch[k]])

LEMMA PagesBeforeFacts ==
  ASSUME batch \in Seq(Reqs), NEW pre, NEW post,
         \A k \in 1..Len(batch) : NumNewPages(pre[batch[k]], post[batch[k]]) \in Nat
  PROVE  DrawnBy(pre, post, PagesBefore(pre, post))
<1> DEFINE n == Len(batch)
           w == [k \in 1..n |-> NumNewPages(pre[batch[k]], post[batch[k]])]
           sum == PagesBefore(pre, post)
<1>1. n \in Nat /\ w \in [1..n -> Nat]
  BY LenProperties
<1>2. \E f \in [0..n -> Nat] : f = [k \in 0..n |-> IF k = 0 THEN 0 ELSE f[k - 1] + w[k]]
  <2> HIDE DEF n, w
  <2> QED BY <1>1, RunningSum
<1>3. sum = CHOOSE f : f = [k \in 0..n |-> IF k = 0 THEN 0
                              ELSE f[k - 1] + NumNewPages(pre[batch[k]], post[batch[k]])]
  BY DEF PagesBefore
<1>4. \A f : f = [k \in 0..n |-> IF k = 0 THEN 0 ELSE f[k - 1] + w[k]] <=>
             f = [k \in 0..n |-> IF k = 0 THEN 0
                              ELSE f[k - 1] + NumNewPages(pre[batch[k]], post[batch[k]])]
  <2> TAKE f
  <2>1. [k \in 0..n |-> IF k = 0 THEN 0 ELSE f[k - 1] + w[k]] =
        [k \in 0..n |-> IF k = 0 THEN 0
                              ELSE f[k - 1] + NumNewPages(pre[batch[k]], post[batch[k]])]
    <3>1. \A k \in 0..n : k # 0 => k \in 1..n
      BY <1>1
    <3> QED BY <3>1
  <2> QED BY <2>1
<1>5. sum = [k \in 0..n |-> IF k = 0 THEN 0
                              ELSE sum[k - 1] + NumNewPages(pre[batch[k]], post[batch[k]])]
  <2> HIDE DEF sum, w
  <2> QED BY <1>2, <1>3, <1>4, Zenon
<1> HIDE DEF sum
<1>6. sum[0] = 0 /\ \A k \in 1..n : sum[k] = sum[k - 1] + w[k]
  <2>1. 0 \in 0..n /\ \A k \in 1..n : k \in 0..n /\ k # 0
    BY <1>1
  <2> HIDE DEF n
  <2>2. sum[0] = 0
    BY <1>5, <2>1
  <2>3. \A k \in 1..n : sum[k] = sum[k - 1] + NumNewPages(pre[batch[k]], post[batch[k]])
    BY <1>5, <2>1
  <2> QED BY <2>2, <2>3
<1>7. sum \in [0..n -> Nat]
  <2> DEFINE S == {k \in 0..n : sum[k] \in Nat}
  <2> HIDE DEF n, w
  <2>1. 0 \in S
    BY <1>1, <1>6
  <2>2. ASSUME NEW k \in 0..(n - 1), k \in S PROVE k + 1 \in S
    <3>1. k + 1 \in 1..n /\ k + 1 \in 0..n /\ (k + 1) - 1 = k
      BY <1>1
    <3>2. sum[k + 1] = sum[k] + w[k + 1] /\ w[k + 1] \in Nat /\ sum[k] \in Nat
      BY <1>1, <1>6, <2>2, <3>1
    <3> QED BY <3>1, <3>2
  <2> HIDE DEF S
  <2>3. 0..n \subseteq S
    BY <1>1, <2>1, <2>2, UpTo
  <2>4. \A k \in 0..n : sum[k] \in Nat
    BY <2>3 DEF S
  <2>5. DOMAIN sum = 0..n /\ sum = [k \in DOMAIN sum |-> sum[k]]
    BY <1>5
  <2> QED BY <2>4, <2>5
<1> QED BY <1>6, <1>7 DEF sum, DrawnBy

\* The parts of the free list the rows draw from: in order, without gaps.
LEMMA PartsOfSum ==
  ASSUME NEW n \in Nat, NEW w \in [1..n -> Nat], NEW sum \in [0..n -> Nat], sum[0] = 0,
         \A k \in 1..n : sum[k] = sum[k - 1] + w[k]
  PROVE  /\ \A l \in 0..n : \A k \in 0..l : sum[k] <= sum[l]
         /\ \A i \in 1..sum[n] : \E k \in 1..n : sum[k - 1] < i /\ i <= sum[k]
<1>0. ASSUME NEW l \in 0..(n - 1)
      PROVE  /\ l + 1 \in 1..n /\ l + 1 \in 0..n /\ l \in 0..n /\ sum[l + 1] = sum[l] + w[l + 1]
             /\ w[l + 1] \in Nat /\ sum[l] \in Nat /\ sum[l + 1] \in Nat
  <2>1. l + 1 \in 1..n /\ l + 1 \in 0..n /\ l \in 0..n /\ (l + 1) - 1 = l
    OBVIOUS
  <2> QED BY <2>1
<1>1. \A l \in 0..n : \A k \in 0..l : sum[k] <= sum[l]
  <2> DEFINE S == {l \in 0..n : \A k \in 0..l : sum[k] <= sum[l]}
  <2>1. 0 \in S
    OBVIOUS
  <2>2. ASSUME NEW l \in 0..(n - 1), l \in S PROVE l + 1 \in S
    <3> SUFFICES ASSUME NEW k \in 0..(l + 1) PROVE sum[k] <= sum[l + 1]
      BY <1>0
    <3>1. CASE k = l + 1
      BY <1>0, <3>1
    <3>2. CASE k # l + 1
      <4>1. k \in 0..l /\ k \in 0..n
        BY <3>2
      <4>2. sum[k] <= sum[l] /\ sum[k] \in Nat
        BY <2>2, <4>1
      <4> QED BY <1>0, <4>2
    <3> QED BY <3>1, <3>2
  <2> HIDE DEF S
  <2>3. 0..n \subseteq S
    BY <2>1, <2>2, UpTo
  <2> QED BY <2>3 DEF S
<1>2. \A i \in 1..sum[n] : \E k \in 1..n : sum[k - 1] < i /\ i <= sum[k]
  <2> DEFINE S == {l \in 0..n : \A i \in 1..sum[l] : \E k \in 1..n : sum[k - 1] < i /\ i <= sum[k]}
  <2>1. 0 \in S
    OBVIOUS
  <2>2. ASSUME NEW l \in 0..(n - 1), l \in S PROVE l + 1 \in S
    <3> SUFFICES ASSUME NEW i \in 1..sum[l + 1]
                 PROVE  \E k \in 1..n : sum[k - 1] < i /\ i <= sum[k]
      BY <1>0
    <3>1. CASE i <= sum[l]
      <4>1. i \in 1..sum[l]
        BY <1>0, <3>1
      <4> QED BY <2>2, <4>1
    <3>2. CASE ~(i <= sum[l])
      <4>1. sum[(l + 1) - 1] < i /\ i <= sum[l + 1] /\ l + 1 \in 1..n
        <5>1. (l + 1) - 1 = l
          OBVIOUS
        <5> QED BY <1>0, <3>2, <5>1
      <4> QED BY <4>1
    <3> QED BY <3>1, <3>2
  <2> HIDE DEF S
  <2>3. 0..n \subseteq S
    BY <2>1, <2>2, UpTo
  <2>4. n \in S
    BY <2>3
  <2> QED BY <2>4 DEF S
<1> QED BY <1>1, <1>2

-----------------------------------------------------------------------------
(* Who owns the pages. *)

\* Rows T and free list F of N pages: a page is free or in one row.
PageState(P, N, T, F) ==
  /\ F \in Seq(Positive) /\ Unique(F)
  /\ \A r \in Reqs : RowPaged(P, T[r]) /\ PagesIn(P, T[r]) \cap Elements(F) = {}
  /\ \A q, r \in Reqs : q # r => PagesIn(P, T[q]) \cap PagesIn(P, T[r]) = {}
  /\ \A g : g \in 1..N <=> (g \in Elements(F) \/ \E r \in Reqs : g \in PagesIn(P, T[r]))

\* Pages move from the free list to the rows.
Taken(P, T, F, T2, F2, drawn) ==
  /\ F2 \in Seq(Positive) /\ Unique(F2)
  /\ \A r \in Reqs : /\ RowPaged(P, T2[r]) /\ drawn[r] \subseteq Elements(F)
                     /\ PagesIn(P, T2[r]) = PagesIn(P, T[r]) \cup drawn[r]
  /\ \A q, r \in Reqs : q # r => drawn[q] \cap drawn[r] = {}
  /\ \A g : g \in Elements(F2) <=> (g \in Elements(F) /\ \A r \in Reqs : g \notin drawn[r])

LEMMA Take ==
  ASSUME NEW P, NEW N, NEW T, NEW F, PageState(P, N, T, F), NEW T2, NEW F2, NEW drawn,
         Taken(P, T, F, T2, F2, drawn)
  PROVE  PageState(P, N, T2, F2)
<1> USE DEF Taken
<1>1. ASSUME NEW r \in Reqs PROVE PagesIn(P, T2[r]) \cap Elements(F2) = {}
  BY DEF PageState
<1>2. ASSUME NEW q \in Reqs, NEW r \in Reqs, q # r
      PROVE  PagesIn(P, T2[q]) \cap PagesIn(P, T2[r]) = {}
  <2> SUFFICES ASSUME NEW g \in PagesIn(P, T2[q]), g \in PagesIn(P, T2[r]) PROVE FALSE
    OBVIOUS
  <2>1. /\ g \in PagesIn(P, T[q]) \/ g \in drawn[q]
        /\ g \in PagesIn(P, T[r]) \/ g \in drawn[r]
    OBVIOUS
  <2>2. /\ PagesIn(P, T[q]) \cap Elements(F) = {} /\ PagesIn(P, T[r]) \cap Elements(F) = {}
        /\ PagesIn(P, T[q]) \cap PagesIn(P, T[r]) = {}
        /\ drawn[q] \subseteq Elements(F) /\ drawn[r] \subseteq Elements(F)
        /\ drawn[q] \cap drawn[r] = {}
    BY <1>2 DEF PageState
  <2> QED BY <2>1, <2>2
<1>3. ASSUME NEW g
      PROVE  (g \in Elements(F) \/ \E r \in Reqs : g \in PagesIn(P, T[r])) <=>
             (g \in Elements(F2) \/ \E r \in Reqs : g \in PagesIn(P, T2[r]))
  OBVIOUS
<1> QED BY <1>1, <1>2, <1>3 DEF PageState

\* Pages move from the rows to the free list.
GivenBack(P, T, F, T2, F2) ==
  /\ F2 \in Seq(Positive) /\ Unique(F2)
  /\ \A r \in Reqs : RowPaged(P, T2[r]) /\ PagesIn(P, T2[r]) \subseteq PagesIn(P, T[r])
  /\ \A g : g \in Elements(F2) <=>
               \/ g \in Elements(F)
               \/ \E r \in Reqs : g \in PagesIn(P, T[r]) /\ g \notin PagesIn(P, T2[r])

LEMMA GiveBack ==
  ASSUME NEW P, NEW N, NEW T, NEW F, PageState(P, N, T, F), NEW T2, NEW F2,
         GivenBack(P, T, F, T2, F2)
  PROVE  PageState(P, N, T2, F2)
<1> USE DEF GivenBack
<1>1. ASSUME NEW r \in Reqs PROVE PagesIn(P, T2[r]) \cap Elements(F2) = {}
  <2> SUFFICES ASSUME NEW g \in PagesIn(P, T2[r]), g \in Elements(F2) PROVE FALSE
    OBVIOUS
  <2>1. g \in PagesIn(P, T[r]) /\ g \notin Elements(F)
    BY DEF PageState
  <2>2. PICK q \in Reqs : g \in PagesIn(P, T[q]) /\ g \notin PagesIn(P, T2[q])
    BY <2>1
  <2>3. q # r
    BY <2>2
  <2>4. PagesIn(P, T[q]) \cap PagesIn(P, T[r]) = {}
    BY <2>3 DEF PageState
  <2> QED BY <2>1, <2>2, <2>4
<1>2. ASSUME NEW q \in Reqs, NEW r \in Reqs, q # r
      PROVE  PagesIn(P, T2[q]) \cap PagesIn(P, T2[r]) = {}
  <2>1. PagesIn(P, T[q]) \cap PagesIn(P, T[r]) = {}
    BY <1>2 DEF PageState
  <2> QED BY <2>1
<1>3. ASSUME NEW g
      PROVE  (g \in Elements(F) \/ \E r \in Reqs : g \in PagesIn(P, T[r])) <=>
             (g \in Elements(F2) \/ \E r \in Reqs : g \in PagesIn(P, T2[r]))
  OBVIOUS
<1> QED BY <1>1, <1>2, <1>3 DEF PageState

\* A slot is a slot of the pool if its page is one of the pool.
LEMMA SlotPage ==
  ASSUME NEW P \in Positive, NEW N \in Nat, NEW s \in Nat
  PROVE  s \in P..((N + 1) * P - 1) <=> s \div P \in 1..N
<1>1. P \in Nat /\ P >= 1 /\ N + 1 \in Nat /\ 1 * P = P
  BY DEF Positive
<1>2. PICK x \in Nat : x = (N + 1) * P
  BY <1>1
<1>3. s < (N + 1) * P <=> s \div P < N + 1
  BY <1>1, InFirstPages
<1>4. s < 1 * P <=> s \div P < 1
  BY InFirstPages
<1>5. s \div P \in Nat
  BY Parts
<1> QED BY <1>1, <1>2, <1>3, <1>4, <1>5

\* A list without repetition has as many elements as entries.
LEMMA UniqueCount ==
  ASSUME NEW S, NEW s \in Seq(S), Unique(s)
  PROVE  /\ IsFiniteSet(Elements(s)) /\ Cardinality(Elements(s)) = Len(s)
         /\ Elements(s) \subseteq S
<1> DEFINE n == Len(s)
           f == [i \in 1..n |-> s[i]]
<1>1. n \in Nat /\ DOMAIN s = 1..n /\ \A i \in 1..n : s[i] \in S
  BY LenProperties, ElementOfSeq
<1>2. f \in Bijection(1..n, Elements(s))
  <2>1. f \in [1..n -> Elements(s)]
    BY <1>1 DEF Elements
  <2>2. \A i, j \in 1..n : f[i] = f[j] => i = j
    BY <1>1 DEF Unique
  <2>3. \A t \in Elements(s) : \E i \in 1..n : f[i] = t
    BY <1>1 DEF Elements
  <2> QED BY <2>1, <2>2, <2>3 DEF Bijection, Injection, Surjection, IsInjective
<1>3. ExistsBijection(1..n, Elements(s))
  BY <1>2 DEF ExistsBijection
<1>4. IsFiniteSet(Elements(s)) /\ Cardinality(Elements(s)) = n
  BY <1>1, <1>3, FS_NatBijection, FS_CountingElements
<1> QED BY <1>1, <1>4 DEF Elements

\* A list of elements of R.
LEMMA ListWithin ==
  ASSUME NEW S, NEW R, NEW s \in Seq(S), \A i \in 1..Len(s) : s[i] \in R
  PROVE  s \in Seq(R)
<1>1. Len(s) \in Nat /\ s \in [1..Len(s) -> S]
  BY LenProperties
<1>2. s \in [1..Len(s) -> R]
  BY <1>1
<1> QED BY <1>1, <1>2, ListOf

\* free adds the pages of the slots, each once.
LEMMA FreedFacts ==
  ASSUME NEW P \in Positive, P = PageSize, NEW list \in Seq(Positive), Unique(list),
         NEW slots \in Seq(Nat), P = 1 => Unique(slots),
         PagesIn(P, slots) \subseteq Positive, PagesIn(P, slots) \cap Elements(list) = {}
  PROVE  /\ Freed(list, slots) \in Seq(Positive) /\ Unique(Freed(list, slots))
         /\ Elements(Freed(list, slots)) = Elements(list) \cup PagesIn(P, slots)
<1>1. Len(slots) \in Nat /\ DOMAIN slots = 1..Len(slots) /\ \A i \in 1..Len(slots) : slots[i] \in Nat
  BY LenProperties, ElementOfSeq
<1>2. CASE slots = <<>>
  <2>1. 1..Len(slots) = {}
    BY <1>2
  <2>2. PagesIn(P, slots) = {}
    BY <2>1 DEF PagesIn
  <2> QED BY <1>2, <2>2 DEF Freed
<1>3. CASE slots # <<>> /\ P = 1
  <2>1. Freed(list, slots) = list \o slots
    BY <1>3 DEF Freed
  <2>2. PagesIn(P, slots) = Elements(slots)
    BY <1>3, UnitPages
  <2>3. slots \in Seq(Positive)
    <3>1. \A i \in 1..Len(slots) : slots[i] \in Positive
      BY <1>1, <2>2 DEF Elements
    <3> QED BY <3>1, ListWithin
  <2> QED BY <1>3, <2>1, <2>2, <2>3, ConcatUnique
<1>4. CASE slots # <<>> /\ P # 1
  <2> DEFINE pages == {PageOf(slots[i]) : i \in DOMAIN slots}
  <2>1. pages = PagesIn(P, slots)
    BY <1>1 DEF PagesIn, PageOf
  <2>2. Freed(list, slots) = Ascending(pages) \o list
    BY <1>4 DEF Freed
  <2>3. IsFiniteSet(pages)
    <3>1. IsFiniteSet(1..Len(slots))
      BY <1>1, FS_Interval
    <3>2. IsFiniteSet({slots[i] \div P : i \in 1..Len(slots)})
      <4> DEFINE f == [i \in 1..Len(slots) |-> slots[i] \div P]
      <4>1. f \in Surjection(1..Len(slots), PagesIn(P, slots))
        BY DEF PagesIn, Surjection
      <4> HIDE DEF f
      <4>2. IsFiniteSet(PagesIn(P, slots))
        BY <3>1, <4>1, FS_Surjection
      <4> QED BY <4>2 DEF PagesIn
    <3> QED BY <2>1, <3>2 DEF PagesIn
  <2> HIDE DEF pages
  <2>4. /\ Ascending(pages) \in Seq(Positive) /\ Unique(Ascending(pages))
        /\ Elements(Ascending(pages)) = pages
    BY <2>1, <2>3, AscendingFacts
  <2>5. /\ Ascending(pages) \o list \in Seq(Positive) /\ Unique(Ascending(pages) \o list)
        /\ Elements(Ascending(pages) \o list) = pages \cup Elements(list)
    <3>1. Elements(Ascending(pages)) \cap Elements(list) = {}
      BY <2>1, <2>4
    <3> QED BY <2>4, <3>1, ConcatUnique
  <2> QED BY <2>1, <2>2, <2>5
<1> QED BY <1>2, <1>3, <1>4

\* A row cut behind a position: the pages up to there, and the pages from the
\* next page boundary on.
LEMMA CutPages ==
  ASSUME NEW P \in Positive, P = PageSize, NEW row, RowPaged(P, row), NEW n \in 0..Len(row)
  PROVE  LET front == SubSeq(row, 1, n)
             rest == SubSeq(row, CeilAlign(n) + 1, Len(row))
         IN  /\ rest \in Seq(Nat) /\ Unique(rest)
             /\ \A i \in 1..Len(rest) : CeilAlign(n) + i \in 1..Len(row) /\ rest[i] = row[CeilAlign(n) + i]
             /\ PagesIn(P, row) = PagesIn(P, front) \cup PagesIn(P, rest)
             /\ PagesIn(P, front) \cap PagesIn(P, rest) = {}
<1> DEFINE front == SubSeq(row, 1, n)
           rest == SubSeq(row, CeilAlign(n) + 1, Len(row))
           m == Len(row)
           c == PagesFor(P, n)
<1>1. P \in Nat /\ P >= 1 /\ m \in Nat /\ row \in Seq(Nat) /\ n \in Nat /\ n <= m /\ Unique(row)
  <2>1. row \in Seq(Nat) /\ m \in Nat /\ P \in Nat /\ P >= 1
    BY LenProperties DEF RowPaged, Positive
  <2>2. Unique(row)
    BY RowUnique
  <2> QED BY <2>1, <2>2
<1>2. PICK y \in Nat : y = CeilAlign(n) /\ y = c * P /\ n <= y
  <2>1. CeilAlign(n) = c * P
    BY <1>1, NewPages
  <2>2. c * P \in Nat /\ n <= c * P
    BY <1>1, PagesForFacts
  <2> QED BY <2>1, <2>2
<1>3. c \in Nat
  BY <1>1, PagesForFacts
<1> HIDE DEF c
<1>4. /\ rest \in Seq(Nat) /\ Len(rest) \in Nat
      /\ Len(rest) = IF y < m THEN m - y ELSE 0
      /\ \A i \in 1..Len(rest) : y + i \in 1..m /\ rest[i] = row[y + i]
  <2>1. \A i \in (y + 1)..m : row[i] \in Nat
    <3>1. \A i \in (y + 1)..m : i \in 1..m
      BY <1>1
    <3> QED BY <1>1, <3>1, ElementOfSeq
  <2>3. /\ rest \in Seq(Nat) /\ Len(rest) = IF y + 1 <= m THEN m - (y + 1) + 1 ELSE 0
        /\ \A i \in 1..(m - (y + 1) + 1) : rest[i] = row[(y + 1) + i - 1]
    <3>1. rest = SubSeq(row, y + 1, m)
      BY <1>2
    <3>2. y + 1 \in Nat /\ y + 1 >= 1
      OBVIOUS
    <3> HIDE DEF rest, m
    <3> QED BY <1>1, <2>1, <3>1, <3>2, SubSeqProperties
  <2> HIDE DEF rest
  <2>4. Len(rest) = IF y < m THEN m - y ELSE 0
    BY <1>1, <2>3
  <2>5. Len(rest) \in Nat
    BY <1>1, <2>4
  <2>6. ASSUME NEW i \in 1..Len(rest) PROVE y + i \in 1..m /\ rest[i] = row[y + i]
    <3>1. y < m /\ Len(rest) = m - y
      BY <1>1, <2>4
    <3>2. y + i \in 1..m /\ i \in 1..(m - (y + 1) + 1) /\ (y + 1) + i - 1 = y + i
      BY <1>1, <3>1
    <3> QED BY <2>3, <3>2
  <2> QED BY <2>3, <2>4, <2>5, <2>6
<1>5. /\ front \in Seq(Nat) /\ Len(front) = n /\ \A p \in 1..n : front[p] = row[p]
  BY CutRow
<1>6. Unique(rest)
  <2> HIDE DEF rest
  <2> SUFFICES ASSUME NEW i \in 1..Len(rest), NEW j \in 1..Len(rest), rest[i] = rest[j] PROVE i = j
    BY DEF Unique
  <2>1. y + i = y + j
    BY <1>1, <1>4 DEF Unique
  <2> QED BY <1>4, <2>1
<1>7. ASSUME NEW p \in 1..m PROVE Block(P, p) \in Nat /\ (Block(P, p) < c <=> p <= y)
  <2>1. p - 1 \in Nat
    BY <1>1
  <2>2. p - 1 < c * P <=> (p - 1) \div P < c
    BY <1>3, <2>1, InFirstPages
  <2>3. (p - 1) \div P \in Nat
    BY <2>1, Parts
  <2>4. p - 1 < y <=> p <= y
    BY <1>1
  <2> QED BY <1>2, <2>2, <2>3, <2>4 DEF Block
<1> HIDE DEF front, rest
<1>8. PagesIn(P, front) \cup PagesIn(P, rest) \subseteq PagesIn(P, row)
  <2>1. \A p \in 1..n : p \in 1..m
    BY <1>1
  <2> QED BY <1>4, <1>5, <2>1 DEF PagesIn
<1>9. ASSUME NEW p \in 1..m PROVE row[p] \div P \in PagesIn(P, front) \cup PagesIn(P, rest)
  <2>1. CASE p <= y
    <3> DEFINE b == Block(P, p)
    <3>1. b \in Nat /\ b < c
      BY <1>7, <2>1
    <3>2. b * P + 1 \in Positive /\ Block(P, b * P + 1) = b /\ b * P + 1 <= n
      BY <1>1, <3>1, PageStart DEF c
    <3>3. b * P + 1 \in 1..n /\ b * P + 1 \in 1..m
      <4>1. PICK z \in Nat : z = b * P
        BY <1>1, <3>1
      <4> QED BY <1>1, <3>2, <4>1
    <3>4. row[b * P + 1] \div P = row[p] \div P
      BY <3>2, <3>3 DEF RowPaged
    <3>5. front[b * P + 1] \div P \in PagesIn(P, front)
      BY <1>5, <3>3 DEF PagesIn
    <3> QED BY <1>5, <3>3, <3>4, <3>5
  <2>2. CASE ~(p <= y)
    <3>1. p - y \in 1..Len(rest) /\ y + (p - y) = p
      BY <1>1, <1>4, <2>2
    <3> QED BY <1>4, <3>1 DEF PagesIn
  <2> QED BY <2>1, <2>2
<1>10. ASSUME NEW p \in 1..n, NEW i \in 1..Len(rest) PROVE front[p] \div P # rest[i] \div P
  <2>1. p \in 1..m /\ p <= y /\ y + i \in 1..m /\ ~(y + i <= y)
    BY <1>1, <1>2, <1>4, SMTT(30)
  <2>2. Block(P, p) < c /\ ~(Block(P, y + i) < c)
    BY <1>7, <2>1
  <2>3. row[p] \div P # row[y + i] \div P
    BY <2>1, <2>2 DEF RowPaged
  <2> QED BY <1>4, <1>5, <2>3
<1>11. PagesIn(P, row) \subseteq PagesIn(P, front) \cup PagesIn(P, rest)
  BY <1>9 DEF PagesIn
<1>12. PagesIn(P, front) \cap PagesIn(P, rest) = {}
  BY <1>5, <1>10 DEF PagesIn
<1> QED BY <1>2, <1>4, <1>6, <1>8, <1>11, <1>12 DEF front, rest

\* The entries of a list from a + 1 to b.
PieceOf(S, s, a, b, piece) ==
  /\ piece \in Seq(S) /\ Len(piece) = b - a
  /\ \A i \in 1..(b - a) : piece[i] = s[a + i]

LEMMA Piece ==
  ASSUME NEW S, NEW s \in Seq(S), NEW a \in Nat, NEW b \in Nat, a <= b, b <= Len(s)
  PROVE  PieceOf(S, s, a, b, SubSeq(s, a + 1, b))
<1> DEFINE t == SubSeq(s, a + 1, b)
<1>1. Len(s) \in Nat
  BY LenProperties
<1>2. \A i \in (a + 1)..b : s[i] \in S
  <2>1. \A i \in (a + 1)..b : i \in 1..Len(s)
    BY <1>1
  <2> QED BY <2>1, ElementOfSeq
<1>3. a + 1 \in Int /\ b \in Int
  OBVIOUS
<1>4. /\ t \in Seq(S) /\ Len(t) = IF a + 1 <= b THEN b - (a + 1) + 1 ELSE 0
      /\ \A i \in 1..(b - (a + 1) + 1) : t[i] = s[(a + 1) + i - 1]
  BY <1>2, <1>3, SubSeqProperties
<1> HIDE DEF t
<1>5. Len(t) = b - a
  BY <1>4
<1>6. \A i \in 1..(b - a) : i \in 1..(b - (a + 1) + 1) /\ (a + 1) + i - 1 = a + i
  OBVIOUS
<1>7. \A i \in 1..(b - a) : t[i] = s[a + i]
  BY <1>4, <1>6
<1> QED BY <1>4, <1>5, <1>7 DEF PieceOf, t

LEMMA WholePiece ==
  ASSUME NEW S, NEW s \in Seq(S)
  PROVE  SubSeq(s, 1, Len(s)) = s
<1>1. Len(s) \in Nat
  BY LenProperties
<1> DEFINE t == SubSeq(s, 0 + 1, Len(s))
<1>2. PieceOf(S, s, 0, Len(s), t)
  BY <1>1, Piece
<1> HIDE DEF t
<1>3. t \in Seq(S) /\ Len(t) = Len(s) /\ \A i \in 1..Len(s) : t[i] = s[i]
  <2>1. Len(s) - 0 = Len(s) /\ \A i \in 1..Len(s) : 0 + i = i
    BY <1>1
  <2> QED BY <1>2, <2>1 DEF PieceOf
<1>4. t = s
  BY <1>3, SeqEqual
<1>5. 0 + 1 = 1
  OBVIOUS
<1> QED BY <1>4, <1>5 DEF t

\* rest is the list without its first k entries.
Dropped(list, k, rest) ==
  /\ rest \in Seq(Positive) /\ Unique(rest)
  /\ Elements(rest) \cup {list[i] : i \in 1..k} = Elements(list)
  /\ Elements(rest) \cap {list[i] : i \in 1..k} = {}

LEMMA DropSome ==
  ASSUME NEW list \in Seq(Positive), Unique(list), NEW k \in Nat, k <= Len(list)
  PROVE  Dropped(list, k, SubSeq(list, k + 1, Len(list)))
<1>1. Len(list) \in Nat
  BY LenProperties
<1>2. CASE k = 0
  <2>1. SubSeq(list, k + 1, Len(list)) = list
    BY <1>2, WholePiece
  <2>2. {list[i] : i \in 1..k} = {}
    BY <1>2
  <2> QED BY <2>1, <2>2 DEF Dropped
<1>3. CASE k # 0
  <2>1. k \in 1..Len(list)
    BY <1>1, <1>3
  <2> QED BY <2>1, DropFront DEF Dropped
<1> QED BY <1>2, <1>3

\* The rows and the free list once the batch has been served.
Served(P, pre, post) ==
  LET T == ExtendedTable(pre, post)
  IN  /\ PageState(P, NumPages, T, FreeAfterExtend(pre, post))
      /\ \A r \in Reqs \ BatchReqs : T[r] = table[r]
      /\ \A r \in BatchReqs : /\ Len(T[r]) = post[r]
                              /\ \A p \in 1..pre[r] : T[r][p] = table[r][p]

LEMMA AllocFacts ==
  ASSUME NEW P \in Positive, P = PageSize, PageState(P, NumPages, table, free),
         batch \in Seq(Reqs), Unique(batch), NEW pre \in [Reqs -> Nat], NEW post \in [Reqs -> Nat],
         \A r \in BatchReqs : pre[r] = Len(table[r]) /\ pre[r] <= post[r],
         AllocFits(pre, post)
  PROVE  Served(P, pre, post)
<1> DEFINE n == Len(batch)
           sum == PagesBefore(pre, post)
           w == [k \in 1..n |-> NumNewPages(pre[batch[k]], post[batch[k]])]
           T == ExtendedTable(pre, post)
           F == FreeAfterExtend(pre, post)
           At(r) == RowIndex(r)
           New(r) == NumNewPages(pre[r], post[r])
           drawn == [r \in Reqs |-> IF r \in BatchReqs
                                    THEN {free[sum[At(r) - 1] + i] : i \in 1..New(r)} ELSE {}]
<1>1. /\ n \in Nat /\ DOMAIN batch = 1..n /\ BatchReqs \subseteq Reqs
      /\ \A k \in 1..n : batch[k] \in BatchReqs
      /\ free \in Seq(Positive) /\ Len(free) \in Nat /\ DOMAIN free = 1..Len(free) /\ Unique(free)
  BY LenProperties, ElementOfSeq DEF PageState, BatchReqs, Elements
<1>2. \A r \in BatchReqs : New(r) \in Nat
  BY <1>1, NewPages
<1>3. ASSUME NEW r \in BatchReqs PROVE At(r) \in 1..n /\ batch[At(r)] = r
  <2>1. \E k \in DOMAIN batch : batch[k] = r
    BY DEF BatchReqs, Elements
  <2> QED BY <1>1, <2>1 DEF RowIndex
<1>4. \A q, r \in BatchReqs : At(q) = At(r) => q = r
  BY <1>3
<1>5. /\ sum \in [0..n -> Nat] /\ sum[0] = 0 /\ w \in [1..n -> Nat]
      /\ \A k \in 1..n : sum[k] = sum[k - 1] + w[k]
  <2>1. \A k \in 1..n : NumNewPages(pre[batch[k]], post[batch[k]]) \in Nat
    BY <1>1, <1>2
  <2>2. /\ sum \in [0..n -> Nat] /\ sum[0] = 0
        /\ \A k \in 1..n : sum[k] = sum[k - 1] + NumNewPages(pre[batch[k]], post[batch[k]])
    <3>1. DrawnBy(pre, post, sum)
      BY <2>1, PagesBeforeFacts
    <3> HIDE DEF sum
    <3> QED BY <3>1 DEF DrawnBy
  <2> QED BY <2>1, <2>2
<1> HIDE DEF sum, At, w
<1>6. /\ \A l \in 0..n : \A k \in 0..l : sum[k] <= sum[l]
      /\ \A i \in 1..sum[n] : \E k \in 1..n : sum[k - 1] < i /\ i <= sum[k]
  BY <1>1, <1>5, PartsOfSum
<1>7. sum[n] <= Len(free) /\ sum[n] \in Nat
  <2>1. n \in 0..n
    BY <1>1
  <2>2. sum[n] <= Len(free)
    BY DEF AllocFits, sum
  <2> QED BY <1>5, <2>1, <2>2
<1>8. ASSUME NEW r \in BatchReqs
      PROVE  /\ At(r) - 1 \in 0..n /\ sum[At(r) - 1] \in Nat
             /\ sum[At(r)] = sum[At(r) - 1] + New(r) /\ sum[At(r)] <= sum[n]
  <2>1. At(r) \in 1..n /\ At(r) \in 0..n /\ At(r) - 1 \in 0..n /\ n \in 0..n
    BY <1>1, <1>3
  <2>2. w[At(r)] = New(r)
    BY <1>3 DEF w
  <2> QED BY <1>1, <1>5, <1>6, <2>1, <2>2
<1>9. ASSUME NEW r \in BatchReqs
      PROVE  /\ RowPaged(P, T[r]) /\ Len(T[r]) = post[r]
             /\ \A p \in 1..pre[r] : T[r][p] = table[r][p]
             /\ PagesIn(P, T[r]) = PagesIn(P, table[r]) \cup drawn[r]
  <2> DEFINE a == sum[At(r) - 1]
             new == table[r] \o ExtendedSlots(table[r], pre[r], post[r], a)
  <2>1. /\ RowPaged(P, table[r]) /\ table[r] \in Seq(Nat) /\ PagesIn(P, table[r]) \cap Elements(free) = {}
    BY <1>1 DEF PageState, RowPaged
  <2>2. SubSeq(table[r], 1, pre[r]) = table[r]
    BY <2>1, WholePiece
  <2>3. T[r] = new
    BY <1>1, <2>2 DEF ExtendedTable, sum, At
  <2>4. a \in Nat /\ a + New(r) <= Len(free)
    BY <1>1, <1>2, <1>7, <1>8
  <2>5. pre[r] \in Nat /\ post[r] \in Nat
    BY <1>1
  <2>6. drawn[r] = {free[a + i] : i \in 1..New(r)}
    BY <1>1
  <2> HIDE DEF a, T, drawn
  <2>7. /\ RowPaged(P, new) /\ Len(new) = post[r] /\ \A p \in 1..pre[r] : new[p] = table[r][p]
        /\ PagesIn(P, new) = PagesIn(P, table[r]) \cup {free[a + i] : i \in 1..New(r)}
    <3>1. ExtendedTo(P, table[r], pre[r], post[r], a, new)
      BY <1>1, <2>1, <2>4, <2>5, ExtendRow
    <3> HIDE DEF new
    <3> QED BY <3>1 DEF ExtendedTo
  <2> QED BY <2>3, <2>6, <2>7
<1>10. \A r \in Reqs \ BatchReqs : T[r] = table[r] /\ drawn[r] = {}
  BY DEF ExtendedTable
<1> HIDE DEF T
<1>11. ASSUME NEW r \in BatchReqs, NEW i \in 1..New(r)
       PROVE  sum[At(r) - 1] + i \in 1..sum[n] /\ sum[At(r) - 1] + i \in 1..Len(free)
  BY <1>1, <1>2, <1>7, <1>8, SMTT(30)
<1>12. ASSUME NEW q \in Reqs, NEW r \in Reqs, q # r PROVE drawn[q] \cap drawn[r] = {}
  <2>1. CASE q \in BatchReqs /\ r \in BatchReqs
    <3> SUFFICES ASSUME NEW i \in 1..New(q), NEW j \in 1..New(r),
                        free[sum[At(q) - 1] + i] = free[sum[At(r) - 1] + j]
                 PROVE  FALSE
      BY <2>1
    <3>1. sum[At(q) - 1] + i = sum[At(r) - 1] + j
      BY <1>1, <1>11, <2>1 DEF Unique
    <3>2. /\ At(q) \in 1..n /\ At(r) \in 1..n /\ At(q) # At(r)
      BY <1>3, <1>4, <1>12, <2>1
    <3>3. CASE At(q) < At(r)
      <4>1. sum[At(q)] <= sum[At(r) - 1]
        <5>1. At(r) - 1 \in 0..n /\ At(q) \in 0..(At(r) - 1)
          <6>1. PICK k \in 1..n, l \in 1..n : k = At(q) /\ l = At(r)
            BY <3>2
          <6>2. k < l
            BY <3>3, <6>1
          <6>3. l - 1 \in 0..n /\ k \in 0..(l - 1)
            BY <1>1, <6>2
          <6> QED BY <6>1, <6>3
        <5> QED BY <1>6, <5>1
      <4>2. /\ sum[At(q) - 1] \in Nat /\ sum[At(r) - 1] \in Nat
            /\ sum[At(q)] = sum[At(q) - 1] + New(q) /\ New(q) \in Nat
        BY <1>2, <1>8, <2>1
      <4> QED BY <3>1, <4>1, <4>2
    <3>4. CASE At(r) < At(q)
      <4>1. sum[At(r)] <= sum[At(q) - 1]
        <5>1. At(q) - 1 \in 0..n /\ At(r) \in 0..(At(q) - 1)
          <6>1. PICK k \in 1..n, l \in 1..n : k = At(r) /\ l = At(q)
            BY <3>2
          <6>2. k < l
            BY <3>4, <6>1
          <6>3. l - 1 \in 0..n /\ k \in 0..(l - 1)
            BY <1>1, <6>2
          <6> QED BY <6>1, <6>3
        <5> QED BY <1>6, <5>1
      <4>2. /\ sum[At(r) - 1] \in Nat /\ sum[At(q) - 1] \in Nat
            /\ sum[At(r)] = sum[At(r) - 1] + New(r) /\ New(r) \in Nat
        BY <1>2, <1>8, <2>1
      <4> QED BY <3>1, <4>1, <4>2, SMTT(30)
    <3> QED BY <1>1, <3>2, <3>3, <3>4
  <2>2. CASE q \notin BatchReqs \/ r \notin BatchReqs
    BY <1>10, <2>2
  <2> QED BY <2>1, <2>2
<1>13. /\ F \in Seq(Positive) /\ Unique(F)
       /\ \A g : g \in Elements(F) <=> (g \in Elements(free) /\ \A r \in Reqs : g \notin drawn[r])
  <2> DEFINE front == {free[i] : i \in 1..sum[n]}
  <2>1. F = SubSeq(free, sum[n] + 1, Len(free))
    BY DEF FreeAfterExtend, sum
  <2>2. /\ F \in Seq(Positive) /\ Unique(F)
        /\ Elements(F) \cup front = Elements(free) /\ Elements(F) \cap front = {}
    <3>1. PICK k \in Nat : k = sum[n] /\ k <= Len(free)
      BY <1>7
    <3>2. F = SubSeq(free, k + 1, Len(free)) /\ front = {free[i] : i \in 1..k}
      BY <2>1, <3>1
    <3> HIDE DEF F, front
    <3>3. Dropped(free, k, SubSeq(free, k + 1, Len(free)))
      BY <1>1, <3>1, DropSome
    <3> QED BY <3>2, <3>3 DEF Dropped
  <2>3. ASSUME NEW r \in Reqs PROVE drawn[r] \subseteq front
    <3>1. CASE r \in BatchReqs
      BY <1>11, <3>1
    <3> QED BY <1>10, <3>1
  <2>4. ASSUME NEW i \in 1..sum[n] PROVE \E r \in Reqs : free[i] \in drawn[r]
    <3>1. PICK k \in 1..n : sum[k - 1] < i /\ i <= sum[k]
      BY <1>6
    <3>2. batch[k] \in BatchReqs /\ batch[k] \in Reqs
      BY <1>1
    <3>3. At(batch[k]) = k
      <4>1. At(batch[k]) \in 1..n /\ batch[At(batch[k])] = batch[k]
        BY <1>3, <3>2
      <4> QED BY <4>1 DEF Unique
    <3>4. sum[k - 1] \in Nat /\ sum[k] = sum[k - 1] + New(batch[k]) /\ New(batch[k]) \in Nat
      BY <1>2, <1>8, <3>2, <3>3
    <3>5. i - sum[k - 1] \in 1..New(batch[k]) /\ sum[k - 1] + (i - sum[k - 1]) = i
      BY <3>1, <3>4, SMTT(30)
    <3>6. free[i] \in drawn[batch[k]]
      BY <3>2, <3>3, <3>5
    <3> QED BY <3>2, <3>6
  <2>5. front \subseteq UNION {drawn[r] : r \in Reqs} /\ UNION {drawn[r] : r \in Reqs} \subseteq front
    <3>1. ASSUME NEW g \in front PROVE \E r \in Reqs : g \in drawn[r]
      <4>1. PICK i \in 1..sum[n] : g = free[i]
        OBVIOUS
      <4> HIDE DEF drawn
      <4> QED BY <2>4, <4>1
    <3> HIDE DEF drawn, front
    <3>2. front \subseteq UNION {drawn[r] : r \in Reqs}
      BY <3>1, ZenonT(30)
    <3>3. UNION {drawn[r] : r \in Reqs} \subseteq front
      BY <2>3, ZenonT(30)
    <3> QED BY <3>2, <3>3
  <2> HIDE DEF F, drawn, front
  <2>6. ASSUME NEW g
        PROVE  g \in Elements(F) <=> (g \in Elements(free) /\ \A r \in Reqs : g \notin drawn[r])
    <3>1. g \in Elements(F) <=> (g \in Elements(free) /\ g \notin front)
      BY <2>2
    <3>2. g \in front <=> \E r \in Reqs : g \in drawn[r]
      BY <2>5
    <3> QED BY <3>1, <3>2
  <2> QED BY <2>2, <2>6
<1>14. ASSUME NEW r \in Reqs PROVE drawn[r] \subseteq Elements(free)
  <2>1. CASE r \in BatchReqs
    BY <1>1, <1>11, <2>1 DEF Elements
  <2> QED BY <1>10, <2>1
<1> HIDE DEF F, drawn
<1>15. ASSUME NEW r \in Reqs
       PROVE  RowPaged(P, T[r]) /\ PagesIn(P, T[r]) = PagesIn(P, table[r]) \cup drawn[r]
  <2>1. CASE r \in BatchReqs
    BY <1>9, <2>1
  <2>2. CASE r \notin BatchReqs
    BY <1>10, <2>2 DEF PageState
  <2> QED BY <2>1, <2>2
<1>16. PageState(P, NumPages, T, F)
  <2>1. \A r \in Reqs : /\ RowPaged(P, T[r]) /\ drawn[r] \subseteq Elements(free)
                          /\ PagesIn(P, T[r]) = PagesIn(P, table[r]) \cup drawn[r]
    BY <1>14, <1>15
  <2>2. \A q, r \in Reqs : q # r => drawn[q] \cap drawn[r] = {}
    BY <1>12
  <2>3. Taken(P, table, free, T, F, drawn)
    BY <1>13, <2>1, <2>2 DEF Taken
  <2> QED BY <2>3, Take
<1> QED BY <1>9, <1>10, <1>16 DEF Served, T, F

-----------------------------------------------------------------------------
(* torch.cat over the rows of a batch. *)

\* Two lists of rows of the same lengths, put behind one another alike.
Paired(n, a, b, fa, fb) ==
  /\ Len(fa) = Len(fb)
  /\ \A i \in 1..Len(fa) : \E k \in 1..n : \E j \in 1..Len(a[k]) : fa[i] = a[k][j] /\ fb[i] = b[k][j]
  /\ \A k \in 1..n : \A j \in 1..Len(a[k]) : \E i \in 1..Len(fa) : fa[i] = a[k][j]

LEMMA PairedStep ==
  ASSUME NEW S, NEW m \in Nat, NEW a, NEW b, NEW fa \in Seq(S), NEW fb \in Seq(S),
         Paired(m, a, b, fa, fb), a[m + 1] \in Seq(S), b[m + 1] \in Seq(S),
         Len(a[m + 1]) = Len(b[m + 1])
  PROVE  Paired(m + 1, a, b, fa \o a[m + 1], fb \o b[m + 1])
<1> DEFINE u == fa \o a[m + 1]
           v == fb \o b[m + 1]
           x == Len(fa)
           y == Len(a[m + 1])
<1>1. Joined(S, fa, a[m + 1], u) /\ Joined(S, fb, b[m + 1], v)
  BY ConcatJoins
<1>2. x \in Nat /\ y \in Nat
  BY LenProperties
<1> HIDE DEF u, v
<1>3. Len(u) = x + y /\ Len(v) = x + y
  BY <1>1 DEF Joined, Paired
<1>4. /\ \A j \in 1..x : u[j] = fa[j] /\ v[j] = fb[j]
      /\ \A j \in 1..y : u[x + j] = a[m + 1][j] /\ v[x + j] = b[m + 1][j]
  BY <1>1 DEF Joined, Paired
<1>5. ASSUME NEW i \in 1..(x + y)
      PROVE  \E k \in 1..(m + 1) : \E j \in 1..Len(a[k]) : u[i] = a[k][j] /\ v[i] = b[k][j]
  <2>1. CASE i <= x
    <3>1. i \in 1..x
      BY <1>2, <2>1
    <3>2. PICK k \in 1..m : \E j \in 1..Len(a[k]) : fa[i] = a[k][j] /\ fb[i] = b[k][j]
      BY <3>1 DEF Paired
    <3>3. k \in 1..(m + 1)
      OBVIOUS
    <3> QED BY <1>4, <3>1, <3>2, <3>3, SMTT(30)
  <2>2. CASE ~(i <= x)
    <3>1. i - x \in 1..y /\ x + (i - x) = i /\ m + 1 \in 1..(m + 1)
      BY <1>2, <2>2
    <3>2. u[i] = a[m + 1][i - x] /\ v[i] = b[m + 1][i - x]
      BY <1>4, <3>1
    <3> QED BY <3>1, <3>2
  <2> QED BY <2>1, <2>2
<1>6. ASSUME NEW k \in 1..(m + 1), NEW j \in 1..Len(a[k])
      PROVE  \E i \in 1..(x + y) : u[i] = a[k][j]
  <2>1. CASE k = m + 1
    <3>1. x + j \in 1..(x + y) /\ j \in 1..y
      BY <1>2, <2>1
    <3> QED BY <1>4, <2>1, <3>1
  <2>2. CASE k # m + 1
    <3>1. k \in 1..m
      BY <2>2
    <3>2. PICK i \in 1..x : fa[i] = a[k][j]
      BY <3>1 DEF Paired
    <3>3. i \in 1..(x + y)
      BY <1>2
    <3> QED BY <1>4, <3>2, <3>3
  <2> QED BY <2>1, <2>2
<1> HIDE DEF x, y
<1>7. Paired(m + 1, a, b, u, v)
  <2>1. Len(u) = Len(v) /\ 1..Len(u) = 1..(x + y)
    BY <1>3
  <2>2. \A i \in 1..Len(u) :
          \E k \in 1..(m + 1) : \E j \in 1..Len(a[k]) : u[i] = a[k][j] /\ v[i] = b[k][j]
    BY <1>5, <2>1, Zenon
  <2>3. \A k \in 1..(m + 1) : \A j \in 1..Len(a[k]) : \E i \in 1..Len(u) : u[i] = a[k][j]
    BY <1>6, <2>1, Zenon
  <2> QED BY <2>1, <2>2, <2>3, Zenon DEF Paired
<1> QED BY <1>7 DEF u, v

LEMMA FlattenPairs ==
  ASSUME NEW S, NEW n \in Nat, n >= 1, NEW a \in [1..n -> Seq(S)], NEW b \in [1..n -> Seq(S)],
         \A k \in 1..n : Len(a[k]) = Len(b[k])
  PROVE  /\ FlattenSeq(a) \in Seq(S) /\ FlattenSeq(b) \in Seq(S)
         /\ Paired(n, a, b, FlattenSeq(a), FlattenSeq(b))
<1>1. PICK f : Runs(S, n, a, f) /\ FlattenSeq(a) = f[n]
  BY FlattenRuns
<1>2. PICK g : Runs(S, n, b, g) /\ FlattenSeq(b) = g[n]
  BY FlattenRuns
<1> DEFINE M == {m \in 0..(n - 1) : Paired(m + 1, a, b, f[m + 1], g[m + 1])}
<1>3. 0 \in M
  <2>1. f[1] = a[1] /\ g[1] = b[1] /\ 1 \in 1..n /\ 0 + 1 = 1 /\ 1..1 = {1}
    BY <1>1, <1>2 DEF Runs
  <2>2. Paired(1, a, b, f[1], g[1])
    BY <2>1 DEF Paired
  <2> QED BY <2>1, <2>2
<1>4. ASSUME NEW m \in 0..((n - 1) - 1), m \in M PROVE m + 1 \in M
  <2>1. /\ m + 1 \in 1..(n - 1) /\ m + 1 \in 0..(n - 1) /\ (m + 1) + 1 \in 1..n /\ m + 1 \in 1..n
        /\ m + 1 \in Nat
    OBVIOUS
  <2>2. /\ f[(m + 1) + 1] = f[m + 1] \o a[(m + 1) + 1] /\ f[m + 1] \in Seq(S)
        /\ g[(m + 1) + 1] = g[m + 1] \o b[(m + 1) + 1] /\ g[m + 1] \in Seq(S)
    BY <1>1, <1>2, <2>1 DEF Runs
  <2>3. Paired(m + 1, a, b, f[m + 1], g[m + 1])
    BY <1>4
  <2>4. /\ a[(m + 1) + 1] \in Seq(S) /\ b[(m + 1) + 1] \in Seq(S)
        /\ Len(a[(m + 1) + 1]) = Len(b[(m + 1) + 1])
    BY <2>1
  <2>5. Paired((m + 1) + 1, a, b, f[m + 1] \o a[(m + 1) + 1], g[m + 1] \o b[(m + 1) + 1])
    BY <2>1, <2>2, <2>3, <2>4, PairedStep
  <2> QED BY <2>1, <2>2, <2>5
<1> HIDE DEF M
<1>5. n - 1 \in Nat /\ (n - 1) + 1 = n /\ n \in 1..n
  OBVIOUS
<1>6. 0..(n - 1) \subseteq M
  BY <1>3, <1>4, <1>5, UpTo
<1>7. n - 1 \in M
  BY <1>5, <1>6
<1>8. Paired(n, a, b, f[n], g[n])
  BY <1>5, <1>7 DEF M
<1> QED BY <1>1, <1>2, <1>5, <1>8 DEF Runs

\* Rows without a common element, put behind one another.
Distinct(n, a) ==
  \A k, l \in 1..n : \A i \in 1..Len(a[k]) : \A j \in 1..Len(a[l]) :
    a[k][i] = a[l][j] => k = l /\ i = j

LEMMA FlattenUnique ==
  ASSUME NEW n \in Nat, n >= 1, NEW a \in [1..n -> Seq(Positive)], Distinct(n, a)
  PROVE  Unique(FlattenSeq(a))
<1>1. PICK f : Runs(Positive, n, a, f) /\ FlattenSeq(a) = f[n]
  BY FlattenRuns
<1> DEFINE M == {m \in 0..(n - 1) : Paired(m + 1, a, a, f[m + 1], f[m + 1]) /\ Unique(f[m + 1])}
<1>3. 0 \in M
  <2>1. f[1] = a[1] /\ 1 \in 1..n /\ 0 + 1 = 1 /\ 1..1 = {1}
    BY <1>1 DEF Runs
  <2>2. Paired(1, a, a, f[1], f[1])
    BY <2>1 DEF Paired
  <2>3. Unique(a[1])
    BY <2>1 DEF Distinct, Unique
  <2> QED BY <2>1, <2>2, <2>3
<1>4. ASSUME NEW m \in 0..((n - 1) - 1), m \in M PROVE m + 1 \in M
  <2>1. /\ m + 1 \in 1..(n - 1) /\ m + 1 \in 0..(n - 1) /\ (m + 1) + 1 \in 1..n /\ m + 1 \in 1..n
        /\ m + 1 \in Nat
    OBVIOUS
  <2>2. /\ f[(m + 1) + 1] = f[m + 1] \o a[(m + 1) + 1] /\ f[m + 1] \in Seq(Positive)
    BY <1>1, <2>1 DEF Runs
  <2>3. Paired(m + 1, a, a, f[m + 1], f[m + 1]) /\ Unique(f[m + 1])
    BY <1>4
  <2>4. a[(m + 1) + 1] \in Seq(Positive)
    BY <2>1
  <2>5. Paired((m + 1) + 1, a, a, f[m + 1] \o a[(m + 1) + 1], f[m + 1] \o a[(m + 1) + 1])
    BY <2>1, <2>2, <2>3, <2>4, PairedStep
  <2>6. Unique(a[(m + 1) + 1])
    BY <2>1 DEF Distinct, Unique
  <2>7. Elements(f[m + 1]) \cap Elements(a[(m + 1) + 1]) = {}
    <3> SUFFICES ASSUME NEW i \in 1..Len(f[m + 1]), NEW j \in 1..Len(a[(m + 1) + 1]),
                        f[m + 1][i] = a[(m + 1) + 1][j]
                 PROVE  FALSE
      <4>1. DOMAIN f[m + 1] = 1..Len(f[m + 1]) /\ DOMAIN a[(m + 1) + 1] = 1..Len(a[(m + 1) + 1])
        BY <2>2, <2>4, LenProperties
      <4> QED BY <4>1 DEF Elements
    <3>1. PICK k \in 1..(m + 1) : \E h \in 1..Len(a[k]) : f[m + 1][i] = a[k][h]
      BY <2>3 DEF Paired
    <3>2. k \in 1..n /\ k # (m + 1) + 1
      OBVIOUS
    <3>3. PICK h \in 1..Len(a[k]) : a[k][h] = a[(m + 1) + 1][j]
      BY <3>1
    <3>4. k = (m + 1) + 1
      BY <2>1, <3>2, <3>3, Zenon DEF Distinct
    <3> QED BY <3>2, <3>4
  <2>8. Unique(f[m + 1] \o a[(m + 1) + 1])
    BY <2>2, <2>3, <2>4, <2>6, <2>7, ConcatUnique
  <2> QED BY <2>1, <2>2, <2>5, <2>8
<1> HIDE DEF M
<1>5. n - 1 \in Nat /\ (n - 1) + 1 = n /\ n \in 1..n
  OBVIOUS
<1>6. 0..(n - 1) \subseteq M
  BY <1>3, <1>4, <1>5, UpTo
<1>7. n - 1 \in M
  BY <1>5, <1>6
<1> QED BY <1>1, <1>5, <1>7 DEF M

-----------------------------------------------------------------------------
(* Accepted paths. *)

PathOK(path) ==
  /\ path \in Seq(0..(D - 1)) /\ Len(path) \in 1..(MaxDepth + 1) /\ DOMAIN path = 1..Len(path)
  /\ \A i, j \in 1..Len(path) : path[i] = path[j] => i = j
  /\ Chain => \A j \in 1..Len(path) : path[j] = j - 1

\* A path names each node once; in a chain it is the first nodes.
LEMMA PathFacts ==
  ASSUME NEW path \in Paths
  PROVE  PathOK(path)
<1>1. PICK n \in 1..(MaxDepth + 1) : path \in [1..n -> 0..(D - 1)]
  BY DEF Paths
<1>2. path \in Seq(0..(D - 1)) /\ Len(path) = n /\ n \in Nat /\ n >= 1 /\ D \in Nat
  <2>1. n \in Nat /\ n >= 1 /\ D \in Nat
    BY TargetKVAssumption
  <2> QED BY <1>1, <2>1, ListOf
<1>3. DOMAIN path = 1..n
  BY <1>1
<1>4. \A i, j \in 1..n : path[i] = path[j] => i = j
  BY <1>3 DEF Paths
<1>5. Chain => \A j \in 1..n : path[j] = j - 1
  BY <1>3 DEF Paths
<1> QED BY <1>2, <1>3, <1>4, <1>5 DEF PathOK

-----------------------------------------------------------------------------
(* The slots a pass writes. *)

\* The slots of the rows: slots of the pool, each in one row at one position.
SlotsOwned(T) ==
  /\ \A r \in Reqs : \A p \in 1..Len(T[r]) : T[r][p] \in Nat /\ T[r][p] \in Slots
  /\ \A q, r \in Reqs : \A a \in 1..Len(T[q]) : \A b \in 1..Len(T[r]) :
       T[q][a] = T[r][b] => q = r /\ a = b

LEMMA RowSlots ==
  ASSUME NEW P \in Positive, P = PageSize, NumPages \in Nat, NEW T, NEW F,
         PageState(P, NumPages, T, F)
  PROVE  SlotsOwned(T)
<1>1. ASSUME NEW r \in Reqs, NEW p \in 1..Len(T[r])
      PROVE  T[r][p] \in Nat /\ T[r][p] \div P \in PagesIn(P, T[r]) /\ T[r][p] \in Slots
  <2>1. RowPaged(P, T[r])
    BY DEF PageState
  <2>2. T[r][p] \in Nat
    BY <2>1, ElementOfSeq DEF RowPaged
  <2>3. T[r][p] \div P \in PagesIn(P, T[r])
    BY DEF PagesIn
  <2>4. T[r][p] \div P \in 1..NumPages
    BY <2>3 DEF PageState
  <2>5. T[r][p] \in P..((NumPages + 1) * P - 1)
    BY <2>2, <2>4, SlotPage
  <2> QED BY <2>2, <2>3, <2>5 DEF Slots
<1>2. ASSUME NEW q \in Reqs, NEW r \in Reqs, NEW a \in 1..Len(T[q]), NEW b \in 1..Len(T[r]),
             T[q][a] = T[r][b]
      PROVE  q = r /\ a = b
  <2>1. T[q][a] \div P \in PagesIn(P, T[q]) /\ T[q][a] \div P \in PagesIn(P, T[r])
    BY <1>1, <1>2
  <2>2. q = r
    BY <2>1 DEF PageState
  <2>3. Unique(T[r])
    BY RowUnique DEF PageState
  <2> QED BY <1>2, <2>2, <2>3 DEF Unique
<1> QED BY <1>1, <1>2 DEF SlotsOwned

KvOK(contents) == \A s \in Slots : contents[s] = Junk \/ contents[s] \in Reqs \X Nat

\* w is the contents behind the pass over the window len[r] + 1 to len[r] + D of
\* the rows T.
Passed(T, paths, w) ==
  /\ KvOK(w)
  /\ \A r \in Reqs : \A p \in 1..Len(T[r]) :
       (r \in BatchReqs => p <= len[r] \/ p > len[r] + D) => w[T[r][p]] = kv[T[r][p]]
  /\ \A r \in BatchReqs : \A j \in 1..Len(paths[r]) :
       w[T[r][len[r] + (paths[r][j] + 1)]] = <<r, len[r] + j>>

LEMMA PassFacts ==
  ASSUME NEW T, SlotsOwned(T), BatchReqs \subseteq Reqs, len \in [Reqs -> Nat], KvOK(kv),
         \A r \in BatchReqs : Len(T[r]) \in Nat /\ len[r] + D <= Len(T[r]),
         NEW rows, \A r \in BatchReqs : \A i \in 1..D : rows[r][i] = T[r][len[r] + i],
         NEW paths \in [BatchReqs -> Paths]
  PROVE  Passed(T, paths, Written(rows, paths))
<1> DEFINE w == Written(rows, paths)
           Owners(s) == {r \in BatchReqs : \E i \in 1..D : rows[r][i] = s}
           Own(s) == CHOOSE o \in Owners(s) : TRUE
           Node(s) == (CHOOSE i \in 1..D : rows[Own(s)][i] = s) - 1
           Depths(s) == {j \in DOMAIN paths[Own(s)] : paths[Own(s)][j] = Node(s)}
<1>0. D \in Nat
  BY TargetKVAssumption
<1>1. ASSUME NEW s \in Slots
      PROVE  w[s] = IF Owners(s) = {} THEN kv[s]
                    ELSE IF Depths(s) = {} THEN Junk
                         ELSE <<Own(s), len[Own(s)] + (CHOOSE j \in Depths(s) : TRUE)>>
  BY DEF Written
<1>2. \A r \in BatchReqs : PathOK(paths[r]) /\ r \in Reqs /\ len[r] \in Nat
  BY PathFacts
<1> HIDE DEF w
<1>3. ASSUME NEW s \in Slots, Owners(s) # {}
      PROVE  /\ Own(s) \in BatchReqs /\ Node(s) + 1 \in 1..D /\ T[Own(s)][len[Own(s)] + (Node(s) + 1)] = s
             /\ \A j \in Depths(s) : j \in 1..Len(paths[Own(s)]) /\ j \in Nat
  <2>1. Own(s) \in Owners(s)
    BY <1>3
  <2>2. Own(s) \in BatchReqs /\ \E i \in 1..D : rows[Own(s)][i] = s
    BY <2>1
  <2> DEFINE c == CHOOSE i \in 1..D : rows[Own(s)][i] = s
  <2>3. c \in 1..D /\ rows[Own(s)][c] = s
    <3> HIDE DEF Own
    <3> QED BY <2>2
  <2>4. Node(s) = c - 1
    OBVIOUS
  <2> HIDE DEF c, Own, Node
  <2>5. Node(s) + 1 = c
    BY <1>0, <2>3, <2>4
  <2>6. T[Own(s)][len[Own(s)] + c] = s
    BY <2>2, <2>3
  <2>7. \A j \in Depths(s) : j \in 1..Len(paths[Own(s)]) /\ j \in Nat
    <3>1. DOMAIN paths[Own(s)] = 1..Len(paths[Own(s)]) /\ Len(paths[Own(s)]) \in Nat
      <4>1. Len(paths[Own(s)]) \in 1..(MaxDepth + 1) /\ MaxDepth \in Nat
        BY <1>2, <2>2, TargetKVAssumption DEF PathOK
      <4> QED BY <1>2, <2>2, <4>1 DEF PathOK
    <3> QED BY <3>1
  <2> QED BY <2>2, <2>3, <2>5, <2>6, <2>7
<1>4. ASSUME NEW s \in Slots PROVE w[s] = Junk \/ w[s] \in Reqs \X Nat
  <2>1. CASE Owners(s) = {}
    BY <1>1, <2>1 DEF KvOK
  <2>2. CASE Owners(s) # {}
    <3>1. CASE Depths(s) = {}
      BY <1>1, <2>2, <3>1
    <3>2. CASE Depths(s) # {}
      <4> DEFINE j == CHOOSE j \in Depths(s) : TRUE
      <4>1. j \in Depths(s)
        BY <3>2
      <4>2. w[s] = <<Own(s), len[Own(s)] + j>>
        BY <1>1, <2>2, <3>2
      <4> HIDE DEF j, Own, Depths, Owners
      <4>3. j \in Nat /\ Own(s) \in Reqs /\ len[Own(s)] \in Nat
        BY <1>2, <1>3, <2>2, <4>1
      <4> QED BY <4>2, <4>3
    <3> QED BY <3>1, <3>2
  <2> QED BY <2>1, <2>2
<1>5. ASSUME NEW r \in Reqs, NEW p \in 1..Len(T[r]), r \in BatchReqs => p <= len[r] \/ p > len[r] + D
      PROVE  w[T[r][p]] = kv[T[r][p]]
  <2>1. T[r][p] \in Slots
    BY DEF SlotsOwned
  <2>2. Owners(T[r][p]) = {}
    <3> SUFFICES ASSUME NEW q \in BatchReqs, NEW i \in 1..D, rows[q][i] = T[r][p] PROVE FALSE
      OBVIOUS
    <3>1. q \in Reqs /\ len[q] \in Nat /\ Len(T[q]) \in Nat /\ len[q] + D <= Len(T[q])
      BY <1>2
    <3>2. len[q] + i \in 1..Len(T[q])
      BY <1>0, <3>1
    <3>3. T[q][len[q] + i] = T[r][p]
      OBVIOUS
    <3>4. q = r /\ len[q] + i = p
      BY <3>1, <3>2, <3>3 DEF SlotsOwned
    <3> QED BY <1>0, <1>5, <3>1, <3>4
  <2> QED BY <1>1, <2>1, <2>2
<1>6. ASSUME NEW r \in BatchReqs, NEW j \in 1..Len(paths[r])
      PROVE  w[T[r][len[r] + (paths[r][j] + 1)]] = <<r, len[r] + j>>
  <2> DEFINE i == paths[r][j] + 1
             s == T[r][len[r] + i]
  <2>1. /\ r \in Reqs /\ len[r] \in Nat /\ PathOK(paths[r]) /\ Len(T[r]) \in Nat
        /\ len[r] + D <= Len(T[r])
    BY <1>2
  <2>2. i \in 1..D /\ len[r] + i \in 1..Len(T[r])
    <3>1. paths[r][j] \in 0..(D - 1)
      BY <2>1, ElementOfSeq DEF PathOK
    <3>2. i \in 1..D
      BY <1>0, <3>1
    <3> HIDE DEF i
    <3> QED BY <1>0, <2>1, <3>2
  <2>3. s \in Slots
    BY <2>1, <2>2 DEF SlotsOwned
  <2>4. r \in Owners(s)
    BY <2>2
  <2> HIDE DEF s, i
  <2>5. Owners(s) # {}
    BY <2>4
  <2>6. /\ Own(s) \in BatchReqs /\ Node(s) + 1 \in 1..D
        /\ T[Own(s)][len[Own(s)] + (Node(s) + 1)] = s
    BY <1>3, <2>3, <2>5
  <2>7. Own(s) = r /\ len[Own(s)] + (Node(s) + 1) = len[r] + i
    <3> HIDE DEF Own, Node
    <3>1. /\ Own(s) \in Reqs /\ len[Own(s)] \in Nat /\ Len(T[Own(s)]) \in Nat
          /\ len[Own(s)] + D <= Len(T[Own(s)])
      BY <1>2, <2>6
    <3>2. len[Own(s)] + (Node(s) + 1) \in 1..Len(T[Own(s)])
      <4>1. PICK c \in 1..D : c = Node(s) + 1
        BY <2>6
      <4>2. len[Own(s)] + c \in 1..Len(T[Own(s)])
        BY <1>0, <3>1
      <4> QED BY <4>1, <4>2
    <3>3. PICK q \in Reqs : q = Own(s)
      BY <3>1
    <3>4. PICK x \in 1..Len(T[q]) : x = len[Own(s)] + (Node(s) + 1)
      BY <3>2, <3>3
    <3>5. T[q][x] = T[r][len[r] + i]
      BY <2>6, <3>3, <3>4 DEF s
    <3>6. q = r /\ x = len[r] + i
      BY <2>1, <2>2, <3>5 DEF SlotsOwned
    <3> QED BY <3>3, <3>4, <3>6
  <2>8. paths[r][j] = Node(s)
    <3> HIDE DEF Own, Node
    <3>1. PICK c \in 1..D : c = Node(s) + 1
      BY <2>6
    <3>2. len[r] + c = len[r] + i
      BY <2>7, <3>1
    <3>3. c = i
      BY <1>0, <2>1, <2>2, <3>2
    <3>4. paths[r][j] \in 0..(D - 1)
      BY <2>1, ElementOfSeq DEF PathOK
    <3>5. Node(s) \in Int
      <4> DEFINE e == CHOOSE h \in 1..D : rows[Own(s)][h] = s
      <4>1. \E h \in 1..D : rows[Own(s)][h] = s
        BY <2>2, <2>7 DEF s
      <4>2. e \in 1..D
        BY <4>1
      <4> HIDE DEF e
      <4>3. e - 1 \in Int
        BY <1>0, <4>2
      <4> QED BY <4>3 DEF Node, e
    <3> QED BY <3>1, <3>3, <3>4, <3>5 DEF i
  <2>9. Depths(s) = {j}
    <3>1. DOMAIN paths[r] = 1..Len(paths[r])
      BY <2>1 DEF PathOK
    <3>2. \A h \in 1..Len(paths[r]) : paths[r][h] = paths[r][j] => h = j
      BY <2>1 DEF PathOK
    <3> HIDE DEF Own, Node
    <3> QED BY <2>7, <2>8, <3>1, <3>2
  <2>10. (CHOOSE h \in Depths(s) : TRUE) = j
    <3> HIDE DEF Depths
    <3> QED BY <2>9
  <2>11. Depths(s) # {}
    BY <2>9
  <2> HIDE DEF Own, Depths, Owners
  <2>12. w[s] = <<r, len[r] + j>>
    BY <1>1, <2>3, <2>5, <2>7, <2>10, <2>11
  <2> QED BY <2>12 DEF s, i
<1> QED BY <1>4, <1>5, <1>6 DEF Passed, KvOK, w

-----------------------------------------------------------------------------
(* What goes back to the allocator. *)

\* A row gives up the slots gone and becomes new: no page is in both or lost.
RowSplit(P, row, new, gone) ==
  /\ RowPaged(P, new) /\ gone \in Seq(Nat) /\ Unique(gone)
  /\ PagesIn(P, row) = PagesIn(P, new) \cup PagesIn(P, gone)
  /\ PagesIn(P, new) \cap PagesIn(P, gone) = {}

LEMMA EmptyRow ==
  ASSUME NEW P \in Positive
  PROVE  RowPaged(P, <<>>) /\ PagesIn(P, <<>>) = {}
<1>1. <<>> \in Seq(Nat) /\ Len(<<>>) = 0 /\ 1..0 = {}
  OBVIOUS
<1> QED BY <1>1 DEF RowPaged, PagesIn

\* The pages of two lists put together.
LEMMA JoinedPages ==
  ASSUME NEW P \in Positive, NEW s \in Seq(Nat), NEW t \in Seq(Nat), Unique(s), Unique(t),
         PagesIn(P, s) \cap PagesIn(P, t) = {}
  PROVE  /\ s \o t \in Seq(Nat) /\ Unique(s \o t)
         /\ PagesIn(P, s \o t) = PagesIn(P, s) \cup PagesIn(P, t)
<1> DEFINE u == s \o t
           x == Len(s)
           y == Len(t)
<1>1. Joined(Nat, s, t, u)
  BY ConcatJoins
<1>2. x \in Nat /\ y \in Nat
  BY LenProperties
<1> HIDE DEF u
<1>3. /\ u \in Seq(Nat) /\ Len(u) = x + y
      /\ \A j \in 1..x : u[j] = s[j]
      /\ \A j \in 1..y : u[x + j] = t[j]
  BY <1>1 DEF Joined
<1>4. ASSUME NEW i \in 1..Len(u) PROVE i \in 1..x \/ (i - x \in 1..y /\ i = x + (i - x))
  BY <1>2, <1>3
<1>5. /\ \A i \in 1..x : s[i] \div P \in PagesIn(P, s)
      /\ \A i \in 1..y : t[i] \div P \in PagesIn(P, t)
  BY DEF PagesIn
<1>6. Unique(u)
  <2> SUFFICES ASSUME NEW i \in 1..Len(u), NEW j \in 1..Len(u), u[i] = u[j] PROVE i = j
    BY DEF Unique
  <2>1. CASE i \in 1..x /\ j \in 1..x
    BY <1>3, <2>1 DEF Unique
  <2>2. CASE i \in 1..x /\ j \notin 1..x
    <3>1. j - x \in 1..y /\ u[j] = t[j - x] /\ u[i] = s[i]
      BY <1>3, <1>4, <2>2
    <3> QED BY <1>5, <2>2, <3>1
  <2>3. CASE i \notin 1..x /\ j \in 1..x
    <3>1. i - x \in 1..y /\ u[i] = t[i - x] /\ u[j] = s[j]
      BY <1>3, <1>4, <2>3
    <3> QED BY <1>5, <2>3, <3>1
  <2>4. CASE i \notin 1..x /\ j \notin 1..x
    <3>1. /\ i - x \in 1..y /\ u[i] = t[i - x] /\ j - x \in 1..y /\ u[j] = t[j - x]
          /\ i = x + (i - x) /\ j = x + (j - x)
      BY <1>3, <1>4, <2>4
    <3>2. i - x = j - x
      BY <3>1 DEF Unique
    <3> QED BY <3>1, <3>2
  <2> QED BY <2>1, <2>2, <2>3, <2>4
<1>7. PagesIn(P, u) \subseteq PagesIn(P, s) \cup PagesIn(P, t)
  <2>1. ASSUME NEW i \in 1..Len(u) PROVE u[i] \div P \in PagesIn(P, s) \cup PagesIn(P, t)
    <3>1. CASE i \in 1..x
      BY <1>3, <1>5, <3>1
    <3>2. CASE i \notin 1..x
      <4>1. i - x \in 1..y /\ u[i] = t[i - x]
        BY <1>3, <1>4, <3>2
      <4> QED BY <1>5, <4>1
    <3> QED BY <3>1, <3>2
  <2> QED BY <2>1 DEF PagesIn
<1>8. PagesIn(P, s) \cup PagesIn(P, t) \subseteq PagesIn(P, u)
  <2>1. \A i \in 1..x : i \in 1..Len(u) /\ u[i] = s[i]
    BY <1>2, <1>3
  <2>2. \A i \in 1..y : x + i \in 1..Len(u) /\ u[x + i] = t[i]
    BY <1>2, <1>3
  <2> QED BY <2>1, <2>2 DEF PagesIn
<1> QED BY <1>3, <1>6, <1>7, <1>8 DEF u

\* The batch gives back a part of each row.
LEMMA BatchGives ==
  ASSUME NEW P \in Positive, P = PageSize, NumPages \in Nat, NEW T, NEW F, PageState(P, NumPages, T, F),
         batch \in Seq(Reqs), Unique(batch), batch # <<>>,
         NEW T2, NEW gone, \A r \in Reqs \ BatchReqs : T2[r] = T[r],
         \A r \in BatchReqs : RowSplit(P, T[r], T2[r], gone[r])
  PROVE  PageState(P, NumPages, T2, Freed(F, Flat(gone)))
<1> DEFINE n == Len(batch)
           a == [k \in 1..n |-> gone[batch[k]]]
           all == FlattenSeq(a)
<1>1. /\ n \in Nat /\ n >= 1 /\ DOMAIN batch = 1..n /\ BatchReqs \subseteq Reqs
      /\ \A k \in 1..n : batch[k] \in BatchReqs
      /\ \A r \in BatchReqs : \E k \in 1..n : batch[k] = r
  <2>1. /\ n \in Nat /\ DOMAIN batch = 1..n /\ \A k \in 1..n : batch[k] \in Reqs
    BY LenProperties, ElementOfSeq
  <2>2. n # 0
    BY EmptySeq
  <2> QED BY <2>1, <2>2 DEF BatchReqs, Elements
<1>2. Flat(gone) = all
  BY <1>1 DEF Flat
<1>3. a \in [1..n -> Seq(Nat)]
  BY <1>1 DEF RowSplit
<1>4. \A k \in 1..n : a[k] = gone[batch[k]]
  OBVIOUS
<1> HIDE DEF a
<1>5. all \in Seq(Nat) /\ Paired(n, a, a, all, all)
  BY <1>1, <1>3, FlattenPairs
<1> HIDE DEF n
<1>6. P = 1 => Unique(all)
  <2> SUFFICES ASSUME P = 1 PROVE Unique(all)
    OBVIOUS
  <2>1. ASSUME NEW k \in 1..n
        PROVE  /\ a[k] \in Seq(Positive) /\ Unique(a[k])
               /\ \A i \in 1..Len(a[k]) : a[k][i] \in PagesIn(P, T[batch[k]])
    <3>1. /\ a[k] \in Seq(Nat) /\ Unique(a[k]) /\ PagesIn(P, a[k]) \subseteq PagesIn(P, T[batch[k]])
          /\ batch[k] \in Reqs
      <4>1. batch[k] \in BatchReqs /\ a[k] = gone[batch[k]]
        BY <1>1, <1>4
      <4>2. RowSplit(P, T[batch[k]], T2[batch[k]], a[k])
        BY <4>1
      <4>3. batch[k] \in Reqs
        BY <1>1, <4>1
      <4> QED BY <4>2, <4>3 DEF RowSplit
    <3>2. PagesIn(P, a[k]) = Elements(a[k]) /\ DOMAIN a[k] = 1..Len(a[k]) /\ Len(a[k]) \in Nat
      BY <3>1, UnitPages, LenProperties
    <3>3. ASSUME NEW i \in 1..Len(a[k])
          PROVE  a[k][i] \in PagesIn(P, T[batch[k]]) /\ a[k][i] \in Positive
      <4>1. a[k][i] \in PagesIn(P, T[batch[k]])
        BY <3>1, <3>2 DEF Elements
      <4>2. a[k][i] \in 1..NumPages
        BY <3>1, <4>1 DEF PageState
      <4>3. a[k][i] \in Positive
        BY <4>2 DEF Positive
      <4> QED BY <4>1, <4>3
    <3>4. a[k] \in Seq(Positive)
      BY <3>1, <3>3, ListWithin
    <3> QED BY <3>1, <3>3, <3>4
  <2>2. Distinct(n, a)
    <3> SUFFICES ASSUME NEW k \in 1..n, NEW l \in 1..n, NEW i \in 1..Len(a[k]), NEW j \in 1..Len(a[l]),
                        a[k][i] = a[l][j]
                 PROVE  k = l /\ i = j
      BY DEF Distinct
    <3>1. a[k][i] \in PagesIn(P, T[batch[k]]) /\ a[k][i] \in PagesIn(P, T[batch[l]])
      BY <2>1
    <3>2. batch[k] \in Reqs /\ batch[l] \in Reqs
      BY <1>1
    <3>3. batch[k] = batch[l]
      BY <3>1, <3>2 DEF PageState
    <3>4. k = l
      BY <3>3 DEF Unique, n
    <3> QED BY <2>1, <3>4 DEF Unique
  <2>3. a \in [1..n -> Seq(Positive)]
    <3>1. a = [k \in 1..n |-> a[k]]
      BY <1>3
    <3> QED BY <2>1, <3>1
  <2> QED BY <1>1, <2>2, <2>3, FlattenUnique
<1> HIDE DEF all
<1>7. ASSUME NEW g
      PROVE  g \in PagesIn(P, all) <=> \E r \in BatchReqs : g \in PagesIn(P, gone[r])
  <2>1. ASSUME NEW i \in 1..Len(all)
        PROVE  \E r \in BatchReqs : all[i] \div P \in PagesIn(P, gone[r])
    <3>1. PICK k \in 1..n : \E j \in 1..Len(a[k]) : all[i] = a[k][j]
      BY <1>5 DEF Paired
    <3>2. batch[k] \in BatchReqs /\ all[i] \div P \in PagesIn(P, gone[batch[k]])
      BY <1>1, <1>4, <3>1 DEF PagesIn
    <3> QED BY <3>2
  <2>2. ASSUME NEW r \in BatchReqs, NEW j \in 1..Len(gone[r])
        PROVE  gone[r][j] \div P \in PagesIn(P, all)
    <3>1. PICK k \in 1..n : batch[k] = r
      BY <1>1
    <3>2. a[k] = gone[r]
      BY <1>4, <3>1
    <3>3. PICK i \in 1..Len(all) : all[i] = a[k][j]
      BY <1>5, <3>2 DEF Paired
    <3> QED BY <3>2, <3>3 DEF PagesIn
  <2> QED BY <2>1, <2>2 DEF PagesIn
<1>8. ASSUME NEW r \in BatchReqs, NEW g \in PagesIn(P, gone[r])
      PROVE  /\ r \in Reqs /\ g \in PagesIn(P, T[r]) /\ g \notin PagesIn(P, T2[r])
             /\ g \in Positive /\ g \notin Elements(F)
  <2>1. r \in Reqs /\ g \in PagesIn(P, T[r]) /\ g \notin PagesIn(P, T2[r])
    BY <1>1 DEF RowSplit
  <2>2. g \in 1..NumPages /\ g \notin Elements(F)
    BY <2>1 DEF PageState
  <2>3. g \in Positive
    BY <2>2 DEF Positive
  <2> QED BY <2>1, <2>2, <2>3
<1>9. /\ Freed(F, all) \in Seq(Positive) /\ Unique(Freed(F, all))
      /\ Elements(Freed(F, all)) = Elements(F) \cup PagesIn(P, all)
  <2>1. PagesIn(P, all) \subseteq Positive /\ PagesIn(P, all) \cap Elements(F) = {}
    BY <1>7, <1>8
  <2>2. F \in Seq(Positive) /\ Unique(F)
    BY DEF PageState
  <2> QED BY <1>5, <1>6, <2>1, <2>2, FreedFacts
<1>10. ASSUME NEW r \in Reqs
       PROVE  RowPaged(P, T2[r]) /\ PagesIn(P, T2[r]) \subseteq PagesIn(P, T[r])
  <2>1. CASE r \in BatchReqs
    BY <2>1 DEF RowSplit
  <2>2. CASE r \notin BatchReqs
    BY <2>2 DEF PageState
  <2> QED BY <2>1, <2>2
<1>11. ASSUME NEW g
       PROVE  g \in Elements(Freed(F, all)) <=>
                \/ g \in Elements(F)
                \/ \E r \in Reqs : g \in PagesIn(P, T[r]) /\ g \notin PagesIn(P, T2[r])
  <2>1. g \in PagesIn(P, all) <=> \E r \in Reqs : g \in PagesIn(P, T[r]) /\ g \notin PagesIn(P, T2[r])
    <3>1. ASSUME NEW r \in Reqs, g \in PagesIn(P, T[r]), g \notin PagesIn(P, T2[r])
          PROVE  g \in PagesIn(P, all)
      <4>1. r \in BatchReqs
        BY <3>1
      <4>2. g \in PagesIn(P, gone[r])
        BY <3>1, <4>1 DEF RowSplit
      <4> QED BY <1>7, <4>1, <4>2
    <3>2. ASSUME g \in PagesIn(P, all)
          PROVE  \E r \in Reqs : g \in PagesIn(P, T[r]) /\ g \notin PagesIn(P, T2[r])
      BY <1>7, <1>8, <3>2
    <3> QED BY <3>1, <3>2
  <2> QED BY <1>9, <2>1
<1>12. GivenBack(P, T, F, T2, Freed(F, all))
  BY <1>9, <1>10, <1>11 DEF GivenBack
<1> QED BY <1>2, <1>12, GiveBack

\* The row of a request behind a pass: the row before, then n slots of the window.
RowAfter(row, seq, n, new) ==
  /\ new \in Seq(Nat) /\ Len(new) = seq + n
  /\ \A p \in 1..seq : new[p] = row[p]

\* new is such a row, with the first slots of the window or with the path's.
TookFront(row, seq, path, new) == \A j \in 1..Len(path) : new[seq + j] = row[seq + j]
TookPath(row, seq, path, new) == \A j \in 1..Len(path) : new[seq + j] = row[seq + (path[j] + 1)]

\* The first slots of the window, and those of the path.
FrontLocs(row, seq, path, locs) ==
  /\ locs \in Seq(Nat) /\ Len(locs) = Len(path)
  /\ \A j \in 1..Len(path) : locs[j] = row[seq + j]
PathLocs(row, seq, path, locs) ==
  /\ locs \in Seq(Nat) /\ Len(locs) = Len(path)
  /\ \A j \in 1..Len(path) : locs[j] = row[seq + (path[j] + 1)]

\* _free_cache with pages: the row ends behind the path, and the pages behind
\* the one it ends in go.
LEMMA PagedRow ==
  ASSUME NEW P \in Positive, P = PageSize, NEW row, RowPaged(P, row), NEW seq \in Nat, Len(row) = seq + D,
         NEW old \in Seq(Nat), Len(old) = seq, \A p \in 1..seq : old[p] = row[p],
         NEW path, PathOK(path)
  PROVE  LET win == SubSeq(row, seq + 1, seq + D)
             new == SubSeq(old, 1, seq) \o TargetLocs(win, path)
         IN  /\ RowSplit(P, row, new, ToFree(win, seq, Len(path)))
             /\ RowAfter(row, seq, Len(path), new)
             /\ TookFront(row, seq, path, new)
             /\ FrontLocs(row, seq, path, TargetLocs(win, path))
<1> DEFINE n == Len(path)
           m == Len(row)
           win == SubSeq(row, seq + 1, seq + D)
           tgt == SubSeq(win, 1, n)
           new == SubSeq(old, 1, seq) \o tgt
           gone == ToFree(win, seq, n)
           cut == SubSeq(row, 1, seq + n)
           rest == SubSeq(row, CeilAlign(seq + n) + 1, m)
<1>1. D \in Nat /\ n \in Nat /\ n >= 1 /\ n <= D /\ m \in Nat /\ m = seq + D /\ row \in Seq(Nat)
  <2>1. D \in Nat /\ MaxDepth \in Nat /\ MaxDepth + 1 <= D /\ n \in 1..(MaxDepth + 1)
    BY TargetKVAssumption DEF PathOK
  <2> QED BY <2>1 DEF RowPaged
<1>2. seq + n \in 0..m
  BY <1>1
<1>3. TargetLocs(win, path) = tgt
  BY DEF TargetLocs
<1>4. PieceOf(Nat, row, seq, seq + D, win)
  BY <1>1, Piece
<1>5. win \in Seq(Nat) /\ Len(win) = D /\ \A i \in 1..D : win[i] = row[seq + i]
  <2>1. (seq + D) - seq = D
    BY <1>1
  <2> QED BY <1>4, <2>1 DEF PieceOf
<1> HIDE DEF win
<1>6. tgt \in Seq(Nat) /\ Len(tgt) = n /\ \A j \in 1..n : tgt[j] = row[seq + j]
  <2>1. PieceOf(Nat, win, 0, n, SubSeq(win, 0 + 1, n))
    BY <1>1, <1>5, Piece
  <2>2. n - 0 = n /\ 0 + 1 = 1 /\ \A j \in 1..n : 0 + j = j /\ j \in 1..D
    BY <1>1
  <2> QED BY <1>5, <2>1, <2>2 DEF PieceOf
<1>7. SubSeq(old, 1, seq) = old
  BY WholePiece
<1> HIDE DEF tgt
<1>8. Joined(Nat, old, tgt, new)
  BY <1>6, <1>7, ConcatJoins
<1> HIDE DEF new
<1>9. /\ new \in Seq(Nat) /\ Len(new) = seq + n /\ \A p \in 1..seq : new[p] = row[p]
      /\ \A j \in 1..n : new[seq + j] = row[seq + j]
  BY <1>6, <1>8 DEF Joined
<1>10. /\ cut \in Seq(Nat) /\ Len(cut) = seq + n /\ \A p \in 1..(seq + n) : cut[p] = row[p]
       /\ RowPaged(P, cut)
  BY <1>2, CutRow
<1>11. /\ rest \in Seq(Nat) /\ Unique(rest)
       /\ PagesIn(P, row) = PagesIn(P, cut) \cup PagesIn(P, rest)
       /\ PagesIn(P, cut) \cap PagesIn(P, rest) = {}
  BY <1>2, CutPages
<1>12. new = cut
  <2>1. ASSUME NEW p \in 1..(seq + n) PROVE new[p] = row[p]
    <3>1. CASE p <= seq
      BY <1>9, <3>1
    <3>2. CASE ~(p <= seq)
      <4>1. p - seq \in 1..n /\ seq + (p - seq) = p
        BY <1>1, <3>2
      <4> QED BY <1>9, <4>1
    <3> QED BY <3>1, <3>2
  <2> HIDE DEF cut
  <2> QED BY <1>9, <1>10, <2>1, SeqEqual
<1>13. gone = rest
  <2>1. PICK y \in Nat : y = CeilAlign(seq + n) /\ seq + n <= y
    <3>1. PICK k \in Nat : k = seq + n
      BY <1>1
    <3>2. CeilAlign(k) = PagesFor(P, k) * P
      BY NewPages
    <3>3. k <= PagesFor(P, k) * P /\ PagesFor(P, k) * P \in Nat
      BY PagesForFacts
    <3> QED BY <3>1, <3>2, <3>3
  <2>2. KeepLen(seq, n) = IF y < seq + D THEN y ELSE seq + D
    BY <2>1 DEF KeepLen, MinOf
  <2>3. CASE y < seq + D
    <3>1. gone = SubSeq(win, (y - seq) + 1, D)
      BY <2>2, <2>3 DEF ToFree
    <3>2. y - seq \in Nat /\ y - seq <= D
      BY <1>1, <2>1, <2>3, SMTT(30)
    <3>3. PieceOf(Nat, win, y - seq, D, gone)
      BY <1>1, <1>5, <3>1, <3>2, Piece
    <3>4. PieceOf(Nat, row, y, m, rest)
      <4>1. rest = SubSeq(row, y + 1, m)
        BY <2>1
      <4>2. y <= m /\ m <= Len(row)
        BY <1>1, <2>3
      <4> HIDE DEF rest
      <4> QED BY <1>1, <4>1, <4>2, Piece
    <3> HIDE DEF gone, rest
    <3>5. D - (y - seq) = m - y
      BY <1>1, <2>1
    <3>6. ASSUME NEW i \in 1..(m - y) PROVE gone[i] = rest[i]
      <4>1. (y - seq) + i \in 1..D /\ seq + ((y - seq) + i) = y + i /\ i \in 1..(D - (y - seq))
        <5> HIDE DEF m
        <5>1. i \in Nat /\ i >= 1 /\ i <= m - y
          BY <1>1
        <5>2. y >= seq /\ m = seq + D
          BY <1>1, <2>1
        <5>3. (y - seq) + i \in Int /\ (y - seq) + i >= 1 /\ (y - seq) + i <= D
          BY <1>1, <5>1, <5>2
        <5>4. seq + ((y - seq) + i) = y + i
          BY <5>1
        <5>5. i <= D - (y - seq)
          BY <1>1, <5>1, <5>2
        <5> QED BY <1>1, <5>1, <5>3, <5>4, <5>5
      <4>2. gone[i] = win[(y - seq) + i] /\ rest[i] = row[y + i]
        BY <3>3, <3>4, <4>1 DEF PieceOf
      <4>3. win[(y - seq) + i] = row[seq + ((y - seq) + i)]
        BY <1>5, <4>1
      <4> QED BY <4>1, <4>2, <4>3
    <3>7. gone \in Seq(Nat) /\ rest \in Seq(Nat) /\ Len(gone) = m - y /\ Len(rest) = m - y
      BY <3>3, <3>4, <3>5 DEF PieceOf
    <3> QED BY <3>6, <3>7, SeqEqual
  <2>4. CASE ~(y < seq + D)
    <3>1. gone = SubSeq(win, ((seq + D) - seq) + 1, D)
      BY <2>2, <2>4 DEF ToFree
    <3>2. ((seq + D) - seq) + 1 \in Int /\ D < ((seq + D) - seq) + 1 /\ y + 1 \in Int /\ m < y + 1
      BY <1>1, <2>4
    <3>3. gone = <<>>
      BY <1>1, <3>1, <3>2, SubSeqEmpty
    <3>4. rest = <<>>
      BY <1>1, <2>1, <3>2, SubSeqEmpty
    <3> QED BY <3>3, <3>4
  <2> QED BY <2>3, <2>4
<1> HIDE DEF gone, rest, cut
<1>14. RowSplit(P, row, new, gone)
  BY <1>10, <1>11, <1>12, <1>13 DEF RowSplit
<1>15. RowAfter(row, seq, n, new)
  BY <1>9 DEF RowAfter
<1>16. TookFront(row, seq, path, new)
  BY <1>9 DEF TookFront
<1>17. FrontLocs(row, seq, path, tgt)
  BY <1>6 DEF FrontLocs
<1> QED BY <1>3, <1>14, <1>15, <1>16, <1>17 DEF new, gone, win

\* out_cache_loc[accept_index].
LEMMA AcceptedAt ==
  ASSUME NEW row \in Seq(Nat), NEW seq \in Nat, Len(row) = seq + D, NEW path, PathOK(path)
  PROVE  PathLocs(row, seq, path, AcceptedLocs(SubSeq(row, seq + 1, seq + D), path))
<1> DEFINE n == Len(path)
           win == SubSeq(row, seq + 1, seq + D)
           acc == AcceptedLocs(win, path)
<1>1. D \in Nat /\ n \in Nat /\ DOMAIN path = 1..n /\ seq + D \in Nat
  <2>1. D \in Nat /\ MaxDepth \in Nat /\ n \in 1..(MaxDepth + 1)
    BY TargetKVAssumption DEF PathOK
  <2> QED BY <2>1 DEF PathOK
<1>2. \A j \in 1..n : path[j] + 1 \in 1..D
  <2>1. \A j \in 1..n : path[j] \in 0..(D - 1)
    BY ElementOfSeq DEF PathOK
  <2> QED BY <1>1, <2>1, SMTT(30)
<1>3. PieceOf(Nat, row, seq, seq + D, win)
  BY <1>1, Piece
<1>4. \A i \in 1..D : win[i] = row[seq + i] /\ row[seq + i] \in Nat
  <2>1. (seq + D) - seq = D /\ \A i \in 1..D : seq + i \in 1..Len(row)
    BY <1>1
  <2> QED BY <1>3, <2>1, ElementOfSeq DEF PieceOf
<1> HIDE DEF win
<1>5. acc = [j \in 1..n |-> win[path[j] + 1]]
  BY <1>1 DEF AcceptedLocs
<1>6. \A j \in 1..n : win[path[j] + 1] = row[seq + (path[j] + 1)] /\ win[path[j] + 1] \in Nat
  BY <1>2, <1>4
<1> HIDE DEF acc
<1>7. acc \in [1..n -> Nat]
  BY <1>5, <1>6
<1>8. acc \in Seq(Nat) /\ Len(acc) = n /\ \A j \in 1..n : acc[j] = row[seq + (path[j] + 1)]
  BY <1>1, <1>5, <1>6, <1>7, ListOf
<1> QED BY <1>8 DEF PathLocs, acc, win

\* _free_cache by the token: the row takes the slots of the path, the others go.
LEMMA UnitRow ==
  ASSUME NEW row, RowPaged(1, row), NEW seq \in Nat, Len(row) = seq + D,
         NEW old \in Seq(Nat), Len(old) = seq, \A p \in 1..seq : old[p] = row[p],
         NEW path, PathOK(path)
  PROVE  LET win == SubSeq(row, seq + 1, seq + D)
             new == SubSeq(old, 1, seq) \o AcceptedLocs(win, path)
         IN  /\ RowSplit(1, row, new, Rejected(win, path))
             /\ RowAfter(row, seq, Len(path), new)
             /\ TookPath(row, seq, path, new)
<1> DEFINE n == Len(path)
           m == Len(row)
           win == SubSeq(row, seq + 1, seq + D)
           acc == AcceptedLocs(win, path)
           new == SubSeq(old, 1, seq) \o acc
           rest == {i \in DOMAIN win : \A j \in DOMAIN path : path[j] + 1 # i}
           keep == Ascending(rest)
           gone == Rejected(win, path)
<1>1. /\ D \in Nat /\ n \in Nat /\ n >= 1 /\ n <= D /\ m \in Nat /\ m = seq + D /\ row \in Seq(Nat)
      /\ DOMAIN path = 1..n
  <2>1. D \in Nat /\ MaxDepth \in Nat /\ MaxDepth + 1 <= D /\ n \in 1..(MaxDepth + 1)
    BY TargetKVAssumption DEF PathOK
  <2> QED BY <2>1 DEF RowPaged, PathOK
<1>2. \A j \in 1..n : path[j] \in 0..(D - 1) /\ path[j] \in Nat /\ path[j] + 1 \in 1..D
  <2>1. \A j \in 1..n : path[j] \in 0..(D - 1)
    BY ElementOfSeq DEF PathOK
  <2> QED BY <1>1, <2>1, SMTT(30)
<1>3. /\ Unique(row) /\ 1 \in Positive /\ DOMAIN row = 1..m /\ \A p \in 1..m : row[p] \in Nat
  BY <1>1, RowUnique, LenProperties, ElementOfSeq DEF Positive
<1>4. PieceOf(Nat, row, seq, seq + D, win)
  BY <1>1, Piece
<1>5. /\ win \in Seq(Nat) /\ Len(win) = D /\ DOMAIN win = 1..D
      /\ \A i \in 1..D : win[i] = row[seq + i] /\ seq + i \in 1..m
  <2>1. (seq + D) - seq = D /\ \A i \in 1..D : seq + i \in 1..m
    BY <1>1
  <2> QED BY <1>4, <2>1, LenProperties DEF PieceOf
<1> HIDE DEF win
<1>6. /\ acc \in Seq(Nat) /\ Len(acc) = n /\ \A j \in 1..n : acc[j] = row[seq + (path[j] + 1)]
  <2>1. PathLocs(row, seq, path, acc)
    BY <1>1, AcceptedAt DEF win
  <2> QED BY <2>1 DEF PathLocs
<1>7. SubSeq(old, 1, seq) = old
  BY WholePiece
<1> HIDE DEF acc
<1>8. Joined(Nat, old, acc, new)
  BY <1>6, <1>7, ConcatJoins
<1> HIDE DEF new
<1>9. /\ new \in Seq(Nat) /\ Len(new) = seq + n /\ \A p \in 1..seq : new[p] = row[p]
      /\ \A j \in 1..n : new[seq + j] = row[seq + (path[j] + 1)]
  BY <1>6, <1>8 DEF Joined
<1> DEFINE Src(p) == IF p <= seq THEN p ELSE seq + (path[p - seq] + 1)
<1>10. ASSUME NEW p \in 1..(seq + n)
       PROVE  /\ Src(p) \in 1..m /\ new[p] = row[Src(p)]
              /\ p > seq => p - seq \in 1..n
  <2>1. CASE p <= seq
    BY <1>1, <1>9, <2>1, SMTT(30)
  <2>2. CASE ~(p <= seq)
    <3>1. p - seq \in 1..n /\ seq + (p - seq) = p
      BY <1>1, <2>2
    <3>2. path[p - seq] + 1 \in 1..D
      BY <1>2, <3>1
    <3>3. seq + (path[p - seq] + 1) \in 1..m
      BY <1>5, <3>2
    <3>4. new[p] = row[seq + (path[p - seq] + 1)]
      BY <1>9, <3>1
    <3> QED BY <2>2, <3>1, <3>3, <3>4
  <2> QED BY <2>1, <2>2
<1>11. Unique(new)
  <2> SUFFICES ASSUME NEW p \in 1..(seq + n), NEW q \in 1..(seq + n), new[p] = new[q] PROVE p = q
    BY <1>9 DEF Unique
  <2>1. Src(p) = Src(q)
    <3> HIDE DEF Src
    <3> QED BY <1>3, <1>10 DEF Unique
  <2>2. CASE p <= seq /\ q <= seq
    BY <2>1, <2>2
  <2>3. CASE p <= seq /\ ~(q <= seq)
    <3>1. path[q - seq] \in Nat /\ p = seq + (path[q - seq] + 1)
      BY <1>2, <1>10, <2>1, <2>3
    <3> QED BY <2>3, <3>1
  <2>4. CASE ~(p <= seq) /\ q <= seq
    <3>1. path[p - seq] \in Nat /\ q = seq + (path[p - seq] + 1)
      BY <1>2, <1>10, <2>1, <2>4
    <3> QED BY <2>4, <3>1
  <2>5. CASE ~(p <= seq) /\ ~(q <= seq)
    <3>1. p - seq \in 1..n /\ q - seq \in 1..n /\ seq + (path[p - seq] + 1) = seq + (path[q - seq] + 1)
      BY <1>10, <2>1, <2>5
    <3>2. path[p - seq] \in Nat /\ path[q - seq] \in Nat
      BY <1>2, <3>1
    <3>3. path[p - seq] = path[q - seq]
      BY <3>1, <3>2, SMTT(30)
    <3>4. p - seq = q - seq
      BY <3>1, <3>3 DEF PathOK
    <3> QED BY <1>1, <3>4
  <2> QED BY <2>2, <2>3, <2>4, <2>5
<1>12. rest \in SUBSET (1..D)
  BY <1>5
<1>13. ASSUME NEW i \in 1..D PROVE i \in rest <=> \A j \in 1..n : path[j] + 1 # i
  BY <1>1, <1>5
<1> HIDE DEF rest
<1>14. KeepOK(keep, D) /\ Elements(keep) = rest /\ Len(keep) \in Nat
  BY <1>1, <1>12, KeepRows
<1>15. gone = Gather(win, keep)
  BY DEF Rejected, rest
<1> HIDE DEF keep, gone
<1>16. /\ gone \in Seq(Nat) /\ Len(gone) = Len(keep)
       /\ \A j \in 1..Len(keep) : gone[j] = win[keep[j]] /\ keep[j] \in rest
  <2>1. Gathers(Nat, win, keep, gone)
    BY <1>5, <1>14, <1>15, GatherFacts
  <2>2. DOMAIN keep = 1..Len(keep)
    BY <1>14, LenProperties DEF KeepOK
  <2>3. \A j \in 1..Len(keep) : keep[j] \in rest
    BY <1>14, <2>2 DEF Elements
  <2> QED BY <2>1, <2>3 DEF Gathers
<1>17. Unique(gone)
  <2> SUFFICES ASSUME NEW i \in 1..Len(keep), NEW j \in 1..Len(keep), gone[i] = gone[j] PROVE i = j
    BY <1>16 DEF Unique
  <2>1. keep[i] \in 1..D /\ keep[j] \in 1..D /\ win[keep[i]] = win[keep[j]]
    BY <1>12, <1>16
  <2>2. seq + keep[i] = seq + keep[j]
    BY <1>3, <1>5, <2>1, SMTT(30) DEF Unique
  <2>3. keep[i] = keep[j]
    BY <1>1, <2>1, <2>2, SMTT(30)
  <2> QED BY <1>14, <2>3 DEF KeepOK, Unique
<1>18. /\ RowPaged(1, new) /\ PagesIn(1, new) = Elements(new) /\ PagesIn(1, gone) = Elements(gone)
       /\ PagesIn(1, row) = Elements(row)
  BY <1>1, <1>3, <1>9, <1>11, <1>16, <1>17, UnitPages
<1>19. /\ Elements(new) = {new[p] : p \in 1..(seq + n)} /\ Elements(row) = {row[p] : p \in 1..m}
  BY <1>3, <1>9, LenProperties DEF Elements
<1>20. Elements(gone) = {win[i] : i \in rest}
  <2>1. DOMAIN gone = 1..Len(keep)
    BY <1>16, LenProperties
  <2>2. Elements(gone) \subseteq {win[i] : i \in rest}
    BY <1>16, <2>1 DEF Elements
  <2>3. ASSUME NEW i \in rest PROVE win[i] \in Elements(gone)
    <3>1. DOMAIN keep = 1..Len(keep)
      BY <1>14, LenProperties DEF KeepOK
    <3>2. PICK j \in 1..Len(keep) : keep[j] = i
      BY <1>14, <3>1 DEF Elements
    <3> QED BY <1>16, <2>1, <3>2 DEF Elements
  <2> QED BY <2>2, <2>3
<1>21. ASSUME NEW p \in 1..m PROVE row[p] \in Elements(new) \cup Elements(gone)
  <2>1. CASE p <= seq
    <3>1. p \in 1..(seq + n) /\ p \in 1..seq
      BY <1>1, <2>1
    <3> QED BY <1>9, <1>19, <3>1
  <2>2. CASE ~(p <= seq)
    <3>1. p - seq \in 1..D /\ seq + (p - seq) = p
      BY <1>1, <2>2
    <3>2. CASE p - seq \in rest
      BY <1>5, <1>20, <3>1, <3>2
    <3>3. CASE p - seq \notin rest
      <4>1. PICK j \in 1..n : path[j] + 1 = p - seq
        BY <1>13, <3>1, <3>3
      <4>2. seq + j \in 1..(seq + n)
        BY <1>1
      <4>3. new[seq + j] = row[p]
        BY <1>9, <3>1, <4>1
      <4> QED BY <1>19, <4>2, <4>3
    <3> QED BY <3>2, <3>3
  <2> QED BY <2>1, <2>2
<1>22. ASSUME NEW p \in 1..(seq + n), NEW i \in rest PROVE new[p] # win[i]
  <2>1. i \in 1..D /\ seq + i \in 1..m /\ win[i] = row[seq + i]
    BY <1>5, <1>12
  <2>2. Src(p) # seq + i
    <3>1. CASE p <= seq
      <4>1. Src(p) = p /\ p \in Nat /\ i \in Nat /\ i >= 1
        BY <1>1, <2>1, <3>1
      <4> HIDE DEF Src
      <4> QED BY <3>1, <4>1
    <3>2. CASE ~(p <= seq)
      <4>1. p - seq \in 1..n
        BY <1>10, <3>2
      <4>2. path[p - seq] + 1 # i /\ path[p - seq] \in Nat
        BY <1>2, <1>13, <2>1, <4>1
      <4>3. seq + (path[p - seq] + 1) # seq + i
        <5>1. PICK x \in Nat : x = path[p - seq]
          BY <4>2
        <5>2. x + 1 # i /\ i \in Nat
          BY <1>1, <2>1, <4>2, <5>1
        <5>3. seq + (x + 1) # seq + i
          BY <5>2
        <5> QED BY <5>1, <5>3
      <4> QED BY <3>2, <4>3
    <3> QED BY <3>1, <3>2
  <2>3. Src(p) \in 1..m /\ new[p] = row[Src(p)]
    BY <1>10
  <2> HIDE DEF Src
  <2> QED BY <1>3, <2>1, <2>2, <2>3 DEF Unique
<1>23. Elements(new) \cup Elements(gone) \subseteq Elements(row)
  <2>1. Elements(new) \subseteq Elements(row)
    <3> HIDE DEF Src
    <3> QED BY <1>10, <1>19
  <2>2. Elements(gone) \subseteq Elements(row)
    <3>1. \A i \in rest : i \in 1..D
      BY <1>12
    <3> QED BY <1>5, <1>19, <1>20, <3>1
  <2> QED BY <2>1, <2>2
<1>24. RowSplit(1, row, new, gone)
  <2>1. Elements(row) = Elements(new) \cup Elements(gone)
    <3>1. Elements(row) \subseteq Elements(new) \cup Elements(gone)
      BY <1>19, <1>21
    <3> QED BY <1>23, <3>1
  <2>2. Elements(new) \cap Elements(gone) = {}
    BY <1>19, <1>20, <1>22
  <2> QED BY <1>16, <1>17, <1>18, <2>1, <2>2 DEF RowSplit
<1>25. RowAfter(row, seq, n, new)
  BY <1>9 DEF RowAfter
<1>26. TookPath(row, seq, path, new)
  BY <1>9 DEF TookPath
<1> QED BY <1>24, <1>25, <1>26 DEF new, acc, gone, win

\* What move_kv_cache leaves behind.
MovedTo(T, paths, before, after) ==
  /\ KvOK(before) => KvOK(after)
  /\ \A r \in BatchReqs : \A p \in 1..len[r] : after[T[r][p]] = before[T[r][p]]
  /\ \A r \in BatchReqs : \A j \in 1..Len(paths[r]) :
       after[T[r][len[r] + j]] = before[T[r][len[r] + (paths[r][j] + 1)]]

\* The moves of a batch: each target takes the contents of its own source.
LEMMA MoveFacts ==
  ASSUME NEW T, SlotsOwned(T), batch \in Seq(Reqs), batch # <<>>, len \in [Reqs -> Nat],
         \A r \in BatchReqs : Len(T[r]) = len[r] + D,
         NEW paths, \A r \in BatchReqs : PathOK(paths[r]), NEW kept, NEW src,
         \A r \in BatchReqs : /\ FrontLocs(T[r], len[r], paths[r], kept[r])
                              /\ PathLocs(T[r], len[r], paths[r], src[r]),
         NEW before
  PROVE  MovedTo(T, paths, before, Moved(before, Flat(kept), Flat(src)))
<1> DEFINE n == Len(batch)
           a == [k \in 1..n |-> kept[batch[k]]]
           b == [k \in 1..n |-> src[batch[k]]]
           tgt == FlattenSeq(a)
           from == FlattenSeq(b)
           after == Moved(before, tgt, from)
           At(s) == CHOOSE i \in DOMAIN tgt : tgt[i] = s
<1>1. /\ n \in Nat /\ n >= 1 /\ DOMAIN batch = 1..n /\ BatchReqs \subseteq Reqs
      /\ \A k \in 1..n : batch[k] \in BatchReqs
      /\ \A r \in BatchReqs : \E k \in 1..n : batch[k] = r
  <2>1. /\ n \in Nat /\ DOMAIN batch = 1..n /\ \A k \in 1..n : batch[k] \in Reqs
    BY LenProperties, ElementOfSeq
  <2>2. n # 0
    BY EmptySeq
  <2> QED BY <2>1, <2>2 DEF BatchReqs, Elements
<1>2. Flat(kept) = tgt /\ Flat(src) = from
  BY <1>1 DEF Flat
<1>3. /\ a \in [1..n -> Seq(Nat)] /\ b \in [1..n -> Seq(Nat)]
      /\ \A k \in 1..n : Len(a[k]) = Len(b[k]) /\ Len(a[k]) = Len(paths[batch[k]])
      /\ \A k \in 1..n : a[k] = kept[batch[k]] /\ b[k] = src[batch[k]]
  BY <1>1 DEF FrontLocs, PathLocs
<1> HIDE DEF a, b
<1>4. tgt \in Seq(Nat) /\ from \in Seq(Nat) /\ Paired(n, a, b, tgt, from)
  BY <1>1, <1>3, FlattenPairs
<1>5. DOMAIN tgt = 1..Len(tgt) /\ Len(tgt) \in Nat
  BY <1>4, LenProperties
<1> HIDE DEF tgt, from
<1>6. ASSUME NEW r \in BatchReqs, NEW j \in 1..Len(paths[r])
      PROVE  /\ r \in Reqs /\ len[r] \in Nat /\ D \in Nat
             /\ j \in Nat /\ len[r] + j \in 1..Len(T[r])
             /\ len[r] + (paths[r][j] + 1) \in 1..Len(T[r])
  <2>1. /\ r \in Reqs /\ len[r] \in Nat /\ D \in Nat /\ MaxDepth \in Nat /\ MaxDepth + 1 <= D
        /\ Len(paths[r]) \in 1..(MaxDepth + 1) /\ Len(T[r]) = len[r] + D
    BY <1>1, TargetKVAssumption DEF PathOK
  <2>2. paths[r][j] \in 0..(D - 1)
    BY ElementOfSeq DEF PathOK
  <2>3. j \in Nat /\ j >= 1 /\ j <= D
    BY <2>1
  <2>4. len[r] + j \in 1..Len(T[r])
    BY <2>1, <2>3
  <2>5. len[r] + (paths[r][j] + 1) \in 1..Len(T[r])
    <3>1. PICK x \in 0..(D - 1) : x = paths[r][j]
      BY <2>2
    <3>2. len[r] + (x + 1) \in 1..Len(T[r])
      BY <2>1
    <3> QED BY <3>1, <3>2
  <2> QED BY <2>1, <2>3, <2>4, <2>5
<1>7. ASSUME NEW i \in 1..Len(tgt)
      PROVE  \E r \in BatchReqs : \E j \in 1..Len(paths[r]) :
               tgt[i] = T[r][len[r] + j] /\ from[i] = T[r][len[r] + (paths[r][j] + 1)]
  <2>1. PICK k \in 1..n : \E j \in 1..Len(a[k]) : tgt[i] = a[k][j] /\ from[i] = b[k][j]
    BY <1>4 DEF Paired
  <2>2. PICK j \in 1..Len(a[k]) : tgt[i] = a[k][j] /\ from[i] = b[k][j]
    BY <2>1
  <2>3. batch[k] \in BatchReqs /\ j \in 1..Len(paths[batch[k]])
    BY <1>1, <1>3
  <2>4. a[k][j] = T[batch[k]][len[batch[k]] + j]
    BY <1>3, <2>3 DEF FrontLocs
  <2>5. b[k][j] = T[batch[k]][len[batch[k]] + (paths[batch[k]][j] + 1)]
    <3>1. PICK r \in BatchReqs : r = batch[k]
      BY <2>3
    <3>2. b[k] = src[r] /\ j \in 1..Len(paths[r])
      BY <1>3, <2>3, <3>1
    <3>3. src[r][j] = T[r][len[r] + (paths[r][j] + 1)]
      BY <3>2 DEF PathLocs
    <3> QED BY <3>1, <3>2, <3>3
  <2> QED BY <2>2, <2>3, <2>4, <2>5
<1>8. ASSUME NEW s \in Slots
      PROVE  after[s] = IF \E i \in DOMAIN tgt : tgt[i] = s THEN before[from[At(s)]] ELSE before[s]
  BY DEF Moved
<1> HIDE DEF after
<1>9. ASSUME NEW s \in Slots, \E i \in DOMAIN tgt : tgt[i] = s
      PROVE  At(s) \in 1..Len(tgt) /\ tgt[At(s)] = s
  BY <1>5, <1>9
<1> HIDE DEF At
<1>10. KvOK(before) => KvOK(after)
  <2> SUFFICES ASSUME KvOK(before), NEW s \in Slots
               PROVE  after[s] = Junk \/ after[s] \in Reqs \X Nat
    BY DEF KvOK
  <2>1. CASE \E i \in DOMAIN tgt : tgt[i] = s
    <3>1. At(s) \in 1..Len(tgt)
      BY <1>9, <2>1
    <3>2. PICK r \in BatchReqs : \E j \in 1..Len(paths[r]) :
             from[At(s)] = T[r][len[r] + (paths[r][j] + 1)]
      BY <1>7, <3>1
    <3>3. PICK j \in 1..Len(paths[r]) : from[At(s)] = T[r][len[r] + (paths[r][j] + 1)]
      BY <3>2
    <3>4. from[At(s)] \in Slots
      BY <1>6, <3>3 DEF SlotsOwned
    <3>5. after[s] = before[from[At(s)]]
      BY <1>8, <2>1
    <3> QED BY <3>4, <3>5 DEF KvOK
  <2>2. CASE ~ \E i \in DOMAIN tgt : tgt[i] = s
    BY <1>8, <2>2 DEF KvOK
  <2> QED BY <2>1, <2>2
<1>11. ASSUME NEW r \in BatchReqs, NEW p \in 1..len[r] PROVE after[T[r][p]] = before[T[r][p]]
  <2>1. r \in Reqs /\ len[r] \in Nat /\ D \in Nat /\ Len(T[r]) = len[r] + D
    BY <1>1, TargetKVAssumption
  <2>2. p \in 1..Len(T[r])
    BY <2>1
  <2>3. T[r][p] \in Slots
    BY <2>1, <2>2 DEF SlotsOwned
  <2>4. ASSUME NEW i \in 1..Len(tgt), tgt[i] = T[r][p] PROVE FALSE
    <3>1. PICK q \in BatchReqs : \E j \in 1..Len(paths[q]) : tgt[i] = T[q][len[q] + j]
      BY <1>7
    <3>2. PICK j \in 1..Len(paths[q]) : T[q][len[q] + j] = T[r][p]
      BY <2>4, <3>1
    <3>3. q = r /\ len[q] + j = p
      <4>1. q \in Reqs /\ len[q] + j \in 1..Len(T[q])
        BY <1>6
      <4>2. PICK x \in 1..Len(T[q]) : x = len[q] + j
        BY <4>1
      <4>3. T[q][x] = T[r][p]
        BY <3>2, <4>2
      <4>4. q = r /\ x = p
        <5>1. \A c \in 1..Len(T[q]) : \A d \in 1..Len(T[r]) : T[q][c] = T[r][d] => q = r /\ c = d
          BY <2>1, <4>1 DEF SlotsOwned
        <5>2. p \in 1..Len(T[r]) /\ x \in 1..Len(T[q])
          BY <2>2
        <5> QED BY <4>3, <5>1, <5>2
      <4> QED BY <4>2, <4>4
    <3>4. j \in Nat /\ j >= 1
      BY <1>6
    <3>5. len[r] + j <= len[r]
      BY <3>3
    <3> QED BY <2>1, <3>4, <3>5
  <2> QED BY <1>5, <1>8, <2>3, <2>4
<1>12. ASSUME NEW r \in BatchReqs, NEW j \in 1..Len(paths[r])
       PROVE  after[T[r][len[r] + j]] = before[T[r][len[r] + (paths[r][j] + 1)]]
  <2> DEFINE s == T[r][len[r] + j]
  <2>1. /\ r \in Reqs /\ len[r] \in Nat /\ j \in Nat /\ len[r] + j \in 1..Len(T[r])
    BY <1>6
  <2>2. s \in Slots
    BY <2>1 DEF SlotsOwned
  <2>3. \E i \in DOMAIN tgt : tgt[i] = s
    <3>1. PICK k \in 1..n : batch[k] = r
      BY <1>1
    <3>2. a[k] = kept[r] /\ Len(a[k]) = Len(paths[r])
      BY <1>3, <3>1
    <3>3. PICK i \in 1..Len(tgt) : tgt[i] = a[k][j]
      BY <1>4, <3>2 DEF Paired
    <3>4. a[k][j] = s
      BY <3>2 DEF FrontLocs
    <3> QED BY <1>5, <3>3, <3>4
  <2> HIDE DEF s
  <2>4. At(s) \in 1..Len(tgt) /\ tgt[At(s)] = s
    BY <1>9, <2>2, <2>3
  <2>5. PICK q \in BatchReqs : \E h \in 1..Len(paths[q]) :
           tgt[At(s)] = T[q][len[q] + h] /\ from[At(s)] = T[q][len[q] + (paths[q][h] + 1)]
    BY <1>7, <2>4
  <2>6. PICK h \in 1..Len(paths[q]) :
           tgt[At(s)] = T[q][len[q] + h] /\ from[At(s)] = T[q][len[q] + (paths[q][h] + 1)]
    BY <2>5
  <2>7. q \in Reqs /\ len[q] \in Nat /\ h \in Nat /\ len[q] + h \in 1..Len(T[q])
    BY <1>6
  <2>8. T[q][len[q] + h] = T[r][len[r] + j]
    BY <2>4, <2>6 DEF s
  <2>9. q = r /\ len[q] + h = len[r] + j
    BY <2>1, <2>7, <2>8 DEF SlotsOwned
  <2>10. h = j
    BY <2>1, <2>7, <2>9
  <2>11. after[s] = before[from[At(s)]]
    BY <1>8, <2>2, <2>3
  <2> QED BY <2>6, <2>9, <2>10, <2>11 DEF s
<1> QED BY <1>2, <1>10, <1>11, <1>12 DEF MovedTo, after

-----------------------------------------------------------------------------
(* The inductive invariant. *)

\* Lengths of a request: what is behind len is allocated, the overlap worker
\* allocates two batches ahead, the synchronous one nothing.
LenOK(r) ==
  /\ Len(table[r]) = allocated[r]
  /\ len[r] = committed[r] + late[r] /\ late[r] <= D /\ len[r] <= allocated[r]
  /\ ~SpecV2 => late[r] = 0 /\ allocated[r] = committed[r]
  /\ SpecV2 => allocated[r] <= committed[r] + 2 * AllocLen
  /\ r \notin BatchReqs => allocated[r] = 0

LenInv ==
  /\ mode \in Modes
  /\ batch \in Seq(Reqs) /\ Unique(batch)
  /\ len \in [Reqs -> Nat] /\ committed \in [Reqs -> Nat]
  /\ allocated \in [Reqs -> Nat] /\ late \in [Reqs -> Nat]
  /\ table \in [Reqs -> Seq(Nat)]
  /\ \A r \in Reqs : LenOK(r)

PageInv == PageState(PageSize, NumPages, table, free)

TargetInv == LenInv /\ PageInv /\ KvOK(kv)

LEMMA ModeFacts ==
  ASSUME mode \in Modes
  PROVE  /\ PageSize \in Positive /\ NumPages \in Nat
         /\ D \in Nat /\ D >= 1 /\ MaxDepth \in Nat /\ MaxDepth + 1 <= D
         /\ AllocLen \in Nat /\ AllocLen >= D
  BY TargetKVAssumption DEF PageSize, NumPages, Positive

LEMMA BatchFacts ==
  ASSUME batch \in Seq(Reqs)
  PROVE  /\ BatchReqs \subseteq Reqs /\ Len(batch) \in Nat /\ DOMAIN batch = 1..Len(batch)
         /\ \A k \in 1..Len(batch) : batch[k] \in BatchReqs
  BY LenProperties, ElementOfSeq DEF BatchReqs, Elements

\* The free list at the start: every page once.
LEMMA InitInv ==
  ASSUME Init
  PROVE  TargetInv
<1>1. /\ PageSize \in Positive /\ NumPages \in Nat /\ D \in Nat /\ AllocLen \in Nat
  BY ModeFacts DEF Init
<1>2. /\ <<>> \in Seq(Reqs) /\ <<>> \in Seq(Nat) /\ Len(<<>>) = 0 /\ 1..0 = {}
  OBVIOUS
<1>3. LenInv
  <2>1. batch \in Seq(Reqs) /\ Unique(batch)
    BY <1>2 DEF Init, Unique
  <2>2. ASSUME NEW r \in Reqs PROVE LenOK(r)
    BY <1>1, <1>2 DEF Init, LenOK
  <2>3. table \in [Reqs -> Seq(Nat)]
    BY <1>2 DEF Init
  <2> QED BY <2>1, <2>2, <2>3 DEF Init, LenInv
<1>4. PageInv
  <2> DEFINE P == PageSize
             N == NumPages
  <2>1. free \in [1..N -> Positive] /\ \A i \in 1..N : free[i] = i
    BY <1>1 DEF Init, Positive
  <2>2. free \in Seq(Positive) /\ Len(free) = N /\ DOMAIN free = 1..N
    BY <1>1, <2>1, ListOf
  <2>3. Unique(free) /\ Elements(free) = 1..N
    BY <2>1, <2>2 DEF Unique, Elements
  <2>4. \A r \in Reqs : table[r] = <<>>
    BY DEF Init
  <2>5. RowPaged(P, <<>>) /\ PagesIn(P, <<>>) = {}
    BY <1>1, EmptyRow
  <2> HIDE DEF P, N
  <2>6. PageState(P, N, table, free)
    BY <2>2, <2>3, <2>4, <2>5 DEF PageState
  <2> QED BY <2>6 DEF PageInv, P, N
<1>5. KvOK(kv)
  BY DEF Init, KvOK
<1> QED BY <1>3, <1>4, <1>5 DEF TargetInv

LEMMA SameMode ==
  ASSUME mode' = mode
  PROVE  /\ PageSize' = PageSize /\ NumPages' = NumPages /\ Slots' = Slots
         /\ SpecV2' = SpecV2 /\ Chain' = Chain
  BY DEF PageSize, NumPages, Slots, SpecV2, Chain

\* A request leaves the batch.
LEMMA LeaveBatch ==
  ASSUME batch \in Seq(Reqs), Unique(batch), NEW r
  PROVE  LET left == Gather(batch, Ascending({k \in DOMAIN batch : batch[k] # r}))
         IN  /\ left \in Seq(Reqs) /\ Unique(left)
             /\ Elements(left) = BatchReqs \ {r}
<1> DEFINE n == Len(batch)
           S == {k \in DOMAIN batch : batch[k] # r}
           keep == Ascending(S)
           left == Gather(batch, keep)
<1>1. n \in Nat /\ DOMAIN batch = 1..n /\ S \in SUBSET (1..n)
  BY LenProperties
<1>2. \A k \in 1..n : k \in S <=> batch[k] # r
  BY <1>1
<1> HIDE DEF S
<1>3. KeepOK(keep, n) /\ Elements(keep) = S
  BY <1>1, KeepRows
<1> HIDE DEF keep
<1>4. Gathers(Reqs, batch, keep, left)
  BY <1>3, GatherFacts
<1> HIDE DEF left
<1>5. left \in Seq(Reqs) /\ Len(left) = Len(keep) /\ \A j \in 1..Len(keep) : left[j] = batch[keep[j]]
  BY <1>4 DEF Gathers
<1>6. /\ DOMAIN keep = 1..Len(keep) /\ DOMAIN left = 1..Len(keep) /\ Unique(keep)
      /\ \A j \in 1..Len(keep) : keep[j] \in S /\ keep[j] \in 1..n
  <2>1. DOMAIN keep = 1..Len(keep) /\ DOMAIN left = 1..Len(keep)
    BY <1>3, <1>5, LenProperties DEF KeepOK
  <2> QED BY <1>1, <1>3, <2>1 DEF Elements, KeepOK
<1>7. Unique(left)
  <2> SUFFICES ASSUME NEW i \in 1..Len(keep), NEW j \in 1..Len(keep), left[i] = left[j] PROVE i = j
    BY <1>5 DEF Unique
  <2>1. keep[i] = keep[j]
    BY <1>5, <1>6 DEF Unique
  <2> QED BY <1>6, <2>1 DEF Unique
<1>8. Elements(left) \subseteq BatchReqs \ {r}
  <2>1. ASSUME NEW j \in 1..Len(keep) PROVE left[j] \in BatchReqs \ {r}
    BY <1>1, <1>2, <1>5, <1>6 DEF BatchReqs, Elements
  <2> QED BY <1>6, <2>1 DEF Elements
<1>9. ASSUME NEW q \in BatchReqs, q # r PROVE q \in Elements(left)
  <2>1. PICK k \in 1..n : batch[k] = q
    BY <1>1 DEF BatchReqs, Elements
  <2>2. k \in S
    BY <1>2, <1>9, <2>1
  <2>3. PICK j \in 1..Len(keep) : keep[j] = k
    BY <1>3, <1>6, <2>2 DEF Elements
  <2>4. left[j] = q
    BY <1>5, <2>1, <2>3
  <2> QED BY <1>6, <2>4 DEF Elements
<1> QED BY <1>5, <1>7, <1>8, <1>9 DEF left, keep, S

\* Scrubbing free pages does not touch the rows.
RowsKept(T, before, after) ==
  /\ KvOK(before) => KvOK(after)
  /\ \A r \in Reqs : \A p \in 1..Len(T[r]) : after[T[r][p]] = before[T[r][p]]

LEMMA ScrubRows ==
  ASSUME NEW P \in Positive, P = PageSize, NumPages \in Nat, NEW T, NEW list,
         PageState(P, NumPages, T, list), NEW before
  PROVE  RowsKept(T, before, Scrubbed(before, list))
<1> DEFINE after == Scrubbed(before, list)
<1>1. \A s \in Slots : after[s] = IF PageOf(s) \in Elements(list) THEN Junk ELSE before[s]
  BY DEF Scrubbed
<1> HIDE DEF after
<1>2. KvOK(before) => KvOK(after)
  BY <1>1 DEF KvOK
<1>3. ASSUME NEW r \in Reqs, NEW p \in 1..Len(T[r]) PROVE after[T[r][p]] = before[T[r][p]]
  <2>1. T[r][p] \in Slots
    BY RowSlots DEF SlotsOwned
  <2>2. PageOf(T[r][p]) \in PagesIn(P, T[r])
    BY DEF PageOf, PagesIn
  <2>3. PageOf(T[r][p]) \notin Elements(list)
    BY <2>2 DEF PageState
  <2> QED BY <1>1, <2>1, <2>3
<1> QED BY <1>2, <1>3 DEF RowsKept, after

\* release_kv_cache: a request leaves with all its pages.
LEMMA ReleaseStep ==
  ASSUME TargetInv, NEW r \in BatchReqs, NEW left, Released(r, left),
         left \in Seq(Positive), Unique(left),
         Elements(left) = Elements(free) \cup PagesIn(PageSize, table[r])
  PROVE  TargetInv' /\ (ContextIntact => ContextIntact')
<1> DEFINE P == PageSize
           T2 == [table EXCEPT ![r] = <<>>]
<1>1. /\ P \in Positive /\ NumPages \in Nat /\ D \in Nat /\ AllocLen \in Nat /\ r \in Reqs
      /\ BatchReqs \subseteq Reqs
  BY ModeFacts, BatchFacts DEF TargetInv, LenInv
<1>2. /\ mode' = mode /\ free' = left /\ kv' = Scrubbed(kv, left) /\ table' = T2
      /\ batch' = Gather(batch, Ascending({k \in DOMAIN batch : batch[k] # r}))
      /\ len' = [len EXCEPT ![r] = 0] /\ committed' = [committed EXCEPT ![r] = 0]
      /\ allocated' = [allocated EXCEPT ![r] = 0] /\ late' = [late EXCEPT ![r] = 0]
  BY DEF Released
<1>3. /\ PageSize' = P /\ NumPages' = NumPages /\ Slots' = Slots /\ SpecV2' = SpecV2
  BY <1>2, SameMode
<1>4. batch' \in Seq(Reqs) /\ Unique(batch') /\ BatchReqs' = BatchReqs \ {r}
  <2>1. batch \in Seq(Reqs) /\ Unique(batch)
    BY DEF TargetInv, LenInv
  <2>2. batch' \in Seq(Reqs) /\ Unique(batch') /\ Elements(batch') = BatchReqs \ {r}
    BY <1>2, <2>1, LeaveBatch
  <2> QED BY <2>2 DEF BatchReqs
<1>5. /\ table \in [Reqs -> Seq(Nat)] /\ T2 \in [Reqs -> Seq(Nat)] /\ T2[r] = <<>>
      /\ \A q \in Reqs : q # r => T2[q] = table[q]
  <2>1. <<>> \in Seq(Nat)
    OBVIOUS
  <2>2. table \in [Reqs -> Seq(Nat)]
    BY DEF TargetInv, LenInv
  <2> QED BY <1>1, <2>1, <2>2
<1> HIDE DEF T2
<1>6. PageState(P, NumPages, T2, left)
  <2>1. PageState(P, NumPages, table, free)
    BY DEF TargetInv, PageInv
  <2>2. RowPaged(P, T2[r]) /\ PagesIn(P, T2[r]) = {}
    BY <1>1, <1>5, EmptyRow
  <2>3. ASSUME NEW q \in Reqs PROVE RowPaged(P, T2[q]) /\ PagesIn(P, T2[q]) \subseteq PagesIn(P, table[q])
    <3>1. CASE q = r
      BY <2>2, <3>1
    <3>2. CASE q # r
      BY <1>5, <2>1, <3>2 DEF PageState
    <3> QED BY <3>1, <3>2
  <2>4. ASSUME NEW g
        PROVE  g \in PagesIn(P, table[r]) <=>
               \E q \in Reqs : g \in PagesIn(P, table[q]) /\ g \notin PagesIn(P, T2[q])
    BY <1>1, <1>5, <2>2
  <2>5. GivenBack(P, table, free, T2, left)
    BY <2>3, <2>4 DEF GivenBack
  <2> QED BY <2>1, <2>5, GiveBack
<1>7. RowsKept(T2, kv, kv')
  BY <1>1, <1>2, <1>6, ScrubRows
<1>8. LenInv'
  <2>1. /\ len' \in [Reqs -> Nat] /\ committed' \in [Reqs -> Nat] /\ allocated' \in [Reqs -> Nat]
        /\ late' \in [Reqs -> Nat] /\ table' \in [Reqs -> Seq(Nat)] /\ mode' \in Modes
    BY <1>2, <1>5 DEF TargetInv, LenInv
  <2>2. ASSUME NEW q \in Reqs PROVE LenOK(q)'
    <3>0. /\ len \in [Reqs -> Nat] /\ committed \in [Reqs -> Nat] /\ allocated \in [Reqs -> Nat]
          /\ late \in [Reqs -> Nat] /\ LenOK(q)
      BY DEF TargetInv, LenInv
    <3>1. CASE q = r
      <4>1. len'[q] = 0 /\ committed'[q] = 0 /\ allocated'[q] = 0 /\ late'[q] = 0
        BY <1>1, <1>2, <3>0, <3>1
      <4>2. Len(table'[q]) = 0
        BY <1>2, <1>5, <3>1
      <4> QED BY <1>1, <1>3, <4>1, <4>2 DEF LenOK
    <3>2. CASE q # r
      <4>1. /\ len'[q] = len[q] /\ committed'[q] = committed[q] /\ allocated'[q] = allocated[q]
            /\ late'[q] = late[q]
        BY <1>1, <1>2, <3>0, <3>2
      <4>2. table'[q] = table[q] /\ (q \in BatchReqs' <=> q \in BatchReqs)
        BY <1>2, <1>4, <1>5, <3>2
      <4> QED BY <1>3, <3>0, <4>1, <4>2 DEF LenOK
    <3> QED BY <3>1, <3>2
  <2> QED BY <1>4, <2>1, <2>2 DEF LenInv
<1>9. PageInv'
  BY <1>2, <1>3, <1>6 DEF PageInv
<1>10. KvOK(kv)'
  <2>1. KvOK(kv')
    BY <1>7 DEF RowsKept, TargetInv
  <2>2. Junk' = Junk
    BY DEF Junk
  <2> QED BY <1>3, <2>1, <2>2 DEF KvOK
<1>11. ASSUME ContextIntact, NEW q \in BatchReqs', NEW p \in 1..len'[q]
       PROVE  kv'[table'[q][p]] = <<q, p>>
  <2>1. q \in BatchReqs /\ q # r /\ q \in Reqs
    BY <1>1, <1>4
  <2>2. len'[q] = len[q] /\ table'[q] = table[q] /\ T2[q] = table[q]
    BY <1>1, <1>2, <1>5, <2>1 DEF TargetInv, LenInv
  <2>3. p \in 1..Len(table[q])
    <3>1. Len(table[q]) = allocated[q] /\ len[q] <= allocated[q] /\ len[q] \in Nat /\ allocated[q] \in Nat
      BY <2>1 DEF TargetInv, LenInv, LenOK
    <3> QED BY <2>2, <3>1
  <2>4. kv'[table[q][p]] = kv[table[q][p]]
    BY <1>7, <2>1, <2>2, <2>3 DEF RowsKept
  <2>5. kv[table[q][p]] = <<q, p>>
    BY <1>11, <2>1, <2>2 DEF ContextIntact
  <2> QED BY <2>2, <2>4, <2>5
<1>12. ContextIntact => ContextIntact'
  BY <1>11 DEF ContextIntact
<1> QED BY <1>8, <1>9, <1>10, <1>12 DEF TargetInv

\* The two parts release_kv_cache frees.
LEMMA ReleasedParts ==
  ASSUME TargetInv, NEW r \in Reqs
  PROVE  LET front == SubSeq(table[r], 1, committed[r])
             rest == Overallocated(r)
         IN  /\ front \in Seq(Nat) /\ Unique(front) /\ rest \in Seq(Nat) /\ Unique(rest)
             /\ PagesIn(PageSize, table[r]) = PagesIn(PageSize, front) \cup PagesIn(PageSize, rest)
             /\ PagesIn(PageSize, front) \cap PagesIn(PageSize, rest) = {}
             /\ PagesIn(PageSize, table[r]) \subseteq Positive
             /\ PagesIn(PageSize, table[r]) \cap Elements(free) = {}
<1> DEFINE row == table[r]
           n == committed[r]
           P == PageSize
<1>1. P \in Positive /\ PageState(P, NumPages, table, free) /\ RowPaged(P, row) /\ NumPages \in Nat
  BY ModeFacts DEF TargetInv, LenInv, PageInv, PageState
<1>2. allocated[r] = Len(row) /\ n \in 0..Len(row)
  <2>1. /\ n \in Nat /\ late[r] \in Nat /\ len[r] \in Nat /\ allocated[r] \in Nat
        /\ len[r] = n + late[r] /\ len[r] <= allocated[r] /\ Len(row) = allocated[r]
    BY DEF TargetInv, LenInv, LenOK
  <2> QED BY <2>1
<1>3. Overallocated(r) = SubSeq(row, CeilAlign(n) + 1, Len(row))
  BY <1>2 DEF Overallocated
<1>4. /\ SubSeq(row, 1, n) \in Seq(Nat) /\ RowPaged(P, SubSeq(row, 1, n))
  BY <1>1, <1>2, CutRow
<1>5. Unique(SubSeq(row, 1, n))
  BY <1>1, <1>4, RowUnique
<1>6. LET rest == SubSeq(row, CeilAlign(n) + 1, Len(row))
      IN  /\ rest \in Seq(Nat) /\ Unique(rest)
          /\ PagesIn(P, row) = PagesIn(P, SubSeq(row, 1, n)) \cup PagesIn(P, rest)
          /\ PagesIn(P, SubSeq(row, 1, n)) \cap PagesIn(P, rest) = {}
  BY <1>1, <1>2, CutPages
<1>7. PagesIn(P, row) \subseteq 1..NumPages /\ PagesIn(P, row) \cap Elements(free) = {}
  BY <1>1 DEF PageState
<1>8. PagesIn(P, row) \subseteq Positive
  BY <1>7 DEF Positive
<1> QED BY <1>3, <1>4, <1>5, <1>6, <1>7, <1>8

LEMMA FinishStep ==
  ASSUME TargetInv, NEW r \in Reqs, Finish(r)
  PROVE  TargetInv' /\ (ContextIntact => ContextIntact')
<1> DEFINE P == PageSize
           front == SubSeq(table[r], 1, committed[r])
           rest == Overallocated(r)
           left == Freed(free, front \o rest)
<1>1. P \in Positive /\ free \in Seq(Positive) /\ Unique(free)
  BY ModeFacts DEF TargetInv, LenInv, PageInv, PageState
<1>2. /\ front \in Seq(Nat) /\ Unique(front) /\ rest \in Seq(Nat) /\ Unique(rest)
      /\ PagesIn(P, table[r]) = PagesIn(P, front) \cup PagesIn(P, rest)
      /\ PagesIn(P, front) \cap PagesIn(P, rest) = {}
      /\ PagesIn(P, table[r]) \subseteq Positive
      /\ PagesIn(P, table[r]) \cap Elements(free) = {}
  BY ReleasedParts
<1>3. r \in BatchReqs /\ Released(r, left)
  BY DEF Finish
<1> HIDE DEF front, rest
<1>4. /\ front \o rest \in Seq(Nat) /\ Unique(front \o rest)
      /\ PagesIn(P, front \o rest) = PagesIn(P, table[r])
  BY <1>1, <1>2, JoinedPages
<1>5. /\ left \in Seq(Positive) /\ Unique(left)
      /\ Elements(left) = Elements(free) \cup PagesIn(P, table[r])
  <2> DEFINE slots == front \o rest
  <2>1. /\ slots \in Seq(Nat) /\ Unique(slots) /\ PagesIn(P, slots) = PagesIn(P, table[r])
        /\ PagesIn(P, slots) \subseteq Positive /\ PagesIn(P, slots) \cap Elements(free) = {}
    BY <1>2, <1>4
  <2> HIDE DEF slots
  <2>2. /\ Freed(free, slots) \in Seq(Positive) /\ Unique(Freed(free, slots))
        /\ Elements(Freed(free, slots)) = Elements(free) \cup PagesIn(P, slots)
    BY <1>1, <2>1, FreedFacts
  <2> QED BY <2>1, <2>2 DEF slots
<1> QED BY <1>3, <1>5, ReleaseStep

LEMMA RetractStep ==
  ASSUME TargetInv, Retract
  PROVE  TargetInv' /\ (ContextIntact => ContextIntact')
<1> DEFINE P == PageSize
           r == batch[Len(batch)]
           front == SubSeq(table[r], 1, committed[r])
           rest == Overallocated(r)
           left == Freed(Freed(free, front), rest)
<1>1. P \in Positive /\ free \in Seq(Positive) /\ Unique(free)
  BY ModeFacts DEF TargetInv, LenInv, PageInv, PageState
<1>2. r \in BatchReqs /\ r \in Reqs /\ Released(r, left)
  <2>1. Len(batch) \in Nat /\ Len(batch) > 1
    BY BatchFacts DEF TargetInv, LenInv, Retract
  <2>2. r \in BatchReqs /\ r \in Reqs
    BY <2>1, BatchFacts DEF TargetInv, LenInv
  <2> QED BY <2>2 DEF Retract
<1> HIDE DEF r
<1>3. /\ front \in Seq(Nat) /\ Unique(front) /\ rest \in Seq(Nat) /\ Unique(rest)
      /\ PagesIn(P, table[r]) = PagesIn(P, front) \cup PagesIn(P, rest)
      /\ PagesIn(P, front) \cap PagesIn(P, rest) = {}
      /\ PagesIn(P, table[r]) \subseteq Positive
      /\ PagesIn(P, table[r]) \cap Elements(free) = {}
  BY <1>2, ReleasedParts
<1> HIDE DEF front, rest
<1>4. /\ Freed(free, front) \in Seq(Positive) /\ Unique(Freed(free, front))
      /\ Elements(Freed(free, front)) = Elements(free) \cup PagesIn(P, front)
  <2>1. PagesIn(P, front) \subseteq Positive /\ PagesIn(P, front) \cap Elements(free) = {}
    BY <1>3
  <2> QED BY <1>1, <1>3, <2>1, FreedFacts
<1>5. /\ left \in Seq(Positive) /\ Unique(left)
      /\ Elements(left) = Elements(Freed(free, front)) \cup PagesIn(P, rest)
  <2>1. PagesIn(P, rest) \subseteq Positive /\ PagesIn(P, rest) \cap Elements(Freed(free, front)) = {}
    BY <1>3, <1>4
  <2> QED BY <1>1, <1>3, <1>4, <2>1, FreedFacts
<1>6. Elements(left) = Elements(free) \cup PagesIn(P, table[r])
  BY <1>3, <1>4, <1>5
<1> QED BY <1>2, <1>5, <1>6, ReleaseStep

\* A prefill: the first pages of the free list become the row of the request.
LEMMA PrefillPages ==
  ASSUME TargetInv, NEW r \in Reqs, r \notin BatchReqs,
         NumNewPages(0, Prompt(r)) <= Len(free)
  PROVE  LET row == ExtendedSlots(<<>>, 0, Prompt(r), 0)
             T2 == [table EXCEPT ![r] = row]
         IN  /\ row \in Seq(Nat) /\ Len(row) = Prompt(r)
             /\ PageState(PageSize, NumPages, T2, SubSeq(free, NumNewPages(0, Prompt(r)) + 1, Len(free)))
<1> DEFINE P == PageSize
           n == Prompt(r)
           row == ExtendedSlots(<<>>, 0, n, 0)
           k == NumNewPages(0, n)
           F2 == SubSeq(free, k + 1, Len(free))
           T2 == [table EXCEPT ![r] = row]
           front == {free[i] : i \in 1..k}
           drawn == [q \in Reqs |-> IF q = r THEN front ELSE {}]
<1>1. /\ P \in Positive /\ PageState(P, NumPages, table, free) /\ n \in Nat
      /\ table \in [Reqs -> Seq(Nat)] /\ free \in Seq(Positive) /\ Unique(free) /\ Len(free) \in Nat
  BY ModeFacts, TargetKVAssumption, LenProperties DEF TargetInv, LenInv, PageInv, PageState
<1>2. k \in Nat
  BY <1>1, NewPages
<1>3. table[r] = <<>>
  <2>1. table[r] \in Seq(Nat) /\ Len(table[r]) = 0
    BY DEF TargetInv, LenInv, LenOK
  <2> QED BY <2>1, EmptySeq
<1>4. RowPaged(P, <<>>) /\ PagesIn(P, <<>>) = {}
  BY <1>1, EmptyRow
<1>5. ExtendedTo(P, <<>>, 0, n, 0, <<>> \o row)
  <2>1. 0 = Len(<<>>) /\ 0 + k <= Len(free) /\ 0 <= n
    BY <1>1, <1>2
  <2> QED BY <1>1, <1>4, <2>1, ExtendRow
<1>6. <<>> \o row = row
  <2> DEFINE S == {row[i] : i \in 1..n}
  <2>1. row = [i \in 1..(n - 0) |-> row[i]]
    BY DEF ExtendedSlots
  <2>2. n - 0 = n
    BY <1>1
  <2> HIDE DEF row
  <2>3. row \in [1..n -> S]
    BY <2>1, <2>2
  <2>4. row \in Seq(S)
    BY <1>1, <2>3, ListOf
  <2> QED BY <2>4, ConcatEmptySeq
<1>7. RowPaged(P, row) /\ Len(row) = n /\ PagesIn(P, row) = front
  <2>1. {free[0 + i] : i \in 1..k} = front
    <3>1. \A i \in 1..k : 0 + i = i
      BY <1>2
    <3> QED BY <3>1
  <2> HIDE DEF row, k, front
  <2>2. /\ RowPaged(P, row) /\ Len(row) = n
        /\ PagesIn(P, row) = PagesIn(P, <<>>) \cup {free[0 + i] : i \in 1..k}
    BY <1>5, <1>6 DEF ExtendedTo, k
  <2> QED BY <1>4, <2>1, <2>2
<1>8. Dropped(free, k, F2)
  BY <1>1, <1>2, DropSome
<1> HIDE DEF row, k
<1>9. T2[r] = row /\ \A q \in Reqs : q # r => T2[q] = table[q]
  BY <1>1
<1> HIDE DEF T2, F2
<1>10. Taken(P, table, free, T2, F2, drawn)
  <2>1. /\ F2 \in Seq(Positive) /\ Unique(F2) /\ front \subseteq Elements(free)
        /\ Elements(F2) \cup front = Elements(free) /\ Elements(F2) \cap front = {}
    BY <1>8 DEF Dropped
  <2> HIDE DEF front
  <2>2. drawn[r] = front /\ \A q \in Reqs : q # r => drawn[q] = {}
    OBVIOUS
  <2> HIDE DEF drawn
  <2>3. ASSUME NEW q \in Reqs
        PROVE  /\ RowPaged(P, T2[q]) /\ drawn[q] \subseteq Elements(free)
               /\ PagesIn(P, T2[q]) = PagesIn(P, table[q]) \cup drawn[q]
    <3>1. CASE q = r
      BY <1>3, <1>4, <1>7, <1>9, <2>1, <2>2, <3>1
    <3>2. CASE q # r
      BY <1>1, <1>9, <2>2, <3>2 DEF PageState
    <3> QED BY <3>1, <3>2
  <2>4. \A q, s \in Reqs : q # s => drawn[q] \cap drawn[s] = {}
    BY <2>2
  <2>5. ASSUME NEW g
        PROVE  g \in Elements(F2) <=> (g \in Elements(free) /\ \A q \in Reqs : g \notin drawn[q])
    BY <2>1, <2>2
  <2> QED BY <2>1, <2>3, <2>4, <2>5 DEF Taken
<1>11. PageState(P, NumPages, T2, F2)
  BY <1>1, <1>10, Take
<1>12. row \in Seq(Nat)
  BY <1>7 DEF RowPaged
<1> QED BY <1>7, <1>11, <1>12 DEF row, T2, F2, k

LEMMA ExtendStep ==
  ASSUME TargetInv, NEW r \in Reqs, Extend(r)
  PROVE  TargetInv' /\ (ContextIntact => ContextIntact')
<1> DEFINE P == PageSize
           n == Prompt(r)
           row == ExtendedSlots(<<>>, 0, n, 0)
           T2 == [table EXCEPT ![r] = row]
<1>1. /\ P \in Positive /\ NumPages \in Nat /\ D \in Nat /\ AllocLen \in Nat /\ n \in Nat
      /\ batch \in Seq(Reqs) /\ Unique(batch) /\ BatchReqs \subseteq Reqs
      /\ DOMAIN batch = 1..Len(batch) /\ Len(batch) \in Nat
  BY ModeFacts, BatchFacts, TargetKVAssumption DEF TargetInv, LenInv
<1>2. /\ mode' = mode /\ r \notin BatchReqs /\ table' = T2 /\ batch' = Append(batch, r)
      /\ NumNewPages(0, n) <= Len(free) /\ free' = SubSeq(free, NumNewPages(0, n) + 1, Len(free))
      /\ kv' = [s \in Slots |-> IF \E p \in DOMAIN row : row[p] = s
                                THEN <<r, CHOOSE p \in DOMAIN row : row[p] = s>> ELSE kv[s]]
      /\ len' = [len EXCEPT ![r] = n] /\ committed' = [committed EXCEPT ![r] = n]
      /\ allocated' = [allocated EXCEPT ![r] = n] /\ late' = [late EXCEPT ![r] = 0]
  BY DEF Extend
<1>3. /\ PageSize' = P /\ NumPages' = NumPages /\ Slots' = Slots /\ SpecV2' = SpecV2
  BY <1>2, SameMode
<1>4. row \in Seq(Nat) /\ Len(row) = n /\ PageState(P, NumPages, T2, free')
  BY <1>2, PrefillPages
<1> HIDE DEF row
<1>5. batch' \in Seq(Reqs) /\ Unique(batch') /\ BatchReqs' = BatchReqs \cup {r}
  <2> DEFINE m == Len(batch)
  <2>1. /\ batch' \in Seq(Reqs) /\ Len(batch') = m + 1
        /\ \A i \in 1..m : batch'[i] = batch[i]
        /\ batch'[m + 1] = r
    BY <1>1, <1>2, AppendProperties
  <2>2. DOMAIN batch' = 1..(m + 1)
    BY <2>1, LenProperties
  <2>3. \A i \in 1..m : batch[i] # r
    BY <1>1, <1>2 DEF BatchReqs, Elements
  <2> HIDE DEF m
  <2>4. m \in Nat /\ \A i \in 1..(m + 1) : i \in 1..m \/ i = m + 1
    BY <1>1 DEF m
  <2>5. Unique(batch')
    <3> SUFFICES ASSUME NEW i \in 1..(m + 1), NEW j \in 1..(m + 1), batch'[i] = batch'[j] PROVE i = j
      BY <2>1 DEF Unique
    <3>1. CASE i \in 1..m /\ j \in 1..m
      BY <1>1, <2>1, <3>1 DEF Unique, m
    <3>2. CASE ~(i \in 1..m /\ j \in 1..m)
      BY <2>1, <2>3, <2>4, <3>2
    <3> QED BY <3>1, <3>2
  <2>6. Elements(batch') = Elements(batch) \cup {r}
    <3>1. DOMAIN batch = 1..m
      BY <1>1 DEF m
    <3>2. m + 1 \in 1..(m + 1) /\ \A i \in 1..m : i \in 1..(m + 1)
      BY <2>4
    <3>3. Elements(batch') \subseteq Elements(batch) \cup {r}
      BY <2>1, <2>2, <2>4, <3>1 DEF Elements
    <3>4. Elements(batch) \cup {r} \subseteq Elements(batch')
      BY <2>1, <2>2, <3>1, <3>2 DEF Elements
    <3> QED BY <3>3, <3>4
  <2> QED BY <2>1, <2>5, <2>6 DEF BatchReqs
<1>6. /\ T2 \in [Reqs -> Seq(Nat)] /\ T2[r] = row
      /\ \A q \in Reqs : q # r => T2[q] = table[q]
  BY <1>4 DEF TargetInv, LenInv
<1> HIDE DEF T2
<1>7. LenInv'
  <2>1. /\ len' \in [Reqs -> Nat] /\ committed' \in [Reqs -> Nat] /\ allocated' \in [Reqs -> Nat]
        /\ late' \in [Reqs -> Nat] /\ table' \in [Reqs -> Seq(Nat)] /\ mode' \in Modes
    BY <1>1, <1>2, <1>6 DEF TargetInv, LenInv
  <2>2. ASSUME NEW q \in Reqs PROVE LenOK(q)'
    <3>0. /\ len \in [Reqs -> Nat] /\ committed \in [Reqs -> Nat] /\ allocated \in [Reqs -> Nat]
          /\ late \in [Reqs -> Nat] /\ LenOK(q)
      BY DEF TargetInv, LenInv
    <3>1. CASE q = r
      <4>1. len'[q] = n /\ committed'[q] = n /\ allocated'[q] = n /\ late'[q] = 0
        BY <1>2, <3>0, <3>1
      <4>2. Len(table'[q]) = n /\ q \in BatchReqs'
        BY <1>2, <1>4, <1>5, <1>6, <3>1
      <4> QED BY <1>1, <1>3, <4>1, <4>2 DEF LenOK
    <3>2. CASE q # r
      <4>1. /\ len'[q] = len[q] /\ committed'[q] = committed[q] /\ allocated'[q] = allocated[q]
            /\ late'[q] = late[q]
        BY <1>2, <3>0, <3>2
      <4>2. table'[q] = table[q] /\ (q \in BatchReqs' <=> q \in BatchReqs)
        BY <1>2, <1>5, <1>6, <3>2
      <4> QED BY <1>3, <3>0, <4>1, <4>2 DEF LenOK
    <3> QED BY <3>1, <3>2
  <2> QED BY <1>5, <2>1, <2>2 DEF LenInv
<1>8. PageInv'
  BY <1>2, <1>3, <1>4 DEF PageInv
<1>9. SlotsOwned(T2)
  BY <1>1, <1>4, RowSlots
<1> DEFINE At(s) == CHOOSE p \in 1..n : row[p] = s
<1>10. ASSUME NEW s \in Slots
       PROVE  /\ (\E p \in 1..n : row[p] = s) => kv'[s] = <<r, At(s)>> /\ At(s) \in 1..n /\ row[At(s)] = s
              /\ ~(\E p \in 1..n : row[p] = s) => kv'[s] = kv[s]
  <2>1. DOMAIN row = 1..n
    BY <1>4, LenProperties
  <2>2. kv'[s] = IF \E p \in 1..n : row[p] = s THEN <<r, At(s)>> ELSE kv[s]
    BY <1>2, <2>1
  <2>3. (\E p \in 1..n : row[p] = s) => At(s) \in 1..n /\ row[At(s)] = s
    OBVIOUS
  <2> HIDE DEF At
  <2> QED BY <2>2, <2>3
<1> HIDE DEF At
<1>11. KvOK(kv)'
  <2>1. ASSUME NEW s \in Slots PROVE kv'[s] = Junk \/ kv'[s] \in Reqs \X Nat
    <3>1. CASE \E p \in 1..n : row[p] = s
      <4>1. kv'[s] = <<r, At(s)>> /\ At(s) \in Nat
        BY <1>1, <1>10, <3>1
      <4> QED BY <4>1
    <3>2. CASE ~(\E p \in 1..n : row[p] = s)
      BY <1>10, <3>2 DEF TargetInv, KvOK
    <3> QED BY <3>1, <3>2
  <2>2. Junk' = Junk
    BY DEF Junk
  <2> QED BY <1>3, <2>1, <2>2 DEF KvOK
<1>12. ASSUME ContextIntact, NEW q \in BatchReqs', NEW p \in 1..len'[q]
       PROVE  kv'[table'[q][p]] = <<q, p>>
  <2>0. table' = T2 /\ q \in Reqs
    BY <1>1, <1>2, <1>5
  <2>1. CASE q = r
    <3>1. p \in 1..n
      BY <1>2, <2>1 DEF TargetInv, LenInv
    <3>2. p \in 1..Len(T2[r]) /\ T2[r][p] = row[p]
      BY <1>4, <1>6, <3>1
    <3>3. row[p] \in Slots
      BY <1>9, <3>2 DEF SlotsOwned
    <3>4. kv'[row[p]] = <<r, At(row[p])>> /\ At(row[p]) \in 1..n /\ row[At(row[p])] = row[p]
      BY <1>10, <3>1, <3>3
    <3>5. At(row[p]) = p
      <4>1. Unique(row)
        BY <1>1, <1>4, <1>6, RowUnique DEF PageState
      <4> QED BY <1>4, <3>1, <3>4, <4>1 DEF Unique
    <3> QED BY <2>0, <2>1, <3>2, <3>4, <3>5
  <2>2. CASE q # r
    <3>1. q \in BatchReqs /\ len'[q] = len[q] /\ T2[q] = table[q]
      BY <1>2, <1>5, <1>6, <2>0, <2>2 DEF TargetInv, LenInv
    <3>2. p \in 1..Len(T2[q])
      <4>1. Len(table[q]) = allocated[q] /\ len[q] <= allocated[q] /\ len[q] \in Nat /\ allocated[q] \in Nat
        BY <2>0 DEF TargetInv, LenInv, LenOK
      <4> QED BY <3>1, <4>1
    <3>3. T2[q][p] \in Slots
      BY <1>9, <2>0, <3>2 DEF SlotsOwned
    <3>4. ASSUME NEW i \in 1..n, row[i] = T2[q][p] PROVE FALSE
      <4>1. i \in 1..Len(T2[r]) /\ T2[r][i] = T2[q][p]
        BY <1>4, <1>6, <3>4
      <4> QED BY <1>9, <2>0, <2>2, <3>2, <4>1 DEF SlotsOwned
    <3>5. kv'[T2[q][p]] = kv[T2[q][p]]
      BY <1>10, <3>3, <3>4
    <3>6. kv[table[q][p]] = <<q, p>>
      BY <1>12, <3>1 DEF ContextIntact
    <3> QED BY <2>0, <3>1, <3>5, <3>6
  <2> QED BY <2>1, <2>2
<1>13. ContextIntact => ContextIntact'
  BY <1>12 DEF ContextIntact
<1> QED BY <1>7, <1>8, <1>11, <1>13 DEF TargetInv

LEMMA AdvanceFacts ==
  ASSUME batch \in Seq(Reqs), NEW f \in [Reqs -> Nat], NEW paths \in [BatchReqs -> Paths]
  PROVE  /\ Advance(f, paths) \in [Reqs -> Nat]
         /\ \A r \in BatchReqs : Advance(f, paths)[r] = f[r] + Len(paths[r])
         /\ \A r \in Reqs \ BatchReqs : Advance(f, paths)[r] = f[r]
<1>1. BatchReqs \subseteq Reqs
  BY BatchFacts
<1>2. \A r \in BatchReqs : Len(paths[r]) \in Nat
  <2>1. ASSUME NEW r \in BatchReqs PROVE Len(paths[r]) \in 1..(MaxDepth + 1) /\ MaxDepth \in Nat
    BY PathFacts, TargetKVAssumption DEF PathOK
  <2> QED BY <2>1
<1> QED BY <1>1, <1>2 DEF Advance

\* One iteration of the overlap loop.
LEMMA V2Step ==
  ASSUME TargetInv, NEW paths \in [BatchReqs -> Paths], DecodeV2(paths), mode' = mode
  PROVE  TargetInv' /\ (Chain /\ ContextIntact => ContextIntact')
<1> DEFINE P == PageSize
           post == [r \in Reqs |-> PreparedTo(r)]
           T == ExtendedTable(allocated, post)
           rows == [r \in BatchReqs |-> Window(T[r], r)]
<1>1. /\ P \in Positive /\ NumPages \in Nat /\ D \in Nat /\ D >= 1
      /\ AllocLen \in Nat /\ AllocLen >= D
      /\ batch \in Seq(Reqs) /\ Unique(batch) /\ BatchReqs \subseteq Reqs
  BY ModeFacts, BatchFacts DEF TargetInv, LenInv
<1>2. /\ SpecV2 /\ AllocFits(allocated, post) /\ free' = FreeAfterExtend(allocated, post)
      /\ table' = T /\ kv' = Written(rows, paths) /\ batch' = batch
      /\ allocated' = [r \in Reqs |-> IF r \in BatchReqs THEN post[r] ELSE allocated[r]]
      /\ len' = Advance(len, paths)
      /\ committed' = [r \in Reqs |-> IF r \in BatchReqs THEN committed[r] + late[r] ELSE committed[r]]
      /\ late' = [r \in Reqs |-> IF r \in BatchReqs THEN Len(paths[r]) ELSE late[r]]
  BY DEF DecodeV2
<1>3. /\ PageSize' = P /\ NumPages' = NumPages /\ Slots' = Slots /\ SpecV2' = SpecV2
      /\ BatchReqs' = BatchReqs
  BY <1>2, SameMode DEF BatchReqs
<1>4. /\ len \in [Reqs -> Nat] /\ committed \in [Reqs -> Nat] /\ allocated \in [Reqs -> Nat]
      /\ late \in [Reqs -> Nat] /\ table \in [Reqs -> Seq(Nat)]
  BY DEF TargetInv, LenInv
<1>5. ASSUME NEW r \in Reqs
      PROVE  /\ len[r] \in Nat /\ committed[r] \in Nat /\ allocated[r] \in Nat /\ late[r] \in Nat
             /\ Len(table[r]) = allocated[r] /\ len[r] = committed[r] + late[r] /\ late[r] <= D
             /\ len[r] <= allocated[r] /\ allocated[r] <= committed[r] + 2 * AllocLen
             /\ (r \notin BatchReqs => allocated[r] = 0)
             /\ post[r] = committed[r] + 2 * AllocLen /\ post[r] \in Nat
  <2>1. LenOK(r)
    BY DEF TargetInv, LenInv
  <2>2. post[r] = committed[r] + 2 * AllocLen
    BY DEF PreparedTo
  <2>3. committed[r] + 2 * AllocLen \in Nat
    BY <1>1, <1>4
  <2> QED BY <1>2, <1>4, <2>1, <2>2, <2>3 DEF LenOK
<1>6. post \in [Reqs -> Nat]
  <2>1. post = [r \in Reqs |-> post[r]]
    OBVIOUS
  <2> QED BY <1>5, <2>1
<1> HIDE DEF post
<1>7. Served(P, allocated, post)
  <2>1. \A r \in BatchReqs : allocated[r] = Len(table[r]) /\ allocated[r] <= post[r]
    BY <1>1, <1>5
  <2>2. PageState(P, NumPages, table, free)
    BY DEF TargetInv, PageInv
  <2> QED BY <1>1, <1>2, <1>4, <1>6, <2>1, <2>2, AllocFacts
<1>8. T \in [Reqs -> Seq(Nat)]
  <2>1. T = [r \in Reqs |-> T[r]]
    BY DEF ExtendedTable
  <2> HIDE DEF T
  <2>2. \A r \in Reqs : T[r] \in Seq(Nat)
    BY <1>7 DEF Served, PageState, RowPaged, T
  <2> QED BY <2>1, <2>2
<1> HIDE DEF T
<1>9. /\ PageState(P, NumPages, T, free')
      /\ \A r \in Reqs \ BatchReqs : T[r] = table[r]
      /\ \A r \in BatchReqs : Len(T[r]) = post[r] /\ \A p \in 1..allocated[r] : T[r][p] = table[r][p]
  BY <1>2, <1>7 DEF Served, T
<1>10. \A r \in BatchReqs : len[r] + D <= post[r]
  <2> SUFFICES ASSUME NEW r \in BatchReqs PROVE len[r] + D <= post[r]
    OBVIOUS
  <2>1. len[r] = committed[r] + late[r] /\ late[r] <= D /\ post[r] = committed[r] + 2 * AllocLen
    BY <1>1, <1>5
  <2>2. late[r] \in Nat /\ committed[r] \in Nat
    BY <1>1, <1>5
  <2> QED BY <1>1, <2>1, <2>2
<1>11. \A r \in BatchReqs : \A i \in 1..D : rows[r][i] = T[r][len[r] + i]
  <2> SUFFICES ASSUME NEW r \in BatchReqs, NEW i \in 1..D PROVE rows[r][i] = T[r][len[r] + i]
    OBVIOUS
  <2>1. rows[r][i] = IF len[r] + i <= Len(T[r]) THEN T[r][len[r] + i] ELSE 0
    BY DEF Window
  <2>2. len[r] + i <= Len(T[r])
    <3>1. len[r] \in Nat /\ post[r] \in Nat /\ len[r] + D <= post[r] /\ Len(T[r]) = post[r]
      BY <1>1, <1>5, <1>9, <1>10
    <3> QED BY <1>1, <3>1
  <2> QED BY <2>1, <2>2
<1> HIDE DEF rows
<1>12. SlotsOwned(T)
  BY <1>1, <1>9, RowSlots
<1>13. Passed(T, paths, kv')
  <2>1. \A r \in BatchReqs : Len(T[r]) \in Nat /\ len[r] + D <= Len(T[r])
    BY <1>1, <1>5, <1>9, <1>10
  <2>2. KvOK(kv)
    BY DEF TargetInv
  <2> QED BY <1>1, <1>2, <1>4, <1>11, <1>12, <2>1, <2>2, PassFacts
<1>14. ASSUME NEW r \in BatchReqs
       PROVE  PathOK(paths[r]) /\ Len(paths[r]) \in Nat /\ Len(paths[r]) >= 1 /\ Len(paths[r]) <= D
  <2>1. PathOK(paths[r])
    BY PathFacts
  <2>2. Len(paths[r]) \in 1..(MaxDepth + 1) /\ MaxDepth \in Nat /\ MaxDepth + 1 <= D
    BY <2>1, TargetKVAssumption DEF PathOK
  <2> QED BY <1>1, <2>1, <2>2
<1>15. /\ len' \in [Reqs -> Nat]
       /\ \A r \in BatchReqs : len'[r] = len[r] + Len(paths[r])
       /\ \A r \in Reqs \ BatchReqs : len'[r] = len[r]
  BY <1>1, <1>2, <1>4, AdvanceFacts
<1>16. LenInv'
  <2>1. /\ committed' \in [Reqs -> Nat] /\ allocated' \in [Reqs -> Nat]
        /\ late' \in [Reqs -> Nat] /\ table' \in [Reqs -> Seq(Nat)] /\ mode' \in Modes
    <3>1. \A r \in Reqs : committed[r] + late[r] \in Nat
      BY <1>5
    <3>2. table' \in [Reqs -> Seq(Nat)] /\ mode' \in Modes
      BY <1>2, <1>8 DEF TargetInv, LenInv
    <3>3. committed' \in [Reqs -> Nat]
      BY <1>2, <1>4, <3>1
    <3>4. allocated' \in [Reqs -> Nat]
      BY <1>2, <1>4, <1>6
    <3>5. late' \in [Reqs -> Nat]
      BY <1>2, <1>4, <1>14
    <3> QED BY <3>2, <3>3, <3>4, <3>5
  <2>2. ASSUME NEW r \in Reqs PROVE LenOK(r)'
    <3>1. CASE r \in BatchReqs
      <4>1. /\ len'[r] = len[r] + Len(paths[r]) /\ committed'[r] = committed[r] + late[r]
            /\ allocated'[r] = post[r] /\ late'[r] = Len(paths[r]) /\ Len(table'[r]) = post[r]
        BY <1>2, <1>9, <1>15, <3>1
      <4>2. len'[r] = committed'[r] + late'[r] /\ late'[r] <= D
        BY <1>5, <1>14, <3>1, <4>1
      <4>3. len'[r] <= allocated'[r]
        <5>1. len[r] + D <= post[r] /\ Len(paths[r]) <= D /\ Len(paths[r]) \in Nat
          BY <1>10, <1>14, <3>1
        <5> QED BY <1>1, <1>5, <4>1, <5>1
      <4>4. allocated'[r] <= committed'[r] + 2 * AllocLen
        BY <1>1, <1>5, <4>1
      <4> QED BY <1>2, <1>3, <3>1, <4>1, <4>2, <4>3, <4>4 DEF LenOK
    <3>2. CASE r \notin BatchReqs
      <4>1. /\ len'[r] = len[r] /\ committed'[r] = committed[r]
            /\ allocated'[r] = allocated[r] /\ late'[r] = late[r] /\ table'[r] = table[r]
        BY <1>2, <1>9, <1>15, <3>2
      <4>2. LenOK(r)
        BY DEF TargetInv, LenInv
      <4> QED BY <1>3, <4>1, <4>2 DEF LenOK
    <3> QED BY <3>1, <3>2
  <2> QED BY <1>1, <1>2, <1>15, <2>1, <2>2 DEF LenInv
<1>17. PageInv'
  BY <1>2, <1>3, <1>9 DEF PageInv
<1>18. KvOK(kv)'
  <2>1. KvOK(kv')
    BY <1>13 DEF Passed
  <2>2. Junk' = Junk
    BY DEF Junk
  <2> QED BY <1>3, <2>1, <2>2 DEF KvOK
<1>19. ASSUME Chain, ContextIntact, NEW r \in BatchReqs, NEW p \in 1..len'[r]
       PROVE  kv'[T[r][p]] = <<r, p>>
  <2>1. /\ r \in Reqs /\ len[r] \in Nat /\ len[r] <= allocated[r] /\ allocated[r] \in Nat
        /\ len'[r] = len[r] + Len(paths[r]) /\ Len(paths[r]) \in Nat /\ Len(paths[r]) <= D
        /\ Len(T[r]) = post[r] /\ allocated[r] <= post[r] /\ post[r] \in Nat
    BY <1>1, <1>5, <1>9, <1>14, <1>15
  <2>2. CASE p <= len[r]
    <3>1. p \in 1..allocated[r] /\ p \in 1..Len(T[r]) /\ p \in 1..len[r]
      BY <2>1, <2>2
    <3>2. T[r][p] = table[r][p]
      BY <1>9, <3>1
    <3>3. kv'[T[r][p]] = kv[T[r][p]]
      BY <1>13, <2>1, <2>2, <3>1 DEF Passed
    <3>4. kv[table[r][p]] = <<r, p>>
      BY <1>19, <3>1 DEF ContextIntact
    <3> QED BY <3>2, <3>3, <3>4
  <2>3. CASE ~(p <= len[r])
    <3>1. p - len[r] \in 1..Len(paths[r]) /\ len[r] + (p - len[r]) = p
      BY <2>1, <2>3
    <3>2. paths[r][p - len[r]] = (p - len[r]) - 1
      BY <1>14, <1>19, <3>1 DEF PathOK
    <3>3. paths[r][p - len[r]] + 1 = p - len[r]
      BY <2>1, <3>2
    <3>4. kv'[T[r][len[r] + (paths[r][p - len[r]] + 1)]] = <<r, len[r] + (p - len[r])>>
      BY <1>13, <3>1 DEF Passed
    <3> QED BY <3>1, <3>3, <3>4
  <2> QED BY <2>2, <2>3
<1>20. Chain /\ ContextIntact => ContextIntact'
  <2> SUFFICES ASSUME Chain, ContextIntact, NEW r \in BatchReqs', NEW p \in 1..len'[r]
               PROVE  kv'[table'[r][p]] = <<r, p>>
    BY DEF ContextIntact
  <2>1. r \in BatchReqs /\ table' = T
    BY <1>2, <1>3
  <2> QED BY <1>19, <2>1
<1> QED BY <1>16, <1>17, <1>18, <1>20 DEF TargetInv

\* One pass of the synchronous worker.
LEMMA V1Step ==
  ASSUME TargetInv, NEW paths \in [BatchReqs -> Paths], DecodeV1(paths), mode' = mode
  PROVE  TargetInv' /\ (ContextIntact => ContextIntact')
<1> DEFINE P == PageSize
           wide == [r \in Reqs |-> len[r] + D]
           T == ExtendedTable(len, wide)
           F == FreeAfterExtend(len, wide)
           rows == [r \in BatchReqs |-> SubSeq(T[r], len[r] + 1, len[r] + D)]
           written == Written(rows, paths)
           kept == [r \in BatchReqs |-> IF PageSize = 1 THEN AcceptedLocs(rows[r], paths[r])
                                        ELSE TargetLocs(rows[r], paths[r])]
           gone == [r \in BatchReqs |-> IF PageSize = 1 THEN Rejected(rows[r], paths[r])
                                        ELSE ToFree(rows[r], len[r], Len(paths[r]))]
           src == [r \in BatchReqs |-> AcceptedLocs(rows[r], paths[r])]
           moved == IF PageSize = 1 THEN written ELSE Moved(written, Flat(kept), Flat(src))
           T2 == [r \in Reqs |-> IF r \in BatchReqs
                                 THEN SubSeq(table[r], 1, len[r]) \o kept[r] ELSE table[r]]
<1>1. /\ P \in Positive /\ NumPages \in Nat /\ D \in Nat /\ D >= 1
      /\ batch \in Seq(Reqs) /\ Unique(batch) /\ BatchReqs \subseteq Reqs
  BY ModeFacts, BatchFacts DEF TargetInv, LenInv
<1>2. /\ ~SpecV2 /\ batch # <<>> /\ AllocFits(len, wide) /\ free' = Freed(F, Flat(gone))
      /\ kv' = Scrubbed(moved, free') /\ table' = T2 /\ batch' = batch /\ late' = late
      /\ len' = Advance(len, paths) /\ committed' = Advance(committed, paths)
      /\ allocated' = Advance(committed, paths)
  BY DEF DecodeV1
<1>3. /\ PageSize' = P /\ NumPages' = NumPages /\ Slots' = Slots /\ SpecV2' = SpecV2
      /\ BatchReqs' = BatchReqs
  BY <1>2, SameMode DEF BatchReqs
<1>4. /\ len \in [Reqs -> Nat] /\ committed \in [Reqs -> Nat] /\ allocated \in [Reqs -> Nat]
      /\ late \in [Reqs -> Nat] /\ table \in [Reqs -> Seq(Nat)]
  BY DEF TargetInv, LenInv
<1>5. ASSUME NEW r \in Reqs
      PROVE  /\ len[r] \in Nat /\ committed[r] = len[r] /\ allocated[r] = len[r] /\ late[r] = 0
             /\ Len(table[r]) = len[r] /\ (r \notin BatchReqs => len[r] = 0)
             /\ wide[r] = len[r] + D /\ wide[r] \in Nat /\ table[r] \in Seq(Nat)
  <2>1. LenOK(r) /\ committed[r] \in Nat /\ len[r] \in Nat
    BY <1>4 DEF TargetInv, LenInv
  <2>2. wide[r] = len[r] + D /\ table[r] \in Seq(Nat)
    BY <1>4
  <2>3. len[r] + D \in Nat
    BY <1>1, <2>1
  <2>4. /\ committed[r] = len[r] /\ allocated[r] = len[r] /\ late[r] = 0
        /\ Len(table[r]) = len[r] /\ (r \notin BatchReqs => len[r] = 0)
    <3>1. /\ late[r] = 0 /\ allocated[r] = committed[r] /\ len[r] = committed[r] + late[r]
          /\ Len(table[r]) = allocated[r] /\ (r \notin BatchReqs => allocated[r] = 0)
      BY <1>2, <2>1 DEF LenOK
    <3>2. len[r] = committed[r]
      BY <2>1, <3>1
    <3> QED BY <3>1, <3>2
  <2> QED BY <2>1, <2>2, <2>3, <2>4
<1>6. wide \in [Reqs -> Nat]
  BY <1>1, <1>4
<1> HIDE DEF wide
<1>7. Served(P, len, wide)
  <2>1. \A r \in BatchReqs : len[r] = Len(table[r]) /\ len[r] <= wide[r]
    <3> SUFFICES ASSUME NEW r \in BatchReqs PROVE len[r] = Len(table[r]) /\ len[r] <= wide[r]
      OBVIOUS
    <3>1. len[r] \in Nat /\ Len(table[r]) = len[r] /\ wide[r] = len[r] + D
      BY <1>1, <1>5
    <3> QED BY <1>1, <3>1
  <2>2. PageState(P, NumPages, table, free)
    BY DEF TargetInv, PageInv
  <2> QED BY <1>1, <1>2, <1>4, <1>6, <2>1, <2>2, AllocFacts
<1> HIDE DEF T, F
<1>8. /\ PageState(P, NumPages, T, F)
      /\ \A r \in Reqs \ BatchReqs : T[r] = table[r]
      /\ \A r \in BatchReqs : Len(T[r]) = wide[r] /\ \A p \in 1..len[r] : T[r][p] = table[r][p]
  BY <1>7 DEF Served, T, F
<1>9. ASSUME NEW r \in BatchReqs
      PROVE  /\ r \in Reqs /\ RowPaged(P, T[r]) /\ T[r] \in Seq(Nat) /\ Len(T[r]) = len[r] + D
             /\ len[r] \in Nat /\ table[r] \in Seq(Nat) /\ Len(table[r]) = len[r]
             /\ \A p \in 1..len[r] : table[r][p] = T[r][p]
             /\ rows[r] = SubSeq(T[r], len[r] + 1, len[r] + D)
             /\ PathOK(paths[r])
  <2>1. r \in Reqs /\ RowPaged(P, T[r]) /\ T[r] \in Seq(Nat)
    BY <1>1, <1>8 DEF PageState, RowPaged
  <2>2. PathOK(paths[r])
    BY PathFacts
  <2> QED BY <1>5, <1>8, <2>1, <2>2
<1>10. ASSUME NEW r \in BatchReqs
       PROVE  Len(paths[r]) \in Nat /\ Len(paths[r]) >= 1 /\ Len(paths[r]) <= D
  <2>1. Len(paths[r]) \in 1..(MaxDepth + 1) /\ MaxDepth \in Nat /\ MaxDepth + 1 <= D
    BY <1>9, TargetKVAssumption DEF PathOK
  <2> QED BY <1>1, <2>1
<1>11. ASSUME NEW r \in BatchReqs
       PROVE  /\ T2[r] = SubSeq(table[r], 1, len[r]) \o kept[r]
              /\ P = 1 => kept[r] = AcceptedLocs(rows[r], paths[r]) /\ gone[r] = Rejected(rows[r], paths[r])
              /\ P # 1 => /\ kept[r] = TargetLocs(rows[r], paths[r])
                          /\ gone[r] = ToFree(rows[r], len[r], Len(paths[r]))
              /\ src[r] = AcceptedLocs(rows[r], paths[r])
  BY <1>1
<1>12. \A r \in Reqs \ BatchReqs : T2[r] = T[r] /\ T2[r] = table[r]
  BY <1>8
<1> HIDE DEF rows, kept, gone, src, T2
<1>13. ASSUME NEW r \in BatchReqs
       PROVE  /\ RowSplit(P, T[r], T2[r], gone[r])
              /\ RowAfter(T[r], len[r], Len(paths[r]), T2[r])
              /\ P = 1 => TookPath(T[r], len[r], paths[r], T2[r])
              /\ P # 1 => /\ TookFront(T[r], len[r], paths[r], T2[r])
                          /\ FrontLocs(T[r], len[r], paths[r], kept[r])
              /\ PathLocs(T[r], len[r], paths[r], src[r])
  <2> DEFINE row == T[r]
             seq == len[r]
             old == table[r]
             path == paths[r]
             win == SubSeq(row, seq + 1, seq + D)
  <2>1. /\ RowPaged(P, row) /\ row \in Seq(Nat) /\ seq \in Nat /\ Len(row) = seq + D
        /\ old \in Seq(Nat) /\ Len(old) = seq /\ (\A p \in 1..seq : old[p] = row[p])
        /\ PathOK(path) /\ rows[r] = win
    BY <1>9
  <2>2. PathLocs(row, seq, path, src[r])
    BY <1>11, <2>1, AcceptedAt
  <2>3. CASE P = 1
    <3> DEFINE new == SubSeq(old, 1, seq) \o AcceptedLocs(win, path)
    <3>1. RowPaged(1, row)
      BY <2>1, <2>3
    <3>2. RowSplit(1, row, new, Rejected(win, path)) /\ RowAfter(row, seq, Len(path), new)
          /\ TookPath(row, seq, path, new)
      <4> HIDE DEF row, seq, old, path
      <4> QED BY <2>1, <3>1, UnitRow
    <3>3. T2[r] = new /\ gone[r] = Rejected(win, path)
      BY <1>11, <2>1, <2>3
    <3> HIDE DEF new, win
    <3> QED BY <2>2, <2>3, <3>2, <3>3
  <2>4. CASE P # 1
    <3> DEFINE new == SubSeq(old, 1, seq) \o TargetLocs(win, path)
    <3>1. /\ RowSplit(P, row, new, ToFree(win, seq, Len(path))) /\ RowAfter(row, seq, Len(path), new)
          /\ TookFront(row, seq, path, new) /\ FrontLocs(row, seq, path, TargetLocs(win, path))
      <4> HIDE DEF row, seq, old, path
      <4> QED BY <1>1, <2>1, PagedRow
    <3>2. /\ T2[r] = new /\ gone[r] = ToFree(win, seq, Len(path)) /\ kept[r] = TargetLocs(win, path)
      BY <1>11, <2>1, <2>4
    <3> HIDE DEF new, win
    <3> QED BY <2>2, <2>4, <3>1, <3>2
  <2> QED BY <2>3, <2>4
<1>14. PageState(P, NumPages, T2, free')
  <2>1. /\ \A r \in Reqs \ BatchReqs : T2[r] = T[r]
        /\ \A r \in BatchReqs : RowSplit(P, T[r], T2[r], gone[r])
    BY <1>12, <1>13
  <2>2. PageState(P, NumPages, T2, Freed(F, Flat(gone)))
    BY <1>1, <1>2, <1>8, <2>1, BatchGives
  <2> QED BY <1>2, <2>2
<1>15. SlotsOwned(T)
  BY <1>1, <1>8, RowSlots
<1>16. Passed(T, paths, written)
  <2>1. ASSUME NEW r \in BatchReqs
        PROVE  /\ Len(T[r]) \in Nat /\ len[r] + D <= Len(T[r])
               /\ \A i \in 1..D : rows[r][i] = T[r][len[r] + i]
    <3>1. len[r] + D \in Nat /\ Len(T[r]) = len[r] + D /\ (len[r] + D) - len[r] = D
      <4>1. len[r] \in Nat /\ Len(T[r]) = len[r] + D
        BY <1>9
      <4> QED BY <1>1, <4>1
    <3>2. PieceOf(Nat, T[r], len[r], len[r] + D, SubSeq(T[r], len[r] + 1, len[r] + D))
      BY <1>1, <1>9, <3>1, Piece, SMTT(30)
    <3>3. \A i \in 1..D : rows[r][i] = T[r][len[r] + i]
      BY <1>9, <3>1, <3>2 DEF PieceOf
    <3>4. Len(T[r]) \in Nat /\ len[r] + D <= Len(T[r])
      BY <3>1
    <3> HIDE DEF rows
    <3> QED BY <3>3, <3>4
  <2>2. KvOK(kv)
    BY DEF TargetInv
  <2> QED BY <1>1, <1>4, <1>15, <2>1, <2>2, PassFacts
<1> HIDE DEF written
<1>17. P # 1 => MovedTo(T, paths, written, moved)
  <2> SUFFICES ASSUME P # 1 PROVE MovedTo(T, paths, written, moved)
    OBVIOUS
  <2>1. moved = Moved(written, Flat(kept), Flat(src))
    OBVIOUS
  <2> HIDE DEF moved
  <2>2. \A r \in BatchReqs : Len(T[r]) = len[r] + D
    BY <1>9
  <2>3. \A r \in BatchReqs : PathOK(paths[r])
    BY <1>9
  <2>4. \A r \in BatchReqs : /\ FrontLocs(T[r], len[r], paths[r], kept[r])
                             /\ PathLocs(T[r], len[r], paths[r], src[r])
    BY <1>13
  <2>5. MovedTo(T, paths, written, Moved(written, Flat(kept), Flat(src)))
    BY <1>1, <1>2, <1>4, <1>15, <2>2, <2>3, <2>4, MoveFacts
  <2> QED BY <2>1, <2>5
<1>18. P = 1 => moved = written
  OBVIOUS
<1> HIDE DEF moved
<1>19. RowsKept(T2, moved, kv')
  BY <1>1, <1>2, <1>14, ScrubRows
<1>20. /\ len' \in [Reqs -> Nat] /\ committed' \in [Reqs -> Nat] /\ allocated' \in [Reqs -> Nat]
       /\ \A r \in BatchReqs : /\ len'[r] = len[r] + Len(paths[r])
                               /\ committed'[r] = committed[r] + Len(paths[r])
                               /\ allocated'[r] = committed[r] + Len(paths[r])
       /\ \A r \in Reqs \ BatchReqs : /\ len'[r] = len[r] /\ committed'[r] = committed[r]
                                      /\ allocated'[r] = committed[r]
  BY <1>1, <1>2, <1>4, AdvanceFacts
<1>21. LenInv'
  <2>1. table' \in [Reqs -> Seq(Nat)] /\ mode' \in Modes
    <3>1. \A r \in Reqs : T2[r] \in Seq(Nat)
      BY <1>14 DEF PageState, RowPaged
    <3>2. T2 = [r \in Reqs |-> T2[r]]
      BY DEF T2
    <3>3. T2 \in [Reqs -> Seq(Nat)]
      BY <3>1, <3>2
    <3> QED BY <1>2, <3>3 DEF TargetInv, LenInv
  <2>2. ASSUME NEW r \in Reqs PROVE LenOK(r)'
    <3>1. CASE r \in BatchReqs
      <4>1. Len(table'[r]) = len[r] + Len(paths[r])
        BY <1>2, <1>13, <3>1 DEF RowAfter
      <4>2. /\ len'[r] = len[r] + Len(paths[r]) /\ committed'[r] = len'[r] /\ allocated'[r] = len'[r]
            /\ late'[r] = 0 /\ len'[r] \in Nat
        BY <1>2, <1>5, <1>20, <3>1
      <4> QED BY <1>1, <1>2, <1>3, <3>1, <4>1, <4>2 DEF LenOK
    <3>2. CASE r \notin BatchReqs
      <4>1. /\ len'[r] = len[r] /\ committed'[r] = committed[r]
            /\ allocated'[r] = allocated[r] /\ late'[r] = late[r] /\ table'[r] = table[r]
        BY <1>2, <1>5, <1>12, <1>20, <3>2
      <4>2. LenOK(r)
        BY DEF TargetInv, LenInv
      <4> QED BY <1>3, <4>1, <4>2 DEF LenOK
    <3> QED BY <3>1, <3>2
  <2> QED BY <1>1, <1>2, <1>4, <1>20, <2>1, <2>2 DEF LenInv
<1>22. PageInv'
  BY <1>2, <1>3, <1>14 DEF PageInv
<1>23. KvOK(kv)'
  <2>1. KvOK(written)
    BY <1>16 DEF Passed
  <2>2. KvOK(moved)
    BY <1>17, <1>18, <2>1 DEF MovedTo
  <2>3. KvOK(kv')
    BY <1>19, <2>2 DEF RowsKept
  <2>4. Junk' = Junk
    BY DEF Junk
  <2> QED BY <1>3, <2>3, <2>4 DEF KvOK
<1>24. ASSUME ContextIntact, NEW r \in BatchReqs, NEW p \in 1..len'[r]
       PROVE  kv'[T2[r][p]] = <<r, p>>
  <2>1. /\ r \in Reqs /\ len[r] \in Nat /\ len'[r] = len[r] + Len(paths[r])
        /\ Len(paths[r]) \in Nat /\ Len(paths[r]) <= D /\ Len(T[r]) = len[r] + D
        /\ Len(T2[r]) = len[r] + Len(paths[r]) /\ \A i \in 1..len[r] : T2[r][i] = T[r][i]
    BY <1>9, <1>10, <1>13, <1>20 DEF RowAfter
  <2>2. kv'[T2[r][p]] = moved[T2[r][p]]
    BY <1>19, <2>1 DEF RowsKept
  <2>3. CASE p <= len[r]
    <3>1. p \in 1..len[r] /\ p \in 1..Len(T[r])
      BY <1>1, <2>1, <2>3
    <3>2. T2[r][p] = T[r][p] /\ T[r][p] = table[r][p]
      BY <1>9, <2>1, <3>1
    <3>3. moved[T[r][p]] = written[T[r][p]]
      BY <1>17, <1>18, <3>1 DEF MovedTo
    <3>4. written[T[r][p]] = kv[T[r][p]]
      BY <1>16, <2>1, <2>3, <3>1 DEF Passed
    <3>5. kv[table[r][p]] = <<r, p>>
      BY <1>24, <3>1 DEF ContextIntact
    <3> QED BY <2>2, <3>2, <3>3, <3>4, <3>5
  <2>4. CASE ~(p <= len[r])
    <3>1. PICK j \in 1..Len(paths[r]) : len[r] + j = p
      <4>1. p - len[r] \in 1..Len(paths[r]) /\ len[r] + (p - len[r]) = p
        BY <2>1, <2>4
      <4> QED BY <4>1
    <3>2. written[T[r][len[r] + (paths[r][j] + 1)]] = <<r, len[r] + j>>
      BY <1>16 DEF Passed
    <3>3. CASE P = 1
      <4>1. T2[r][len[r] + j] = T[r][len[r] + (paths[r][j] + 1)]
        BY <1>13, <3>3 DEF TookPath
      <4> QED BY <1>18, <2>2, <3>1, <3>2, <3>3, <4>1
    <3>4. CASE P # 1
      <4>1. T2[r][len[r] + j] = T[r][len[r] + j]
        BY <1>13, <3>4 DEF TookFront
      <4>2. moved[T[r][len[r] + j]] = written[T[r][len[r] + (paths[r][j] + 1)]]
        BY <1>17, <3>4 DEF MovedTo
      <4> QED BY <2>2, <3>1, <3>2, <4>1, <4>2
    <3> QED BY <3>3, <3>4
  <2> QED BY <2>3, <2>4
<1>25. ContextIntact => ContextIntact'
  <2> SUFFICES ASSUME ContextIntact, NEW r \in BatchReqs', NEW p \in 1..len'[r]
               PROVE  kv'[table'[r][p]] = <<r, p>>
    BY DEF ContextIntact
  <2>1. r \in BatchReqs /\ table' = T2
    BY <1>2, <1>3
  <2> QED BY <1>24, <2>1
<1> QED BY <1>21, <1>22, <1>23, <1>25 DEF TargetInv

-----------------------------------------------------------------------------
(* Every step. *)

\* The configurations in which the accepted path ends up at the front of the
\* row: all of the synchronous worker's, and chains under the overlap worker,
\* which moves nothing.
PathKept == SpecV2 => Chain

LEMMA NextStep ==
  ASSUME TargetInv, [Next]_vars
  PROVE  TargetInv' /\ (PathKept /\ ContextIntact => ContextIntact') /\ PathKept' = PathKept
<1>1. CASE Decode
  <2>1. mode' = mode
    BY <1>1 DEF Decode
  <2>2. PICK paths \in [BatchReqs -> Paths] : DecodeV1(paths) \/ DecodeV2(paths)
    BY <1>1 DEF Decode
  <2>3. PathKept' = PathKept
    BY <2>1, SameMode DEF PathKept
  <2>4. CASE DecodeV1(paths)
    BY <2>1, <2>3, <2>4, V1Step
  <2>5. CASE DecodeV2(paths)
    <3>1. TargetInv' /\ (Chain /\ ContextIntact => ContextIntact')
      BY <2>1, <2>5, V2Step
    <3>2. SpecV2
      BY <2>5 DEF DecodeV2
    <3> QED BY <2>3, <3>1, <3>2 DEF PathKept
  <2> QED BY <2>2, <2>4, <2>5
<1>2. CASE Retract
  <2>1. mode' = mode
    BY <1>2 DEF Retract, Released
  <2> QED BY <1>2, <2>1, RetractStep, SameMode DEF PathKept
<1>3. ASSUME NEW r \in Reqs, Extend(r)
      PROVE  TargetInv' /\ (ContextIntact => ContextIntact') /\ PathKept' = PathKept
  <2>1. mode' = mode
    BY <1>3 DEF Extend
  <2> QED BY <1>3, <2>1, ExtendStep, SameMode DEF PathKept
<1>4. ASSUME NEW r \in Reqs, Finish(r)
      PROVE  TargetInv' /\ (ContextIntact => ContextIntact') /\ PathKept' = PathKept
  <2>1. mode' = mode
    BY <1>4 DEF Finish, Released
  <2> QED BY <1>4, <2>1, FinishStep, SameMode DEF PathKept
<1>5. CASE UNCHANGED vars
  <2>1. /\ mode' = mode /\ batch' = batch /\ len' = len /\ committed' = committed
        /\ allocated' = allocated /\ late' = late /\ table' = table /\ free' = free /\ kv' = kv
    BY <1>5 DEF vars
  <2>2. /\ PageSize' = PageSize /\ NumPages' = NumPages /\ Slots' = Slots
        /\ SpecV2' = SpecV2 /\ Chain' = Chain /\ BatchReqs' = BatchReqs
    BY <2>1, SameMode DEF BatchReqs
  <2>3. LenInv'
    <3>1. ASSUME NEW r \in Reqs PROVE LenOK(r)'
      <4>1. LenOK(r)
        BY DEF TargetInv, LenInv
      <4> QED BY <2>1, <2>2, <4>1 DEF LenOK
    <3> QED BY <2>1, <3>1 DEF TargetInv, LenInv
  <2>4. PageInv'
    BY <2>1, <2>2 DEF TargetInv, PageInv
  <2>5. KvOK(kv)'
    BY <2>1, <2>2 DEF TargetInv, KvOK, Junk
  <2>6. ContextIntact => ContextIntact'
    BY <2>1, <2>2 DEF ContextIntact
  <2> QED BY <2>2, <2>3, <2>4, <2>5, <2>6 DEF TargetInv, PathKept
<1> QED BY <1>1, <1>2, <1>3, <1>4, <1>5 DEF Next

\* The invariant holds in every state of every behaviour.
LEMMA Invariant == Spec => []TargetInv
<1>1. Init => TargetInv
  BY InitInv
<1>2. TargetInv /\ [Next]_vars => TargetInv'
  BY NextStep
<1> QED BY <1>1, <1>2, PTL DEF Spec

\* The pages of the rows, as PagesConserved names them.
LEMMA OwnedPages ==
  ASSUME TargetInv, NEW r \in Reqs
  PROVE  {PageOf(table[r][p]) : p \in 1..allocated[r]} = PagesIn(PageSize, table[r])
<1>1. Len(table[r]) = allocated[r]
  BY DEF TargetInv, LenInv, LenOK
<1> QED BY <1>1 DEF PagesIn, PageOf

-----------------------------------------------------------------------------
(* The theorems. *)

\* The lengths of a request are ordered as release_kv_cache and
\* prepare_for_decode rely on, its row of req_to_token names slots of the
\* allocator and is as long as kv_allocated_len says, for every page size, pool
\* size and batch and in both workers.
THEOREM TargetTypeCorrect == Spec => []TargetTypeOK
<1>1. TargetInv => TargetTypeOK
  <2> SUFFICES ASSUME TargetInv PROVE TargetTypeOK
    OBVIOUS
  <2>1. BatchReqs \subseteq Reqs /\ Cardinality(BatchReqs) = Len(batch)
    <3>1. batch \in Seq(Reqs) /\ Unique(batch)
      BY DEF TargetInv, LenInv
    <3> QED BY <3>1, UniqueCount DEF BatchReqs
  <2>2. SlotsOwned(table)
    <3>1. PageSize \in Positive /\ NumPages \in Nat
      BY ModeFacts DEF TargetInv, LenInv
    <3> QED BY <3>1, RowSlots DEF TargetInv, PageInv
  <2>3. ASSUME NEW r \in Reqs
        PROVE  /\ committed[r] \in Nat /\ allocated[r] \in Nat /\ late[r] \in Nat
               /\ Len(table[r]) = allocated[r]
               /\ len[r] = committed[r] + late[r] /\ len[r] <= allocated[r]
               /\ DOMAIN table[r] = 1..Len(table[r])
    <3>1. LenOK(r) /\ table[r] \in Seq(Nat)
      BY DEF TargetInv, LenInv
    <3>2. committed[r] \in Nat /\ allocated[r] \in Nat /\ late[r] \in Nat
      BY DEF TargetInv, LenInv
    <3> QED BY <3>1, <3>2, LenProperties DEF LenOK
  <2>4. ASSUME NEW r \in Reqs, NEW p \in DOMAIN table[r] PROVE table[r][p] \in Slots
    BY <2>2, <2>3 DEF SlotsOwned
  <2>5. \A s \in Slots : kv[s] = Junk \/ kv[s] \in Reqs \X Nat
    BY DEF TargetInv, KvOK
  <2> QED BY <2>1, <2>3, <2>4, <2>5 DEF TargetTypeOK
<1> QED BY <1>1, Invariant, PTL

\* Every page is on the free list once or belongs to one request, whatever paths
\* were accepted, rejected tails given back and requests retracted or finished,
\* for every page size and in both workers (_free_cache, release_kv_cache).
THEOREM PagesAreConserved == Spec => []PagesConserved
<1>1. TargetInv => PagesConserved
  <2> SUFFICES ASSUME TargetInv PROVE PagesConserved
    OBVIOUS
  <2> DEFINE Owned(r) == {PageOf(table[r][p]) : p \in 1..allocated[r]}
  <2>1. \A r \in Reqs : Owned(r) = PagesIn(PageSize, table[r])
    BY OwnedPages
  <2>2. PageState(PageSize, NumPages, table, free)
    BY DEF TargetInv, PageInv
  <2> HIDE DEF Owned
  <2>3. Cardinality(Elements(free)) = Len(free)
    BY <2>2, UniqueCount DEF PageState
  <2>4. \A r \in Reqs : Owned(r) \cap Elements(free) = {}
    BY <2>1, <2>2 DEF PageState
  <2>5. \A q, r \in Reqs : q # r => Owned(q) \cap Owned(r) = {}
    BY <2>1, <2>2 DEF PageState
  <2>6. (UNION {Owned(r) : r \in Reqs}) \cup Elements(free) = 1..NumPages
    <3> DEFINE all == UNION {Owned(r) : r \in Reqs}
               listed == Elements(free)
               pages == 1..NumPages
               In(g) == \E r \in Reqs : g \in PagesIn(PageSize, table[r])
    <3>1. \A g : g \in all <=> In(g)
      BY <2>1
    <3>2. \A g : g \in pages <=> (g \in listed \/ In(g))
      BY <2>2 DEF PageState
    <3> HIDE DEF all, listed, pages, In
    <3>3. all \cup listed = pages
      BY <3>1, <3>2
    <3> QED BY <3>3 DEF all, listed, pages
  <2> QED BY <2>3, <2>4, <2>5, <2>6 DEF PagesConserved, Owned
<1> QED BY <1>1, Invariant, PTL

\* Position p of a request's row holds the entry of position p of the request,
\* whatever tree paths were accepted before: for every page size, tree and depth
\* under the synchronous worker, which remaps or moves the accepted path
\* (_free_cache), and under the overlap worker as long as its draft trees are
\* chains.  The remaining case, a tree under the overlap worker, is the one run
\* MCTargetTree refutes.
THEOREM ContextKept == Spec => [](PathKept => ContextIntact)
<1> DEFINE Kept == PathKept => ContextIntact
<1>1. Init => Kept
  BY DEF Init, ContextIntact, BatchReqs, Elements
<1>2. TargetInv /\ Kept /\ [Next]_vars => Kept'
  BY NextStep
<1>3. Spec => []TargetInv
  BY Invariant
<1> HIDE DEF Kept
<1>4. Spec => []Kept
  BY <1>1, <1>2, <1>3, PTL DEF Spec
<1> QED BY <1>4 DEF Kept
=============================================================================
