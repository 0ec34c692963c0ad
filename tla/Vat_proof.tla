------------------------------- MODULE Vat_proof -------------------------------
(***************************************************************************)
(* Proofs about Vat: what binary_find returns, why the heap stays sorted   *)
(* as far as binary_find looks, and that no block is shared or lost.       *)
(***************************************************************************)
EXTENDS Vat, TLAPS, WellFoundedInduction, FiniteSetTheorems, SequenceTheorems

-----------------------------------------------------------------------------
(***************************************************************************)
(* binary_find is defined.                                                 *)
(***************************************************************************)
LEMMA LeastOf ==
    ASSUME NEW S, S \subseteq Nat, S # {}
    PROVE  \E n \in S : \A m \in S : n <= m
<1> DEFINE R == {p \in Nat \X Nat : p[1] < p[2]}
<1>1. IsWellFoundedOn(R, Nat)
  BY NatLessThanWellFounded DEF OpToRel
<1>2. PICK x \in S : \A y \in S : ~ (<<y, x>> \in R)
  <2> HIDE DEF R
  <2> QED
    BY <1>1, WFMin
<1>3. \A y \in S : <<y, x>> \in R <=> y < x
  OBVIOUS
<1>4. \A m \in S : ~ (m < x)
  BY <1>2, <1>3
<1> QED
  BY <1>4

Ranges(heap) == (0 .. Len(heap)) \X (-1 .. Len(heap))
Width(range) == range[2] - range[1]

\* One turn of the loop, and what f returns for the range that is left
Turn(f, heap, size, range) ==
    LET left == range[1]
        right == range[2]
        middle == (left + right) \div 2
    IN  IF right - left <= 0 THEN left
        ELSE IF Capacity(heap, middle) < size THEN f[<<middle + 1, right>>]
        ELSE IF middle > 0 /\ Capacity(heap, middle - 1) >= size
             THEN f[<<left, middle - 1>>] ELSE middle

Finds(f, heap, size) == f = [range \in Ranges(heap) |-> Turn(f, heap, size, range)]

LEMMA FindIs ==
    ASSUME NEW heap, NEW size
    PROVE  binary_find(heap, size) = (CHOOSE f : Finds(f, heap, size))[<<0, Len(heap) - 1>>]
BY Zenon DEF binary_find, Finds, Turn, Ranges

\* The loop goes on with smaller ranges.
LEMMA Narrows ==
    ASSUME NEW heap, Len(heap) \in Nat, NEW range \in Ranges(heap), Width(range) > 0,
           NEW middle, middle = (range[1] + range[2]) \div 2
    PROVE  /\ middle \in range[1] .. (range[2] - 1)
           /\ <<middle + 1, range[2]>> \in Ranges(heap)
           /\ Width(<<middle + 1, range[2]>>) < Width(range)
           /\ <<range[1], middle - 1>> \in Ranges(heap)
           /\ Width(<<range[1], middle - 1>>) < Width(range)
<1>1. /\ range[1] \in 0 .. Len(heap) /\ range[2] \in -1 .. Len(heap)
      /\ range[2] > range[1]
  BY DEF Ranges, Width
<1>2. middle \in Int /\ middle >= range[1] /\ middle < range[2]
  BY <1>1
<1> QED
  BY <1>1, <1>2 DEF Ranges, Width

LEMMA TurnDependsOnSmaller ==
    ASSUME NEW heap, Len(heap) \in Nat, NEW size, NEW range \in Ranges(heap), NEW f, NEW g,
           \A r \in Ranges(heap) : Width(r) < Width(range) => f[r] = g[r]
    PROVE  Turn(f, heap, size, range) = Turn(g, heap, size, range)
<1>1. CASE range[2] - range[1] <= 0
  BY <1>1 DEF Turn
<1>2. CASE ~(range[2] - range[1] <= 0)
  <2> DEFINE middle == (range[1] + range[2]) \div 2
  <2>1. Width(range) > 0
    BY <1>2 DEF Width, Ranges
  <2>2. /\ f[<<middle + 1, range[2]>>] = g[<<middle + 1, range[2]>>]
        /\ f[<<range[1], middle - 1>>] = g[<<range[1], middle - 1>>]
    <3> HIDE DEF middle
    <3>1. middle = (range[1] + range[2]) \div 2
      BY DEF middle
    <3> QED
      BY <2>1, <3>1, Narrows
  <2> QED
    BY <2>2 DEF Turn
<1> QED
  BY <1>1, <1>2

LEMMA FindExists ==
    ASSUME NEW heap, Len(heap) \in Nat, NEW size
    PROVE  \E f : Finds(f, heap, size)
<1> DEFINE Upto(f, n) == \A r \in Ranges(heap) : Width(r) <= n => f[r] = Turn(f, heap, size, r)
           Bad == {n \in Nat : ~ \E f : Upto(f, n)}
<1>1. \A r \in Ranges(heap) : Width(r) \in Int /\ Width(r) <= Len(heap)
  BY DEF Ranges, Width
<1>2. ASSUME NEW n \in Nat, NEW f, \A r \in Ranges(heap) : Width(r) < n => f[r] = Turn(f, heap, size, r)
      PROVE  n \notin Bad
  <2> DEFINE g == [r \in Ranges(heap) |-> IF Width(r) < n THEN f[r] ELSE Turn(f, heap, size, r)]
  <2>1. ASSUME NEW r \in Ranges(heap), Width(r) <= n
        PROVE  g[r] = Turn(g, heap, size, r)
    <3>1. \A q \in Ranges(heap) : Width(q) < Width(r) => g[q] = f[q]
      BY <1>1, <2>1
    <3>2. g[r] = Turn(f, heap, size, r)
      BY <1>2
    <3> HIDE DEF g
    <3> QED
      BY <3>1, <3>2, TurnDependsOnSmaller
  <2> HIDE DEF g
  <2> QED
    BY <2>1
<1>3. Bad = {}
  <2> SUFFICES ASSUME Bad # {}  PROVE FALSE
    OBVIOUS
  <2> HIDE DEF Upto
  <2>1. PICK n \in Bad : \A m \in Bad : n <= m
    BY LeastOf
  <2>2. n \in Nat
    OBVIOUS
  <2>3. PICK f : \A r \in Ranges(heap) : Width(r) < n => f[r] = Turn(f, heap, size, r)
    <3>1. CASE n = 0
      <4> DEFINE f == [r \in Ranges(heap) |-> r[1]]
      <4>1. \A r \in Ranges(heap) : Width(r) < 0 => f[r] = Turn(f, heap, size, r)
        BY DEF Turn, Width, Ranges
      <4> HIDE DEF f
      <4> QED
        BY <3>1, <4>1
    <3>2. CASE n # 0
      <4>1. n - 1 \in Nat /\ n - 1 \notin Bad
        BY <2>1, <2>2, <3>2
      <4>2. PICK f : Upto(f, n - 1)
        BY <4>1
      <4>3. \A r \in Ranges(heap) : Width(r) < n => f[r] = Turn(f, heap, size, r)
        BY <1>1, <2>2, <4>2 DEF Upto
      <4> QED
        BY <4>3
    <3> QED
      BY <3>1, <3>2
  <2> HIDE DEF Bad
  <2> QED
    BY <1>2, <2>1, <2>2, <2>3
<1>4. PICK f : Upto(f, Len(heap))
  BY <1>3
<1> DEFINE g == [r \in Ranges(heap) |-> f[r]]
<1>5. ASSUME NEW r \in Ranges(heap)
      PROVE  g[r] = Turn(g, heap, size, r)
  <2>1. g[r] = Turn(f, heap, size, r)
    BY <1>1, <1>4
  <2>2. \A q \in Ranges(heap) : g[q] = f[q]
    OBVIOUS
  <2> HIDE DEF g, Upto
  <2> QED
    BY <2>1, <2>2, TurnDependsOnSmaller
<1>6. g = [r \in Ranges(heap) |-> g[r]]
  OBVIOUS
<1> HIDE DEF g
<1>7. g = [r \in Ranges(heap) |-> Turn(g, heap, size, r)]
  BY <1>5, <1>6
<1> QED
  BY <1>7 DEF Finds

-----------------------------------------------------------------------------
(***************************************************************************)
(* What binary_find returns                                                *)
(***************************************************************************)
Pots == [ptr : Addresses, capacity : Nat]

\* All pots except the last are sorted.
Sorted(heap) ==
    \A i, j \in 1 .. (Len(heap) - 1) : i <= j => heap[i].capacity <= heap[j].capacity

\* The pot before which binary_find stops: all before are too small, and it
\* is large enough unless it is the last.
FirstFit(heap, size, at) ==
    /\ at \in 0 .. (Len(heap) - 1)
    /\ \A i \in 0 .. (at - 1) : Capacity(heap, i) < size
    /\ at < Len(heap) - 1 => Capacity(heap, at) >= size

LEMMA CapacityTyped ==
    ASSUME NEW heap \in Seq(Pots), NEW i \in 0 .. (Len(heap) - 1)
    PROVE  Capacity(heap, i) \in Nat
<1>1. heap[i + 1] \in Pots
  OBVIOUS
<1> QED
  BY <1>1 DEF Capacity, Pots

LEMMA FindsFirstFit ==
    ASSUME NEW heap \in Seq(Pots), heap # <<>>, Sorted(heap), NEW size \in Nat
    PROVE  FirstFit(heap, size, binary_find(heap, size))
<1> DEFINE len == Len(heap)
           f == CHOOSE f : Finds(f, heap, size)
           Left(r) == r[1] \in 0 .. (len - 1) /\ \A i \in 0 .. (r[1] - 1) : Capacity(heap, i) < size
           Right(r) == /\ r[2] \in r[1] .. (len - 1)
                       /\ r[2] < len - 1 => Capacity(heap, r[2]) >= size
           Bad == {r \in Ranges(heap) : Left(r) /\ Right(r) /\ ~FirstFit(heap, size, f[r])}
<1>1. len \in Nat /\ len > 0
  OBVIOUS
<1>2. Finds(f, heap, size)
  <2>1. \E g : Finds(g, heap, size)
    BY <1>1, FindExists
  <2> QED
    BY <2>1
<1> HIDE DEF f
<1>3. \A r \in Ranges(heap) : f[r] = Turn(f, heap, size, r)
  BY <1>2 DEF Finds
<1>4. \A i, j \in 0 .. (len - 2) : i <= j => Capacity(heap, i) <= Capacity(heap, j)
  BY <1>1 DEF Sorted, Capacity
<1>5. \A i \in 0 .. (len - 1) : Capacity(heap, i) \in Nat
  BY CapacityTyped
<1> HIDE DEF len
<1>6. ASSUME NEW r \in Bad
      PROVE  Width(r) \in Nat /\ \E q \in Bad : Width(q) < Width(r)
  <2>1. r \in Ranges(heap) /\ Left(r) /\ Right(r) /\ ~FirstFit(heap, size, f[r])
    OBVIOUS
  <2>2. r[1] \in 0 .. (len - 1) /\ r[2] \in r[1] .. (len - 1) /\ Width(r) = r[2] - r[1]
    BY <2>1 DEF Width
  <2>3. f[r] = Turn(f, heap, size, r)
    BY <1>3, <2>1
  <2>4. Width(r) > 0
    <3> SUFFICES ASSUME r[2] - r[1] <= 0  PROVE FALSE
      BY <2>2
    <3>1. r[2] = r[1] /\ f[r] = r[1]
      BY <2>2, <2>3 DEF Turn
    <3> QED
      BY <2>1, <3>1 DEF FirstFit, len
  <2> DEFINE middle == (r[1] + r[2]) \div 2
  <2>5. middle = (r[1] + r[2]) \div 2
    OBVIOUS
  <2> HIDE DEF middle
  <2>6. /\ middle \in r[1] .. (r[2] - 1)
        /\ <<middle + 1, r[2]>> \in Ranges(heap) /\ Width(<<middle + 1, r[2]>>) < Width(r)
        /\ <<r[1], middle - 1>> \in Ranges(heap) /\ Width(<<r[1], middle - 1>>) < Width(r)
    BY <1>1, <2>1, <2>4, <2>5, Narrows DEF len
  <2>7. middle \in 0 .. (len - 2) /\ middle \in Int
    BY <1>1, <2>2, <2>6
  <2>8. f[r] = IF Capacity(heap, middle) < size THEN f[<<middle + 1, r[2]>>]
               ELSE IF middle > 0 /\ Capacity(heap, middle - 1) >= size
                    THEN f[<<r[1], middle - 1>>] ELSE middle
    BY <2>2, <2>3, <2>4, <2>5 DEF Turn
  <2>9. CASE Capacity(heap, middle) < size
    <3> DEFINE q == <<middle + 1, r[2]>>
    <3>1. Left(q)
      <4>1. \A i \in 0 .. middle : Capacity(heap, i) < size
        BY <1>1, <1>4, <1>5, <2>7, <2>9
      <4> QED
        BY <1>1, <2>7, <4>1
    <3>2. Right(q)
      BY <2>1, <2>2, <2>6
    <3>3. f[q] = f[r]
      BY <2>8, <2>9
    <3>4. q \in Ranges(heap) /\ Width(q) < Width(r)
      BY <2>6
    <3> HIDE DEF q, Left, Right
    <3>5. q \in Bad
      BY <2>1, <3>1, <3>2, <3>3, <3>4
    <3> QED
      BY <2>2, <2>4, <3>4, <3>5
  <2>10. CASE ~(Capacity(heap, middle) < size) /\ middle > 0 /\ Capacity(heap, middle - 1) >= size
    <3> DEFINE q == <<r[1], middle - 1>>
    <3>1. r[1] # middle
      <4>1. Capacity(heap, middle - 1) \in Nat /\ ~(Capacity(heap, middle - 1) < size)
        BY <1>1, <1>5, <2>7, <2>10
      <4> QED
        BY <2>1, <2>7, <2>10, <4>1
    <3>2. Left(q) /\ Right(q)
      BY <1>1, <2>1, <2>6, <2>7, <2>10, <3>1
    <3>3. f[q] = f[r]
      BY <2>8, <2>10
    <3>4. q \in Ranges(heap) /\ Width(q) < Width(r)
      BY <2>6
    <3> HIDE DEF q, Left, Right
    <3>5. q \in Bad
      BY <2>1, <3>2, <3>3, <3>4
    <3> QED
      BY <2>2, <2>4, <3>4, <3>5
  <2>11. CASE ~(Capacity(heap, middle) < size) /\ ~(middle > 0 /\ Capacity(heap, middle - 1) >= size)
    <3>1. f[r] = middle
      BY <2>8, <2>11
    <3>2. \A i \in 0 .. (middle - 1) : Capacity(heap, i) < size
      BY <1>1, <1>4, <1>5, <2>7, <2>11
    <3>3. Capacity(heap, middle) >= size
      BY <1>1, <1>5, <2>7, <2>11
    <3> QED
      BY <1>1, <2>1, <2>7, <3>1, <3>2, <3>3 DEF FirstFit, len
  <2> QED
    BY <2>9, <2>10, <2>11
<1>7. Bad = {}
  <2> SUFFICES ASSUME Bad # {}  PROVE FALSE
    OBVIOUS
  <2> HIDE DEF Bad
  <2> DEFINE Widths == {Width(r) : r \in Bad}
  <2>1. Widths \subseteq Nat /\ Widths # {}
    BY <1>6
  <2>2. PICK n \in Widths : \A m \in Widths : n <= m
    BY <2>1, LeastOf
  <2>3. PICK r \in Bad : n = Width(r)
    OBVIOUS
  <2>4. PICK q \in Bad : Width(q) < Width(r)
    BY <1>6
  <2>5. Width(q) \in Nat /\ Width(r) \in Nat /\ Width(r) <= Width(q)
    BY <1>6, <2>2, <2>3
  <2> QED
    BY <2>4, <2>5
<1> DEFINE all == <<0, len - 1>>
<1>8. all \in Ranges(heap) /\ Left(all) /\ Right(all)
  BY <1>1 DEF Ranges, len
<1>9. FirstFit(heap, size, f[all])
  BY <1>7, <1>8
<1> QED
  BY <1>9, FindIs DEF f, len

LEMMA FindsInEmpty == ASSUME NEW size  PROVE binary_find(<<>>, size) = 0
<1> DEFINE f == CHOOSE f : Finds(f, <<>>, size)
<1>1. Len(<<>>) = 0
  OBVIOUS
<1>2. Finds(f, <<>>, size)
  <2>1. \E g : Finds(g, <<>>, size)
    BY <1>1, FindExists
  <2> QED
    BY <2>1
<1> HIDE DEF f
<1>3. <<0, -1>> \in Ranges(<<>>)
  BY DEF Ranges
<1>4. f[<<0, -1>>] = 0
  BY <1>2, <1>3 DEF Finds, Turn
<1> QED
  BY <1>1, <1>4, FindIs DEF f


-----------------------------------------------------------------------------
(***************************************************************************)
(* Pots taken out of the heap and put back                                 *)
(***************************************************************************)
Apart(heap) == \A i, j \in DOMAIN heap : heap[i].ptr = heap[j].ptr => i = j

LEMMA Removed ==
    ASSUME NEW heap \in Seq(Pots), NEW at \in 1 .. Len(heap), NEW h, h = RemoveAt(heap, at)
    PROVE  /\ h \in Seq(Pots) /\ Len(h) = Len(heap) - 1
           /\ \A i \in 1 .. Len(h) : h[i] = IF i < at THEN heap[i] ELSE heap[i + 1]
<1> DEFINE a == SubSeq(heap, 1, at - 1)
           b == SubSeq(heap, at + 1, Len(heap))
<1>1. Len(heap) \in Nat /\ at \in Nat /\ at >= 1 /\ at <= Len(heap)
  OBVIOUS
<1>2. a \in Seq(Pots) /\ Len(a) = at - 1 /\ \A i \in 1 .. (at - 1) : a[i] = heap[i]
  BY <1>1
<1>3. b \in Seq(Pots) /\ Len(b) = Len(heap) - at /\ \A i \in 1 .. (Len(heap) - at) : b[i] = heap[i + at]
  BY <1>1
<1>4. h = a \o b
  BY DEF RemoveAt
<1> HIDE DEF a, b
<1>5. h \in Seq(Pots) /\ Len(h) = Len(a) + Len(b)
  BY <1>2, <1>3, <1>4, ConcatProperties
<1>6. \A i \in 1 .. Len(h) : h[i] = IF i <= Len(a) THEN a[i] ELSE b[i - Len(a)]
  BY <1>2, <1>3, <1>4
<1>7. Len(h) = Len(heap) - 1
  BY <1>1, <1>2, <1>3, <1>5
<1>8. ASSUME NEW i \in 1 .. Len(h)
      PROVE  h[i] = IF i < at THEN heap[i] ELSE heap[i + 1]
  <2>1. CASE i < at
    BY <1>1, <1>2, <1>6, <2>1
  <2>2. CASE i >= at
    <3>1. i - Len(a) \in 1 .. (Len(heap) - at) /\ (i - Len(a)) + at = i + 1
      BY <1>1, <1>2, <1>7, <2>2
    <3>2. h[i] = b[i - Len(a)] /\ b[i - Len(a)] = heap[(i - Len(a)) + at]
      BY <1>1, <1>2, <1>3, <1>6, <2>2, <3>1
    <3> QED
      BY <1>1, <2>2, <3>1, <3>2
  <2> QED
    BY <1>1, <1>5, <2>1, <2>2
<1> QED
  BY <1>5, <1>7, <1>8

LEMMA Inserted ==
    ASSUME NEW heap \in Seq(Pots), NEW at \in 1 .. (Len(heap) + 1), NEW pot \in Pots
    PROVE  /\ InsertAt(heap, at, pot) \in Seq(Pots) /\ Len(InsertAt(heap, at, pot)) = Len(heap) + 1
           /\ \A i \in 1 .. (Len(heap) + 1) :
                InsertAt(heap, at, pot)[i] = IF i < at THEN heap[i]
                                             ELSE IF i = at THEN pot ELSE heap[i - 1]
<1> DEFINE h == InsertAt(heap, at, pot)
<1> DEFINE a == SubSeq(heap, 1, at - 1)
           b == SubSeq(heap, at, Len(heap))
           c == a \o <<pot>>
<1>1. Len(heap) \in Nat /\ at \in Nat /\ at >= 1 /\ at <= Len(heap) + 1
  OBVIOUS
<1>2. a \in Seq(Pots) /\ Len(a) = at - 1 /\ \A i \in 1 .. (at - 1) : a[i] = heap[i]
  BY <1>1
<1>3. /\ b \in Seq(Pots) /\ Len(b) = Len(heap) - at + 1
      /\ \A i \in 1 .. (Len(heap) - at + 1) : b[i] = heap[i + at - 1]
  BY <1>1
<1>4. h = c \o b
  BY DEF InsertAt
<1> HIDE DEF a, b, h
<1>5. /\ c \in Seq(Pots) /\ Len(c) = at
      /\ \A i \in 1 .. at : c[i] = IF i < at THEN a[i] ELSE pot
  BY <1>1, <1>2
<1> HIDE DEF c
<1>6. h \in Seq(Pots) /\ Len(h) = Len(c) + Len(b)
  BY <1>3, <1>4, <1>5, ConcatProperties
<1>7. \A i \in 1 .. Len(h) : h[i] = IF i <= Len(c) THEN c[i] ELSE b[i - Len(c)]
  BY <1>3, <1>4, <1>5
<1>8. Len(h) = Len(heap) + 1
  BY <1>1, <1>3, <1>5, <1>6
<1>9. ASSUME NEW i \in 1 .. (Len(heap) + 1)
      PROVE  h[i] = IF i < at THEN heap[i] ELSE IF i = at THEN pot ELSE heap[i - 1]
  <2>1. CASE i <= at
    BY <1>1, <1>2, <1>5, <1>7, <1>8, <2>1
  <2>2. CASE i > at
    <3>1. i - at \in 1 .. (Len(heap) - at + 1) /\ (i - at) + at - 1 = i - 1
      BY <1>1, <2>2
    <3>2. h[i] = b[i - at] /\ b[i - at] = heap[(i - at) + at - 1]
      BY <1>1, <1>3, <1>5, <1>7, <1>8, <2>2, <3>1
    <3> QED
      BY <1>1, <2>2, <3>1, <3>2
  <2> QED
    BY <1>1, <2>1, <2>2
<1> QED
  BY <1>6, <1>8, <1>9 DEF h

\* Vat::malloc takes a pot,
LEMMA PotTaken ==
    ASSUME NEW heap \in Seq(Pots), Sorted(heap), Apart(heap), NEW at \in 1 .. Len(heap)
    PROVE  /\ RemoveAt(heap, at) \in Seq(Pots)
           /\ Sorted(RemoveAt(heap, at)) /\ Apart(RemoveAt(heap, at))
           /\ Blocks(RemoveAt(heap, at)) = Blocks(heap) \ {heap[at].ptr}
<1> DEFINE h == RemoveAt(heap, at)
<1>1. /\ h \in Seq(Pots) /\ Len(h) = Len(heap) - 1
      /\ \A i \in 1 .. Len(h) : h[i] = IF i < at THEN heap[i] ELSE heap[i + 1]
  BY Removed
<1> HIDE DEF h
<1>2. Len(heap) \in Nat /\ at \in Nat /\ DOMAIN heap = 1 .. Len(heap) /\ DOMAIN h = 1 .. Len(h)
  BY <1>1
<1>3. Apart(h)
  <2> SUFFICES ASSUME NEW i \in 1 .. Len(h), NEW j \in 1 .. Len(h), h[i].ptr = h[j].ptr
               PROVE  i = j
    BY <1>2 DEF Apart
  <2>1. PICK k \in 1 .. Len(heap) : h[i] = heap[k] /\ k = IF i < at THEN i ELSE i + 1
    BY <1>1, <1>2
  <2>2. PICK l \in 1 .. Len(heap) : h[j] = heap[l] /\ l = IF j < at THEN j ELSE j + 1
    BY <1>1, <1>2
  <2>3. k = l
    BY <1>2, <2>1, <2>2 DEF Apart
  <2> QED
    BY <1>1, <1>2, <2>1, <2>2, <2>3
<1>4. Sorted(h)
  <2> SUFFICES ASSUME NEW i \in 1 .. (Len(h) - 1), NEW j \in 1 .. (Len(h) - 1), i <= j
               PROVE  h[i].capacity <= h[j].capacity
    BY DEF Sorted
  <2>1. PICK k \in 1 .. (Len(heap) - 1) : h[i] = heap[k] /\ k = IF i < at THEN i ELSE i + 1
    BY <1>1, <1>2
  <2>2. PICK l \in 1 .. (Len(heap) - 1) : h[j] = heap[l] /\ l = IF j < at THEN j ELSE j + 1
    BY <1>1, <1>2
  <2>3. k <= l
    BY <1>1, <1>2, <2>1, <2>2
  <2> QED
    BY <2>1, <2>2, <2>3 DEF Sorted
<1>5. Blocks(h) \subseteq Blocks(heap) \ {heap[at].ptr}
  BY <1>1, <1>2 DEF Blocks, Apart
<1>6. ASSUME NEW i \in 1 .. Len(heap), i # at
      PROVE  \E j \in 1 .. Len(h) : h[j] = heap[i]
  <2>1. CASE i < at
    BY <1>1, <1>2, <2>1
  <2>2. CASE i > at
    <3>1. i - 1 \in 1 .. Len(h) /\ ~(i - 1 < at) /\ (i - 1) + 1 = i
      BY <1>1, <1>2, <2>2
    <3> QED
      BY <1>1, <3>1
  <2> QED
    BY <1>2, <1>6, <2>1, <2>2
<1>7. Blocks(heap) \ {heap[at].ptr} \subseteq Blocks(h)
  BY <1>2, <1>6 DEF Blocks
<1> QED
  BY <1>1, <1>3, <1>4, <1>5, <1>7 DEF h

\* and Vat::free puts it back where binary_find says.
LEMMA PotReturned ==
    ASSUME NEW heap \in Seq(Pots), Sorted(heap), Apart(heap), NEW pot \in Pots,
           pot.ptr \notin Blocks(heap),
           NEW h, h = InsertAt(heap, binary_find(heap, pot.capacity) + 1, pot)
    PROVE  /\ h \in Seq(Pots) /\ Sorted(h) /\ Apart(h)
           /\ Blocks(h) = Blocks(heap) \union {pot.ptr}
<1> DEFINE at == binary_find(heap, pot.capacity) + 1
<1>1. pot.capacity \in Nat /\ Len(heap) \in Nat /\ DOMAIN heap = 1 .. Len(heap)
  BY DEF Pots
<1>2. /\ at \in 1 .. (Len(heap) + 1) /\ (at <= Len(heap) \/ Len(heap) = 0)
      /\ \A i \in 1 .. (at - 1) : heap[i].capacity < pot.capacity
      /\ at < Len(heap) => heap[at].capacity >= pot.capacity
  <2>1. CASE heap = <<>>
    BY <1>1, <2>1, FindsInEmpty
  <2>2. CASE heap # <<>>
    <3> DEFINE found == binary_find(heap, pot.capacity)
    <3>1. FirstFit(heap, pot.capacity, found)
      BY <1>1, <2>2, FindsFirstFit
    <3> HIDE DEF found
    <3>2. at = found + 1
      BY DEF found
    <3> HIDE DEF at
    <3>3. found \in 0 .. (Len(heap) - 1) /\ at \in 1 .. Len(heap)
      BY <1>1, <3>1, <3>2 DEF FirstFit
    <3>4. ASSUME NEW i \in 1 .. (at - 1)
          PROVE  heap[i].capacity < pot.capacity
      <4>1. i - 1 \in 0 .. (found - 1) /\ (i - 1) + 1 = i
        BY <1>1, <3>2, <3>3
      <4> QED
        BY <3>1, <4>1 DEF FirstFit, Capacity
    <3>5. at < Len(heap) => heap[at].capacity >= pot.capacity
      BY <1>1, <3>1, <3>2, <3>3 DEF FirstFit, Capacity
    <3> QED
      BY <1>1, <3>3, <3>4, <3>5
  <2> QED
    BY <2>1, <2>2
<1>3. h = InsertAt(heap, at, pot)
  OBVIOUS
<1> HIDE DEF at
<1>4. /\ h \in Seq(Pots) /\ Len(h) = Len(heap) + 1
      /\ \A i \in 1 .. Len(h) : h[i] = IF i < at THEN heap[i]
                                       ELSE IF i = at THEN pot ELSE heap[i - 1]
  <2>1. at \in 1 .. (Len(heap) + 1)
    BY <1>1, <1>2
  <2>2. /\ InsertAt(heap, at, pot) \in Seq(Pots) /\ Len(InsertAt(heap, at, pot)) = Len(heap) + 1
        /\ \A i \in 1 .. (Len(heap) + 1) :
             InsertAt(heap, at, pot)[i] = IF i < at THEN heap[i]
                                          ELSE IF i = at THEN pot ELSE heap[i - 1]
    BY <2>1, Inserted
  <2> QED
    BY <1>3, <2>2
<1>5. DOMAIN h = 1 .. Len(h) /\ at \in Nat
  BY <1>2, <1>4
<1>6. \A i \in DOMAIN heap : heap[i].ptr # pot.ptr /\ heap[i].capacity \in Nat
  <2>1. \A i \in DOMAIN heap : heap[i] \in Pots
    BY <1>1
  <2> QED
    BY <2>1 DEF Blocks, Pots
<1>7. Apart(h)
  <2> SUFFICES ASSUME NEW i \in 1 .. Len(h), NEW j \in 1 .. Len(h), h[i].ptr = h[j].ptr
               PROVE  i = j
    BY <1>5 DEF Apart
  <2> DEFINE Old(k) == IF k < at THEN k ELSE k - 1
  <2>1. \A k \in 1 .. Len(h) : k # at => Old(k) \in DOMAIN heap /\ h[k] = heap[Old(k)]
    BY <1>1, <1>2, <1>4, <1>5
  <2>2. h[at] = pot
    BY <1>1, <1>2, <1>4, <1>5
  <2>3. i = at <=> j = at
    BY <1>6, <2>1, <2>2
  <2>4. i # at /\ j # at => Old(i) = Old(j)
    BY <2>1 DEF Apart
  <2> QED
    BY <1>4, <1>5, <2>3, <2>4
<1>8. Sorted(h)
  <2> SUFFICES ASSUME NEW i \in 1 .. (Len(h) - 1), NEW j \in 1 .. (Len(h) - 1), i <= j
               PROVE  h[i].capacity <= h[j].capacity
    BY DEF Sorted
  <2>1. i \in 1 .. Len(heap) /\ j \in 1 .. Len(heap) /\ i \in 1 .. Len(h) /\ j \in 1 .. Len(h)
    BY <1>1, <1>4
  <2>2. \A k \in 1 .. (Len(heap) - 1) : at <= k => heap[k].capacity >= pot.capacity
    <3> SUFFICES ASSUME NEW k \in 1 .. (Len(heap) - 1), at <= k
                 PROVE  heap[k].capacity >= pot.capacity
      OBVIOUS
    <3>1. at \in 1 .. (Len(heap) - 1) /\ at < Len(heap)
      BY <1>1, <1>2
    <3>2. heap[at].capacity <= heap[k].capacity /\ heap[at].capacity >= pot.capacity
      BY <1>2, <3>1 DEF Sorted
    <3> QED
      BY <1>1, <1>6, <3>1, <3>2
  <2>3. h[i] = IF i < at THEN heap[i] ELSE IF i = at THEN pot ELSE heap[i - 1]
    BY <1>4, <2>1
  <2>4. h[j] = IF j < at THEN heap[j] ELSE IF j = at THEN pot ELSE heap[j - 1]
    BY <1>4, <2>1
  <2>5. CASE j < at
    <3>1. i \in 1 .. (Len(heap) - 1) /\ j \in 1 .. (Len(heap) - 1) /\ i < at
      BY <1>1, <1>2, <2>1, <2>5
    <3> QED
      BY <2>3, <2>4, <2>5, <3>1 DEF Sorted
  <2>6. CASE j = at
    <3>1. i < at \/ i = at
      BY <1>5, <2>1, <2>6
    <3> QED
      BY <1>1, <1>2, <1>5, <1>6, <2>1, <2>3, <2>4, <2>6, <3>1
  <2>7. CASE j > at
    <3>1. j - 1 \in 1 .. (Len(heap) - 1) /\ at <= j - 1 /\ j - 1 \in DOMAIN heap
      BY <1>1, <1>2, <1>5, <2>1, <2>7
    <3>2. h[j] = heap[j - 1] /\ heap[j - 1].capacity >= pot.capacity
      BY <1>5, <2>1, <2>2, <2>4, <2>7, <3>1
    <3>3. CASE i < at
      <4>1. heap[i].capacity < pot.capacity /\ i \in DOMAIN heap /\ h[i] = heap[i]
        BY <1>1, <1>2, <2>1, <2>3, <3>3
      <4> QED
        BY <1>1, <1>6, <3>1, <3>2, <4>1
    <3>4. CASE i = at
      BY <1>1, <1>5, <2>3, <3>2, <3>4
    <3>5. CASE i > at
      <4>1. i - 1 \in 1 .. (Len(heap) - 1) /\ i - 1 <= j - 1 /\ h[i] = heap[i - 1]
        BY <1>1, <1>2, <1>5, <2>1, <2>3, <3>5
      <4> QED
        BY <3>1, <3>2, <4>1 DEF Sorted
    <3> QED
      BY <1>5, <2>1, <3>3, <3>4, <3>5
  <2> QED
    BY <1>5, <2>1, <2>5, <2>6, <2>7
<1>9. Blocks(h) \subseteq Blocks(heap) \union {pot.ptr}
  BY <1>1, <1>2, <1>4, <1>5 DEF Blocks
<1>10. pot.ptr \in Blocks(h)
  <2>1. at \in 1 .. Len(h) /\ h[at] = pot
    BY <1>1, <1>2, <1>4, <1>5
  <2> QED
    BY <1>5, <2>1 DEF Blocks
<1>11. ASSUME NEW i \in 1 .. Len(heap)
       PROVE  \E j \in 1 .. Len(h) : h[j] = heap[i]
  <2>1. CASE i < at
    BY <1>1, <1>4, <2>1
  <2>2. CASE i >= at
    <3>1. i + 1 \in 1 .. Len(h) /\ ~(i + 1 < at) /\ i + 1 # at /\ (i + 1) - 1 = i
      BY <1>1, <1>4, <1>5, <2>2
    <3> QED
      BY <1>4, <3>1
  <2> QED
    BY <1>5, <2>1, <2>2
<1>12. Blocks(heap) \subseteq Blocks(h)
  BY <1>1, <1>5, <1>11 DEF Blocks
<1> QED
  BY <1>4, <1>7, <1>8, <1>9, <1>10, <1>12


-----------------------------------------------------------------------------
(***************************************************************************)
(* The inductive invariant of the pool                                     *)
(***************************************************************************)
TypeOK ==
    /\ m_heap \in Seq(Pots)
    /\ DOMAIN m_dict \subseteq Addresses /\ \A ptr \in DOMAIN m_dict : m_dict[ptr] \in Pots
    /\ DOMAIN wanted = DOMAIN m_dict /\ \A ptr \in DOMAIN wanted : wanted[ptr] \in Nat
    /\ m_deprecated \in BOOLEAN
    /\ peak \in Nat

\* What is in use counts towards the peak, and so does what was.
Counted ==
    /\ IsFiniteSet(hard)
    /\ Cardinality(DOMAIN m_dict) <= peak
    /\ BlocksWithinPeak

PoolInductive == TypeOK /\ Sorted(m_heap) /\ Ownership /\ Counted

\* The position that binary_find returns is in the heap.
LEMMA PositionInHeap ==
    ASSUME PoolInductive, m_heap # <<>>, NEW size \in Nat
    PROVE  /\ Position(size) \in 1 .. Len(m_heap)
           /\ m_heap[Position(size)] \in Pots
           /\ m_heap[Position(size)].ptr \in Blocks(m_heap)
<1>1. m_heap \in Seq(Pots) /\ Sorted(m_heap)
  BY DEF PoolInductive, TypeOK
<1> DEFINE found == binary_find(m_heap, size)
<1>2. FirstFit(m_heap, size, found)
  BY <1>1, FindsFirstFit
<1> HIDE DEF found
<1>3. Position(size) = found + 1
  BY DEF Position, found
<1>4. Position(size) \in 1 .. Len(m_heap)
  BY <1>1, <1>2, <1>3 DEF FirstFit
<1> QED
  BY <1>1, <1>4 DEF Blocks

\* An allocation enters its block.
LEMMA Kept ==
    ASSUME PoolInductive, NEW pot \in Pots, NEW size \in Nat, pot.capacity >= size,
           pot.ptr \notin DOMAIN m_dict, Keep(pot, size)
    PROVE  /\ DOMAIN m_dict' = DOMAIN m_dict \union {pot.ptr} /\ DOMAIN wanted' = DOMAIN m_dict'
           /\ \A ptr \in DOMAIN m_dict' :
                /\ m_dict'[ptr] \in Pots /\ m_dict'[ptr].ptr = ptr /\ wanted'[ptr] \in Nat
                /\ m_dict'[ptr].capacity >= wanted'[ptr]
           /\ DOMAIN m_dict' \subseteq Addresses
           /\ peak' \in Nat /\ peak' >= peak
           /\ IsFiniteSet(DOMAIN m_dict') /\ Cardinality(DOMAIN m_dict') <= peak'
           /\ m_deprecated' = m_deprecated
<1>1. TypeOK /\ Ownership /\ Counted
  BY DEF PoolInductive
<1>2. m_dict' = With(m_dict, pot.ptr, pot) /\ wanted' = With(wanted, pot.ptr, size)
  BY DEF Keep
<1>3. /\ peak' = IF Cardinality(DOMAIN m_dict) = peak THEN peak + 1 ELSE peak
      /\ m_deprecated' = m_deprecated
  BY DEF Keep
<1>4. /\ DOMAIN m_dict' = DOMAIN m_dict \union {pot.ptr} /\ m_dict'[pot.ptr] = pot
      /\ \A ptr \in DOMAIN m_dict : m_dict'[ptr] = m_dict[ptr]
  BY <1>2 DEF With
<1>5. /\ DOMAIN wanted' = DOMAIN m_dict' /\ wanted'[pot.ptr] = size
      /\ \A ptr \in DOMAIN m_dict : wanted'[ptr] = wanted[ptr]
  BY <1>1, <1>2, <1>4 DEF With, TypeOK
<1>6. \A ptr \in DOMAIN m_dict' :
        /\ m_dict'[ptr] \in Pots /\ m_dict'[ptr].ptr = ptr /\ wanted'[ptr] \in Nat
        /\ m_dict'[ptr].capacity >= wanted'[ptr]
  BY <1>1, <1>4, <1>5 DEF TypeOK, Ownership
<1>7. DOMAIN m_dict' \subseteq Addresses
  BY <1>1, <1>4 DEF TypeOK, Pots
<1>8. IsFiniteSet(DOMAIN m_dict)
  <2>1. DOMAIN m_dict \subseteq hard /\ IsFiniteSet(hard)
    BY <1>1 DEF Ownership, Counted
  <2> QED
    BY <2>1, FS_Subset
<1>9. /\ IsFiniteSet(DOMAIN m_dict')
      /\ Cardinality(DOMAIN m_dict') = Cardinality(DOMAIN m_dict) + 1
  BY <1>4, <1>8, FS_AddElement
<1>10. Cardinality(DOMAIN m_dict) \in Nat /\ Cardinality(DOMAIN m_dict) <= peak /\ peak \in Nat
  BY <1>1, <1>8, FS_CardinalityType DEF Counted, TypeOK
<1>11. Cardinality(DOMAIN m_dict') <= peak' /\ peak' \in Nat /\ peak' >= peak
  BY <1>3, <1>9, <1>10
<1> QED
  BY <1>3, <1>4, <1>5, <1>6, <1>7, <1>9, <1>11

\* What the pool keeps of a block that is given back
LEMMA Forgotten ==
    ASSUME PoolInductive, NEW ptr \in DOMAIN m_dict,
           m_dict' = Without(m_dict, ptr), wanted' = Without(wanted, ptr),
           UNCHANGED <<m_deprecated, peak>>
    PROVE  /\ DOMAIN m_dict' = DOMAIN m_dict \ {ptr} /\ DOMAIN wanted' = DOMAIN m_dict'
           /\ \A p \in DOMAIN m_dict' :
                /\ m_dict'[p] \in Pots /\ m_dict'[p].ptr = p /\ wanted'[p] \in Nat
                /\ m_dict'[p].capacity >= wanted'[p]
           /\ DOMAIN m_dict' \subseteq Addresses
           /\ Cardinality(DOMAIN m_dict') <= peak'
<1>1. TypeOK /\ Ownership /\ Counted
  BY DEF PoolInductive
<1>2. /\ DOMAIN m_dict' = DOMAIN m_dict \ {ptr}
      /\ \A p \in DOMAIN m_dict' : m_dict'[p] = m_dict[p]
  BY DEF Without
<1>3. /\ DOMAIN wanted' = DOMAIN m_dict'
      /\ \A p \in DOMAIN m_dict' : wanted'[p] = wanted[p]
  BY <1>1, <1>2 DEF Without, TypeOK
<1>4. IsFiniteSet(DOMAIN m_dict)
  <2>1. DOMAIN m_dict \subseteq hard /\ IsFiniteSet(hard)
    BY <1>1 DEF Ownership, Counted
  <2> QED
    BY <2>1, FS_Subset
<1>5. /\ IsFiniteSet(DOMAIN m_dict') /\ Cardinality(DOMAIN m_dict') <= Cardinality(DOMAIN m_dict)
      /\ Cardinality(DOMAIN m_dict') \in Nat /\ Cardinality(DOMAIN m_dict) \in Nat
  BY <1>2, <1>4, FS_Subset, FS_CardinalityType
<1> QED
  BY <1>1, <1>2, <1>3, <1>5 DEF TypeOK, Ownership, Counted

\* The hard allocator gives out as many blocks as before, one more, or fewer.
LEMMA FewerBlocks ==
    ASSUME PoolInductive, NEW blocks, blocks \subseteq hard
    PROVE  IsFiniteSet(blocks) /\ Cardinality(blocks) <= peak /\ Cardinality(blocks) \in Nat
<1>1. TypeOK /\ Counted
  BY DEF PoolInductive
<1>2. IsFiniteSet(hard)
  BY <1>1 DEF Counted
<1>3. IsFiniteSet(blocks) /\ Cardinality(blocks) <= Cardinality(hard)
  BY <1>2, FS_Subset
<1>4. Cardinality(blocks) \in Nat /\ Cardinality(hard) \in Nat
  BY <1>2, <1>3, FS_CardinalityType
<1> QED
  BY <1>1, <1>3, <1>4 DEF Counted, TypeOK, BlocksWithinPeak

LEMMA OneForAnother ==
    ASSUME PoolInductive, NEW old \in hard, NEW new, new \notin hard
    PROVE  /\ IsFiniteSet((hard \ {old}) \union {new})
           /\ Cardinality((hard \ {old}) \union {new}) <= peak
<1>1. TypeOK /\ Counted
  BY DEF PoolInductive
<1>2. IsFiniteSet(hard)
  BY <1>1 DEF Counted
<1>3. IsFiniteSet(hard \ {old}) /\ Cardinality(hard \ {old}) = Cardinality(hard) - 1
  BY <1>2, FS_RemoveElement
<1>4. /\ IsFiniteSet((hard \ {old}) \union {new})
      /\ Cardinality((hard \ {old}) \union {new}) = Cardinality(hard \ {old}) + 1
  BY <1>3, FS_AddElement
<1>5. Cardinality(hard) \in Nat
  BY <1>2, FS_CardinalityType
<1> QED
  BY <1>1, <1>3, <1>4, <1>5 DEF Counted, TypeOK, BlocksWithinPeak

-----------------------------------------------------------------------------
LEMMA ReuseKeeps ==
    ASSUME PoolInductive, NEW size \in Nat, Reuse(size)
    PROVE  PoolInductive'
<1>1. TypeOK /\ Ownership /\ Counted /\ Sorted(m_heap) /\ Apart(m_heap)
  BY DEF PoolInductive, Ownership, Apart
<1> DEFINE at == Position(size)
           pot == m_heap[at]
<1>2. /\ ~m_deprecated /\ m_heap # <<>> /\ pot.capacity >= size
      /\ m_heap' = RemoveAt(m_heap, at) /\ Keep(pot, size) /\ hard' = hard
  BY DEF Reuse
<1>3. at \in 1 .. Len(m_heap) /\ pot \in Pots /\ pot.ptr \in Blocks(m_heap)
  BY <1>2, PositionInHeap
<1>4. pot.ptr \notin DOMAIN m_dict
  BY <1>1, <1>3 DEF Ownership
<1> HIDE DEF at
<1>5. /\ m_heap' \in Seq(Pots) /\ Sorted(m_heap') /\ Apart(m_heap')
      /\ Blocks(m_heap') = Blocks(m_heap) \ {pot.ptr}
  BY <1>1, <1>2, <1>3, PotTaken DEF TypeOK
<1> HIDE DEF pot
<1>6. /\ DOMAIN m_dict' = DOMAIN m_dict \union {pot.ptr} /\ DOMAIN wanted' = DOMAIN m_dict'
      /\ \A ptr \in DOMAIN m_dict' :
           /\ m_dict'[ptr] \in Pots /\ m_dict'[ptr].ptr = ptr /\ wanted'[ptr] \in Nat
           /\ m_dict'[ptr].capacity >= wanted'[ptr]
      /\ DOMAIN m_dict' \subseteq Addresses
      /\ peak' \in Nat /\ peak' >= peak
      /\ Cardinality(DOMAIN m_dict') <= peak'
      /\ m_deprecated' = m_deprecated
  BY <1>2, <1>3, <1>4, Kept
<1>7. TypeOK'
  BY <1>1, <1>5, <1>6 DEF TypeOK
<1>8. Ownership'
  BY <1>1, <1>2, <1>3, <1>5, <1>6 DEF Ownership, Apart
<1>9. Counted'
  <2>1. IsFiniteSet(hard) /\ Cardinality(hard) <= peak /\ Cardinality(hard) \in Nat
    BY FewerBlocks
  <2> QED
    BY <1>1, <1>2, <1>6, <2>1 DEF Counted, BlocksWithinPeak, TypeOK
<1> QED
  BY <1>5, <1>7, <1>8, <1>9 DEF PoolInductive

LEMMA GrowKeeps ==
    ASSUME PoolInductive, NEW size \in Nat, Grow(size)
    PROVE  PoolInductive'
<1>1. TypeOK /\ Ownership /\ Counted /\ Sorted(m_heap) /\ Apart(m_heap)
  BY DEF PoolInductive, Ownership, Apart
<1>2. PICK new \in Addresses \ hard :
        /\ Keep([ptr |-> new, capacity |-> size], size)
        /\ IF m_heap = <<>> THEN m_heap' = <<>> /\ hard' = hard \union {new}
           ELSE /\ m_heap' = RemoveAt(m_heap, Position(size))
                /\ hard' = (hard \ {m_heap[Position(size)].ptr}) \union {new}
  BY DEF Grow
<1> DEFINE pot == [ptr |-> new, capacity |-> size]
<1>3. pot \in Pots /\ pot.ptr = new /\ pot.capacity >= size
  BY DEF Pots
<1>4. new \notin DOMAIN m_dict /\ new \notin Blocks(m_heap) /\ ~m_deprecated
  BY <1>1 DEF Ownership, Grow
<1> HIDE DEF pot
<1>5. /\ DOMAIN m_dict' = DOMAIN m_dict \union {new} /\ DOMAIN wanted' = DOMAIN m_dict'
      /\ \A ptr \in DOMAIN m_dict' :
           /\ m_dict'[ptr] \in Pots /\ m_dict'[ptr].ptr = ptr /\ wanted'[ptr] \in Nat
           /\ m_dict'[ptr].capacity >= wanted'[ptr]
      /\ DOMAIN m_dict' \subseteq Addresses
      /\ peak' \in Nat /\ peak' >= peak
      /\ IsFiniteSet(DOMAIN m_dict') /\ Cardinality(DOMAIN m_dict') <= peak'
      /\ m_deprecated' = m_deprecated
  <2>1. Keep(pot, size)
    BY <1>2 DEF pot
  <2> QED
    BY <1>3, <1>4, <2>1, Kept
<1>6. CASE m_heap = <<>>
  <2>1. m_heap' = <<>> /\ hard' = hard \union {new} /\ Blocks(m_heap) = {} /\ Blocks(m_heap') = {}
    BY <1>2, <1>6 DEF Blocks
  <2>2. hard' = DOMAIN m_dict'
    BY <1>1, <1>5, <2>1 DEF Ownership
  <2>3. TypeOK' /\ Sorted(m_heap)'
    BY <1>1, <1>5, <1>6, <2>1 DEF TypeOK, Sorted
  <2>4. Ownership'
    BY <1>4, <1>5, <2>1, <2>2 DEF Ownership
  <2>5. Counted'
    BY <1>5, <2>2 DEF Counted, BlocksWithinPeak
  <2> QED
    BY <2>3, <2>4, <2>5 DEF PoolInductive
<1>7. CASE m_heap # <<>>
  <2> DEFINE at == Position(size)
             old == m_heap[at].ptr
  <2>1. at \in 1 .. Len(m_heap) /\ old \in Blocks(m_heap)
    BY <1>7, PositionInHeap
  <2>2. m_heap' = RemoveAt(m_heap, at) /\ hard' = (hard \ {old}) \union {new}
    BY <1>2, <1>7
  <2> HIDE DEF at
  <2>3. /\ m_heap' \in Seq(Pots) /\ Sorted(m_heap') /\ Apart(m_heap')
        /\ Blocks(m_heap') = Blocks(m_heap) \ {old}
    BY <1>1, <2>1, <2>2, PotTaken DEF TypeOK
  <2> HIDE DEF old
  <2>4. TypeOK'
    BY <1>1, <1>5, <2>3 DEF TypeOK
  <2>5. Ownership'
    BY <1>1, <1>4, <1>5, <2>1, <2>2, <2>3 DEF Ownership, Apart
  <2>6. Counted'
    <3>1. old \in hard
      BY <1>1, <2>1 DEF Ownership
    <3>2. IsFiniteSet(hard') /\ Cardinality(hard') <= peak
      BY <2>2, <3>1, OneForAnother
    <3>3. Cardinality(hard') \in Nat
      BY <3>2, FS_CardinalityType
    <3> QED
      BY <1>1, <1>5, <3>2, <3>3 DEF Counted, BlocksWithinPeak, TypeOK
  <2> QED
    BY <2>3, <2>4, <2>5, <2>6 DEF PoolInductive
<1> QED
  BY <1>6, <1>7

LEMMA OutOfMemoryKeeps ==
    ASSUME PoolInductive, NEW size \in Nat, OutOfMemory(size)
    PROVE  PoolInductive'
<1>1. TypeOK /\ Ownership /\ Counted /\ Sorted(m_heap) /\ Apart(m_heap)
  BY DEF PoolInductive, Ownership, Apart
<1> DEFINE at == Position(size)
           old == m_heap[at].ptr
<1>2. /\ m_heap # <<>> /\ m_heap' = RemoveAt(m_heap, at) /\ hard' = hard \ {old}
      /\ ~m_deprecated /\ UNCHANGED <<m_dict, m_deprecated, wanted, peak>>
  BY DEF OutOfMemory
<1>3. at \in 1 .. Len(m_heap) /\ old \in Blocks(m_heap)
  BY <1>2, PositionInHeap
<1> HIDE DEF at
<1>4. /\ m_heap' \in Seq(Pots) /\ Sorted(m_heap') /\ Apart(m_heap')
      /\ Blocks(m_heap') = Blocks(m_heap) \ {old}
  BY <1>1, <1>2, <1>3, PotTaken DEF TypeOK
<1> HIDE DEF old
<1>5. TypeOK'
  BY <1>1, <1>2, <1>4 DEF TypeOK
<1>6. Ownership'
  BY <1>1, <1>2, <1>3, <1>4 DEF Ownership, Apart
<1>7. Counted'
  <2>1. IsFiniteSet(hard') /\ Cardinality(hard') <= peak
    BY <1>2, FewerBlocks
  <2> QED
    BY <1>1, <1>2, <2>1 DEF Counted, BlocksWithinPeak
<1> QED
  BY <1>4, <1>5, <1>6, <1>7 DEF PoolInductive

LEMMA FreeKeeps ==
    ASSUME PoolInductive, NEW ptr \in DOMAIN m_dict, free(ptr)
    PROVE  PoolInductive'
<1>1. TypeOK /\ Ownership /\ Counted /\ Sorted(m_heap) /\ Apart(m_heap)
  BY DEF PoolInductive, Ownership, Apart
<1>2. /\ m_dict' = Without(m_dict, ptr) /\ wanted' = Without(wanted, ptr)
      /\ UNCHANGED <<m_deprecated, peak>>
  BY DEF free
<1>3. /\ DOMAIN m_dict' = DOMAIN m_dict \ {ptr} /\ DOMAIN wanted' = DOMAIN m_dict'
      /\ \A p \in DOMAIN m_dict' :
           /\ m_dict'[p] \in Pots /\ m_dict'[p].ptr = p /\ wanted'[p] \in Nat
           /\ m_dict'[p].capacity >= wanted'[p]
      /\ DOMAIN m_dict' \subseteq Addresses
      /\ Cardinality(DOMAIN m_dict') <= peak'
  BY <1>2, Forgotten
<1>4. m_dict[ptr] \in Pots /\ m_dict[ptr].ptr = ptr /\ ptr \notin Blocks(m_heap)
  BY <1>1 DEF TypeOK, Ownership
<1>5. CASE m_deprecated
  <2>1. hard' = hard \ {ptr} /\ m_heap' = m_heap /\ m_heap = <<>> /\ Blocks(m_heap) = {}
    BY <1>1, <1>5 DEF free, Ownership, Blocks
  <2>2. Blocks(m_heap') = {} /\ hard' = DOMAIN m_dict'
    BY <1>1, <1>3, <2>1 DEF Ownership
  <2>3. TypeOK' /\ Sorted(m_heap)'
    BY <1>1, <1>2, <1>3, <2>1 DEF TypeOK
  <2>4. Ownership'
    BY <1>3, <2>1, <2>2 DEF Ownership
  <2>5. Counted'
    <3>1. IsFiniteSet(hard') /\ Cardinality(hard') <= peak
      BY <2>1, FewerBlocks
    <3> QED
      BY <1>2, <1>3, <3>1 DEF Counted, BlocksWithinPeak
  <2> QED
    BY <2>3, <2>4, <2>5 DEF PoolInductive
<1>6. CASE ~m_deprecated
  <2> DEFINE pot == m_dict[ptr]
  <2>1. m_heap' = InsertAt(m_heap, binary_find(m_heap, pot.capacity) + 1, pot) /\ hard' = hard
    BY <1>6 DEF free, Position
  <2>2. pot \in Pots /\ pot.ptr = ptr
    BY <1>4
  <2> HIDE DEF pot
  <2>3. /\ m_heap' \in Seq(Pots) /\ Sorted(m_heap') /\ Apart(m_heap')
        /\ Blocks(m_heap') = Blocks(m_heap) \union {ptr}
    BY <1>1, <1>4, <2>1, <2>2, PotReturned DEF TypeOK
  <2>4. TypeOK'
    BY <1>1, <1>2, <1>3, <2>3 DEF TypeOK
  <2>5. Ownership'
    BY <1>1, <1>2, <1>3, <1>4, <1>6, <2>1, <2>3 DEF Ownership, Apart
  <2>6. Counted'
    <3>1. IsFiniteSet(hard) /\ Cardinality(hard) <= peak
      BY FewerBlocks
    <3> QED
      BY <1>2, <1>3, <2>1, <3>1 DEF Counted, BlocksWithinPeak
  <2> QED
    BY <2>3, <2>4, <2>5, <2>6 DEF PoolInductive
<1> QED
  BY <1>5, <1>6

LEMMA DeprecatedKeeps ==
    ASSUME PoolInductive, deprecated
    PROVE  PoolInductive'
<1>1. TypeOK /\ Ownership /\ Counted
  BY DEF PoolInductive
<1>2. /\ m_deprecated' = TRUE /\ m_heap' = <<>> /\ hard' = hard \ Blocks(m_heap)
      /\ UNCHANGED <<m_dict, wanted, peak>>
  BY DEF deprecated
<1>3. Blocks(m_heap') = {} /\ hard' = DOMAIN m_dict
  <2>1. Blocks(m_heap') = {}
    BY <1>2 DEF Blocks
  <2> QED
    BY <1>1, <1>2, <2>1 DEF Ownership
<1>4. TypeOK' /\ Sorted(m_heap)'
  BY <1>1, <1>2 DEF TypeOK, Sorted
<1>5. Ownership'
  BY <1>1, <1>2, <1>3 DEF Ownership
<1>6. Counted'
  <2>1. IsFiniteSet(hard') /\ Cardinality(hard') <= peak
    BY <1>2, FewerBlocks
  <2> QED
    BY <1>1, <1>2, <2>1 DEF Counted, BlocksWithinPeak
<1> QED
  BY <1>4, <1>5, <1>6 DEF PoolInductive

LEMMA PoolInductiveAlways == Spec => []PoolInductive
<1>1. Init => PoolInductive
  <2> SUFFICES ASSUME Init  PROVE PoolInductive
    OBVIOUS
  <2>1. /\ m_heap = <<>> /\ DOMAIN m_dict = {} /\ DOMAIN wanted = {} /\ hard = {} /\ peak = 0
        /\ m_deprecated = FALSE
    BY DEF Init
  <2>2. Blocks(m_heap) = {} /\ Len(m_heap) = 0 /\ m_heap \in Seq(Pots) /\ DOMAIN m_heap = {}
    BY <2>1 DEF Blocks
  <2>3. IsFiniteSet({}) /\ Cardinality({}) = 0
    BY FS_EmptySet
  <2>4. TypeOK
    BY <2>1, <2>2 DEF TypeOK
  <2>5. Sorted(m_heap)
    BY <2>2 DEF Sorted
  <2>6. Ownership
    BY <2>1, <2>2 DEF Ownership
  <2>7. Counted
    BY <2>1, <2>3 DEF Counted, BlocksWithinPeak
  <2> QED
    BY <2>4, <2>5, <2>6, <2>7 DEF PoolInductive
<1>2. PoolInductive /\ [Next]_vars => PoolInductive'
  <2> SUFFICES ASSUME PoolInductive, [Next]_vars  PROVE PoolInductive'
    OBVIOUS
  <2>1. ASSUME NEW size \in Sizes, alloc(size)
        PROVE  PoolInductive'
    <3>1. size \in Nat
      BY VatAssumption
    <3>2. Reuse(size) \/ Grow(size) \/ OutOfMemory(size)
      BY <2>1 DEF alloc
    <3> QED
      BY <3>1, <3>2, ReuseKeeps, GrowKeeps, OutOfMemoryKeeps
  <2>2. CASE Stop \/ UNCHANGED vars
    <3>1. UNCHANGED <<m_heap, m_dict, m_deprecated, hard, wanted, peak>>
      BY <2>2 DEF Stop, vars
    <3>2. TypeOK /\ Sorted(m_heap) /\ Ownership /\ Counted
      BY DEF PoolInductive
    <3>3. TypeOK'
      BY <3>1, <3>2 DEF TypeOK
    <3>4. Ownership' /\ Sorted(m_heap)'
      BY <3>1, <3>2 DEF Ownership
    <3>5. Counted'
      BY <3>1, <3>2 DEF Counted, BlocksWithinPeak
    <3> QED
      BY <3>3, <3>4, <3>5 DEF PoolInductive
  <2> QED
    BY <2>1, <2>2, FreeKeeps, DeprecatedKeeps DEF Next
<1> QED
  BY <1>1, <1>2, PTL DEF Spec

-----------------------------------------------------------------------------
(***************************************************************************)
(* Ownership for any addresses and sizes: no block is given out twice or   *)
(* lost, and each is as large as was asked for, whether the controller is  *)
(* destroyed before its memories or after.                                 *)
(***************************************************************************)
THEOREM NoBlockIsLostOrShared == Spec => []Ownership
<1>1. PoolInductive => Ownership
  BY DEF PoolInductive
<1> QED
  BY <1>1, PoolInductiveAlways, PTL

(***************************************************************************)
(* BlocksWithinPeak for any addresses and sizes: the pool of flow memory   *)
(* never needs more blocks than were in use at a time.                     *)
(***************************************************************************)
THEOREM PoolWithinPeak == Spec => []BlocksWithinPeak
<1>1. PoolInductive => BlocksWithinPeak
  BY DEF PoolInductive, Counted
<1> QED
  BY <1>1, PoolInductiveAlways, PTL

(***************************************************************************)
(* GrowsOnlyIfNoneFits for any addresses and sizes: although the heap is   *)
(* not sorted, binary_find misses no pot that is large enough.             *)
(***************************************************************************)
THEOREM NoFitIsMissed == Spec => GrowsOnlyIfNoneFits
<1> DEFINE Fits == \A new \in hard' \ hard : \A i \in DOMAIN m_heap :
                      m_heap[i].capacity < m_dict'[new].capacity
<1>1. ASSUME PoolInductive, NEW size \in Nat, Grow(size)
      PROVE  Fits
  <2>1. TypeOK /\ Ownership /\ Sorted(m_heap)
    BY <1>1 DEF PoolInductive
  <2>2. PICK n \in Addresses \ hard :
          /\ Keep([ptr |-> n, capacity |-> size], size)
          /\ IF m_heap = <<>> THEN m_heap' = <<>> /\ hard' = hard \union {n}
             ELSE /\ m_heap' = RemoveAt(m_heap, Position(size))
                  /\ hard' = (hard \ {m_heap[Position(size)].ptr}) \union {n}
    BY <1>1 DEF Grow
  <2>3. \A new \in hard' \ hard : new = n
    BY <2>2
  <2>4. m_dict'[n].capacity = size
    <3>1. m_dict'[n] = [ptr |-> n, capacity |-> size]
      BY <2>2 DEF Keep, With
    <3> QED
      BY <3>1
  <2>5. ASSUME m_heap # <<>>, NEW i \in DOMAIN m_heap
        PROVE  m_heap[i].capacity < size
    <3> DEFINE found == binary_find(m_heap, size)
    <3>1. FirstFit(m_heap, size, found)
      BY <2>1, <2>5, FindsFirstFit DEF TypeOK
    <3>2. m_heap[found + 1].capacity < size
      BY <1>1, <2>5 DEF Grow, Position
    <3> HIDE DEF found
    <3>3. Len(m_heap) \in Nat /\ i \in 1 .. Len(m_heap) /\ found \in 0 .. (Len(m_heap) - 1)
      BY <2>1, <3>1 DEF TypeOK, FirstFit
    <3>4. Capacity(m_heap, found) < size /\ Capacity(m_heap, found) \in Nat
      BY <2>1, <3>2, <3>3, CapacityTyped DEF Capacity, TypeOK
    <3>5. found = Len(m_heap) - 1
      BY <3>1, <3>3, <3>4 DEF FirstFit
    <3>6. i - 1 \in 0 .. found /\ (i - 1) + 1 = i
      BY <3>3, <3>5
    <3>7. Capacity(m_heap, i - 1) < size
      BY <3>1, <3>3, <3>4, <3>5, <3>6 DEF FirstFit
    <3> QED
      BY <3>6, <3>7 DEF Capacity
  <2> QED
    BY <2>3, <2>4, <2>5
<1>2. ASSUME NEW size, Reuse(size) \/ OutOfMemory(size)
      PROVE  Fits
  BY <1>2 DEF Reuse, OutOfMemory
<1>3. PoolInductive /\ [Next]_vars => [Fits]_vars
  <2> SUFFICES ASSUME PoolInductive, Next  PROVE Fits
    OBVIOUS
  <2>1. ASSUME NEW size \in Sizes, alloc(size)
        PROVE  Fits
    BY <1>1, <1>2, <2>1, VatAssumption DEF alloc
  <2>2. ASSUME NEW ptr, free(ptr)
        PROVE  Fits
    BY <2>2 DEF free
  <2>3. CASE deprecated \/ Stop
    BY <2>3 DEF deprecated, Stop, vars
  <2> HIDE DEF Fits
  <2> QED
    BY <2>1, <2>2, <2>3 DEF Next
<1> QED
  BY <1>3, PoolInductiveAlways, PTL DEF Spec, GrowsOnlyIfNoneFits

=============================================================================
