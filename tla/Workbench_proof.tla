---------------------------- MODULE Workbench_proof ----------------------------
(***************************************************************************)
(* Proofs about Workbench, for any compiled programs, filters and inputs,  *)
(* and operators that may throw anywhere: the tensors that were on the     *)
(* stack stay there, and outputs are what the programs compute.            *)
(***************************************************************************)
EXTENDS Workbench, SequenceTheorems, WellFoundedInduction, TLAPS

-----------------------------------------------------------------------------
(***************************************************************************)
(* Sequences of whatever: tensors are terms, and there is no set of them.  *)
(***************************************************************************)
IsSequence(s) == s \in Seq(Range(s))

LEMMA InSeq ==
    ASSUME NEW S, NEW s \in Seq(S)
    PROVE  IsSequence(s) /\ Range(s) \subseteq S
BY SeqOfRange, RangeOfSeq DEF IsSequence

LEMMA SequenceFacts ==
    ASSUME NEW s, IsSequence(s)
    PROVE  /\ Len(s) \in Nat /\ DOMAIN s = 1 .. Len(s)
           /\ Len(s) = 0 <=> s = <<>>
           /\ \A S : Range(s) \subseteq S => s \in Seq(S)
<1>1. Len(s) \in Nat /\ DOMAIN s = 1 .. Len(s)
  BY LenProperties DEF IsSequence
<1>2. Len(s) = 0 <=> s = <<>>
  BY EmptySeq DEF IsSequence
<1> QED
  BY <1>1, <1>2, SeqMonotonic DEF IsSequence

\* A function on 1 .. n is a sequence.
LEMMA FunctionIsSequence ==
    ASSUME NEW n \in Nat, NEW s, DOMAIN s = 1 .. n, s = [i \in DOMAIN s |-> s[i]]
    PROVE  IsSequence(s) /\ Len(s) = n
<1>1. \A i \in DOMAIN s : s[i] \in Range(s)
  BY DEF Range
<1>2. s \in [1 .. n -> Range(s)]
  BY <1>1
<1>3. s \in Seq(Range(s))
  BY <1>2, SeqDef
<1> QED
  BY <1>3, LenProperties DEF IsSequence

LEMMA SameSequence ==
    ASSUME NEW s, NEW t, IsSequence(s), IsSequence(t), Len(s) = Len(t),
           \A i \in 1 .. Len(s) : s[i] = t[i]
    PROVE  s = t
<1> DEFINE S == Range(s) \union Range(t)
<1>1. s \in Seq(S) /\ t \in Seq(S)
  BY SequenceFacts
<1> HIDE DEF S
<1> QED
  BY <1>1, SeqEqual

LEMMA Joined ==
    ASSUME NEW s, NEW t, IsSequence(s), IsSequence(t)
    PROVE  /\ IsSequence(s \o t) /\ Len(s \o t) = Len(s) + Len(t)
           /\ \A i \in 1 .. Len(s) : (s \o t)[i] = s[i]
           /\ \A i \in 1 .. Len(t) : (s \o t)[Len(s) + i] = t[i]
<1> DEFINE S == Range(s) \union Range(t)
<1>1. s \in Seq(S) /\ t \in Seq(S)
  BY SequenceFacts
<1> HIDE DEF S
<1>2. /\ s \o t \in Seq(S) /\ Len(s \o t) = Len(s) + Len(t)
      /\ \A i \in 1 .. Len(s) + Len(t) :
            (s \o t)[i] = IF i <= Len(s) THEN s[i] ELSE t[i - Len(s)]
  BY <1>1, ConcatProperties
<1>3. Len(s) \in Nat /\ Len(t) \in Nat
  BY SequenceFacts
<1>4. ASSUME NEW i \in 1 .. Len(t)  PROVE (s \o t)[Len(s) + i] = t[i]
  <2>1. Len(s) + i \in 1 .. Len(s) + Len(t) /\ ~(Len(s) + i <= Len(s)) /\ (Len(s) + i) - Len(s) = i
    BY <1>3
  <2> QED
    BY <1>2, <2>1
<1>5. ASSUME NEW i \in 1 .. Len(s)  PROVE (s \o t)[i] = s[i]
  BY <1>2, <1>3
<1>6. IsSequence(s \o t)
  BY <1>2, InSeq
<1> QED
  BY <1>2, <1>4, <1>5, <1>6

LEMMA Extended ==
    ASSUME NEW s, NEW x, IsSequence(s)
    PROVE  /\ IsSequence(Append(s, x)) /\ Len(Append(s, x)) = Len(s) + 1
           /\ \A i \in 1 .. Len(s) : Append(s, x)[i] = s[i]
           /\ Append(s, x)[Len(s) + 1] = x
           /\ Append(s, x) = s \o <<x>>
           /\ Append(s, x) # <<>>
<1> DEFINE S == Range(s) \union {x}
<1>1. s \in Seq(S) /\ x \in S
  BY SequenceFacts
<1> HIDE DEF S
<1>2. /\ Append(s, x) \in Seq(S) /\ Append(s, x) # <<>> /\ Len(Append(s, x)) = Len(s) + 1
      /\ \A i \in 1 .. Len(s) : Append(s, x)[i] = s[i]
      /\ Append(s, x)[Len(s) + 1] = x
  BY <1>1, AppendProperties
<1>3. Append(s, x) = s \o <<x>>
  BY <1>1, AppendIsConcat
<1>4. IsSequence(Append(s, x))
  BY <1>2, InSeq
<1> QED
  BY <1>2, <1>3, <1>4

LEMMA Single ==
    ASSUME NEW x
    PROVE  IsSequence(<<x>>) /\ Len(<<x>>) = 1 /\ <<x>>[1] = x
<1>1. <<x>> \in Seq({x})
  OBVIOUS
<1> QED
  BY <1>1, InSeq

LEMMA Nothing == IsSequence(<<>>) /\ Len(<<>>) = 0
<1>1. <<>> \in Seq({})
  BY EmptySeq
<1> QED
  BY <1>1, InSeq, EmptySeq

\* The cells from m to n
LEMMA Part ==
    ASSUME NEW s, IsSequence(s), NEW m \in Nat \ {0}, NEW n \in 0 .. Len(s), m <= n + 1
    PROVE  /\ IsSequence(SubSeq(s, m, n)) /\ Len(SubSeq(s, m, n)) = n - m + 1
           /\ \A i \in 1 .. n - m + 1 : SubSeq(s, m, n)[i] = s[m + i - 1]
<1>1. Len(s) \in Nat
  BY SequenceFacts
<1>2. \A i \in m .. n : s[i] \in Range(s)
  BY <1>1, ElementOfSeq DEF IsSequence
<1>3. /\ SubSeq(s, m, n) \in Seq(Range(s))
      /\ Len(SubSeq(s, m, n)) = IF m <= n THEN n - m + 1 ELSE 0
      /\ \A i \in 1 .. n - m + 1 : SubSeq(s, m, n)[i] = s[m + i - 1]
  BY <1>1, <1>2, SubSeqProperties
<1>4. (IF m <= n THEN n - m + 1 ELSE 0) = n - m + 1
  BY <1>1
<1> QED
  BY <1>3, <1>4, InSeq

LEMMA JoinAssociative ==
    ASSUME NEW s, NEW t, NEW u, IsSequence(s), IsSequence(t), IsSequence(u)
    PROVE  (s \o t) \o u = s \o (t \o u)
<1> DEFINE S == Range(s) \union Range(t) \union Range(u)
<1>1. s \in Seq(S) /\ t \in Seq(S) /\ u \in Seq(S)
  BY SequenceFacts
<1> HIDE DEF S
<1> QED
  BY <1>1, ConcatAssociative

\* The same, in a form that is cited as it stands
Associates(s, t, u) == (s \o t) \o u = s \o (t \o u)

LEMMA JoinAssociates ==
    ASSUME NEW s, NEW t, NEW u, IsSequence(s), IsSequence(t), IsSequence(u)
    PROVE  Associates(s, t, u)
BY JoinAssociative, SMTT(30) DEF Associates

LEMMA JoinNothing ==
    ASSUME NEW s, IsSequence(s)
    PROVE  s \o <<>> = s /\ <<>> \o s = s
BY ConcatEmptySeq DEF IsSequence

LEMMA ExtendJoined ==
    ASSUME NEW s, NEW t, NEW x, IsSequence(s), IsSequence(t)
    PROVE  Append(s \o t, x) = s \o Append(t, x)
<1>1. Append(s \o t, x) = (s \o t) \o <<x>>
  BY Joined, Extended
<1>2. Append(t, x) = t \o <<x>>
  BY Extended
<1>3. (s \o t) \o <<x>> = s \o (t \o <<x>>)
  <2> DEFINE one == <<x>>
  <2>1. IsSequence(one)
    BY Single
  <2> HIDE DEF one
  <2>2. (s \o t) \o one = s \o (t \o one)
    BY <2>1, JoinAssociative
  <2> QED
    BY <2>2 DEF one
<1> QED
  BY <1>1, <1>2, <1>3

\* A sequence falls in two at any place, in one way.
LEMMA PartsOfJoined ==
    ASSUME NEW s, NEW t, IsSequence(s), IsSequence(t)
    PROVE  /\ SubSeq(s \o t, 1, Len(s)) = s
           /\ SubSeq(s \o t, Len(s) + 1, Len(s \o t)) = t
<1>1. Len(s) \in Nat /\ Len(t) \in Nat
  BY SequenceFacts
<1>2. /\ IsSequence(s \o t) /\ Len(s \o t) = Len(s) + Len(t)
      /\ \A i \in 1 .. Len(s) : (s \o t)[i] = s[i]
      /\ \A i \in 1 .. Len(t) : (s \o t)[Len(s) + i] = t[i]
  BY Joined
<1> DEFINE u == s \o t  m == Len(s)  n == Len(s) + Len(t)
           a == SubSeq(u, 1, m)  b == SubSeq(u, m + 1, n)
<1>3. IsSequence(a) /\ Len(a) = m - 1 + 1 /\ \A i \in 1 .. m - 1 + 1 : a[i] = u[1 + i - 1]
  <2>1. IsSequence(u) /\ 1 \in Nat \ {0} /\ m \in 0 .. Len(u) /\ 1 <= m + 1
    BY <1>1, <1>2
  <2> HIDE DEF u, m
  <2> QED
    BY <2>1, Part
<1>4. /\ IsSequence(b) /\ Len(b) = n - (m + 1) + 1
      /\ \A i \in 1 .. n - (m + 1) + 1 : b[i] = u[(m + 1) + i - 1]
  <2>1. IsSequence(u) /\ m + 1 \in Nat \ {0} /\ n \in 0 .. Len(u) /\ m + 1 <= n + 1
    BY <1>1, <1>2
  <2> HIDE DEF u, m, n
  <2> QED
    BY <2>1, Part
<1> HIDE DEF a, b
<1>5. a = s
  <2>1. Len(a) = Len(s) /\ \A i \in 1 .. Len(a) : a[i] = s[i]
    BY <1>1, <1>2, <1>3 DEF u
  <2> QED
    BY <1>3, <2>1, SameSequence
<1>6. b = t
  <2>1. Len(b) = Len(t)
    BY <1>1, <1>4
  <2>2. ASSUME NEW i \in 1 .. Len(b)  PROVE b[i] = t[i]
    <3>1. i \in 1 .. (Len(s) + Len(t)) - (Len(s) + 1) + 1 /\ (Len(s) + 1) + i - 1 = Len(s) + i /\ i \in 1 .. Len(t)
      BY <1>1, <2>1
    <3> QED
      BY <1>2, <1>4, <3>1 DEF u
  <2> QED
    BY <1>4, <2>1, <2>2, SameSequence
<1> QED
  BY <1>2, <1>5, <1>6 DEF a, b, u

LEMMA Split ==
    ASSUME NEW s, IsSequence(s), NEW n \in 0 .. Len(s)
    PROVE  /\ IsSequence(SubSeq(s, 1, n)) /\ Len(SubSeq(s, 1, n)) = n
           /\ IsSequence(SubSeq(s, n + 1, Len(s))) /\ Len(SubSeq(s, n + 1, Len(s))) = Len(s) - n
           /\ s = SubSeq(s, 1, n) \o SubSeq(s, n + 1, Len(s))
<1>1. Len(s) \in Nat
  BY SequenceFacts
<1>2. IsSequence(SubSeq(s, 1, n)) /\ Len(SubSeq(s, 1, n)) = n - 1 + 1
  BY <1>1, Part
<1>3. IsSequence(SubSeq(s, n + 1, Len(s))) /\ Len(SubSeq(s, n + 1, Len(s))) = Len(s) - (n + 1) + 1
  BY <1>1, Part
<1>4. SubSeq(s, 1, n) \o SubSeq(s, n + 1, Len(s)) = SubSeq(s, 1, Len(s))
  <2>1. /\ 1 \in 1 .. Len(s) + 1 /\ n \in 1 - 1 .. Len(s) /\ Len(s) \in n .. Len(s)
    BY <1>1
  <2> QED
    BY <2>1, ConcatAdjacentSubSeq DEF IsSequence
<1>5. SubSeq(s, 1, Len(s)) = s
  BY SubSeqFull DEF IsSequence
<1>6. n - 1 + 1 = n /\ Len(s) - (n + 1) + 1 = Len(s) - n
  BY <1>1
<1> QED
  BY <1>2, <1>3, <1>4, <1>5, <1>6, Zenon

\* The call stack: what is on it, and what lies below
LEMMA LastExtended ==
    ASSUME NEW s, NEW x, IsSequence(s)
    PROVE  Last(Append(s, x)) = x /\ Front(Append(s, x)) = s
<1>1. /\ Append(s, x) = s \o <<x>> /\ Append(s, x)[Len(s) + 1] = x
      /\ Len(Append(s, x)) = Len(s) + 1 /\ Len(s) \in Nat
  BY Extended, SequenceFacts
<1>2. SubSeq(s \o <<x>>, 1, Len(s)) = s
  BY Single, PartsOfJoined
<1>3. Last(Append(s, x)) = x
  BY <1>1 DEF Last
<1>4. Front(Append(s, x)) = s
  <2>1. Len(Append(s, x)) - 1 = Len(s)
    BY <1>1
  <2> QED
    BY <1>1, <1>2, <2>1, Zenon DEF Front
<1> QED
  BY <1>3, <1>4

LEMMA FrontAndLast ==
    ASSUME NEW s, IsSequence(s), s # <<>>
    PROVE  s = Append(Front(s), Last(s)) /\ IsSequence(Front(s)) /\ Len(Front(s)) = Len(s) - 1
<1> DEFINE n == Len(s) - 1  left == SubSeq(s, 1, n)  right == SubSeq(s, n + 1, Len(s))
<1>1. Len(s) \in Nat /\ n \in 0 .. Len(s) /\ Len(s) = n + 1
  BY SequenceFacts
<1> HIDE DEF n
<1>2. /\ IsSequence(left) /\ Len(left) = n /\ IsSequence(right) /\ Len(right) = Len(s) - n
      /\ s = left \o right
  BY <1>1, Split
<1> HIDE DEF left, right
<1>3. right = <<Last(s)>>
  <2>1. s[n + 1] = right[1]
    <3>1. \A i \in 1 .. Len(right) : (left \o right)[Len(left) + i] = right[i]
      BY <1>2, Joined
    <3> QED
      BY <1>1, <1>2, <3>1
  <2>2. Last(s) = right[1]
    BY <1>1, <2>1 DEF Last
  <2>3. Len(right) = 1
    BY <1>1, <1>2
  <2> DEFINE t == <<Last(s)>>
  <2>4. IsSequence(t) /\ Len(t) = 1 /\ t[1] = Last(s)
    BY Single
  <2> HIDE DEF t
  <2>5. right = t
    BY <1>2, <2>2, <2>3, <2>4, SameSequence
  <2> QED
    BY <2>5 DEF t
<1>4. Front(s) = left
  BY DEF Front, left, n
<1>5. Append(left, Last(s)) = left \o <<Last(s)>>
  BY <1>2, Extended
<1>6. s = Append(left, Last(s))
  BY <1>2, <1>3, <1>5
<1> QED
  BY <1>1, <1>2, <1>4, <1>6

LEMMA LastReplaced ==
    ASSUME NEW s, NEW x, NEW y, IsSequence(s)
    PROVE  [Append(s, x) EXCEPT ![Len(Append(s, x))] = y] = Append(s, y)
<1> DEFINE t == Append(s, x)  u == [t EXCEPT ![Len(t)] = y]
<1>1. /\ IsSequence(t) /\ Len(t) = Len(s) + 1 /\ Len(s) \in Nat /\ DOMAIN t = 1 .. Len(s) + 1
      /\ \A i \in 1 .. Len(s) : t[i] = s[i]
  <2>1. /\ IsSequence(t) /\ Len(t) = Len(s) + 1
        /\ \A i \in 1 .. Len(s) : t[i] = s[i]
    BY Extended
  <2> HIDE DEF t
  <2>2. Len(s) \in Nat /\ DOMAIN t = 1 .. Len(t)
    BY <2>1, SequenceFacts
  <2> QED
    BY <2>1, <2>2
<1>2. /\ IsSequence(Append(s, y)) /\ Len(Append(s, y)) = Len(s) + 1
      /\ \A i \in 1 .. Len(s) : Append(s, y)[i] = s[i]
      /\ Append(s, y)[Len(s) + 1] = y
  BY Extended
<1> HIDE DEF t
<1>3. DOMAIN u = 1 .. Len(s) + 1 /\ u = [i \in DOMAIN u |-> u[i]]
  BY <1>1
<1>4. \A i \in 1 .. Len(s) + 1 : u[i] = IF i = Len(s) + 1 THEN y ELSE t[i]
  BY <1>1
<1> HIDE DEF u
<1>5. IsSequence(u) /\ Len(u) = Len(s) + 1
  BY <1>1, <1>3, FunctionIsSequence
<1>6. \A i \in 1 .. Len(u) : u[i] = Append(s, y)[i]
  BY <1>1, <1>2, <1>4, <1>5
<1>7. u = Append(s, y)
  BY <1>2, <1>5, <1>6, SameSequence
<1> QED
  BY <1>7 DEF u, t

-----------------------------------------------------------------------------
(***************************************************************************)
(* The operators of the stack on a frame are what they are on the cells of *)
(* the frame alone, whatever lies below.                                   *)
(***************************************************************************)
LEMMA AbsoluteInFrame ==
    ASSUME NEW floor, NEW cells, IsSequence(floor), IsSequence(cells), NEW i \in Int
    PROVE  Absolute(floor \o cells, Len(floor), i) = Len(floor) + Absolute(cells, 0, i)
<1>1. Len(floor \o cells) = Len(floor) + Len(cells) /\ Len(floor) \in Nat /\ Len(cells) \in Nat
  BY Joined, SequenceFacts
<1> QED
  BY <1>1 DEF Absolute

LEMMA CellInFrame ==
    ASSUME NEW floor, NEW cells, IsSequence(floor), IsSequence(cells), NEW i \in Int,
           Valid(cells, 0, i)
    PROVE  /\ Cell(floor \o cells, Len(floor), i) = Cell(cells, 0, i)
           /\ Absolute(cells, 0, i) + 1 \in 1 .. Len(cells)
           /\ Cell(cells, 0, i) = cells[Absolute(cells, 0, i) + 1]
<1> DEFINE k == Absolute(cells, 0, i)
<1>1. Absolute(floor \o cells, Len(floor), i) = Len(floor) + k
  BY AbsoluteInFrame
<1>2. k \in 0 .. Len(cells) - 1 /\ Len(cells) \in Nat /\ Len(floor) \in Nat
  BY SequenceFacts DEF Valid
<1> HIDE DEF k
<1>3. k + 1 \in 1 .. Len(cells) /\ (Len(floor) + k) + 1 = Len(floor) + (k + 1)
  BY <1>2
<1>4. (floor \o cells)[Len(floor) + (k + 1)] = cells[k + 1]
  BY <1>3, Joined
<1> QED
  BY <1>1, <1>3, <1>4 DEF Cell, k

LEMMA PushInFrame ==
    ASSUME NEW floor, NEW cells, IsSequence(floor), IsSequence(cells), NEW i \in Int,
           Valid(cells, 0, i)
    PROVE  PushIndex(floor \o cells, Len(floor), i) = floor \o PushIndex(cells, 0, i)
<1>1. Cell(floor \o cells, Len(floor), i) = Cell(cells, 0, i)
  BY CellInFrame
<1> QED
  BY <1>1, ExtendJoined DEF PushIndex

\* Two cells are replaced by two values.
Replaced(s, i, x, j, y) == [s EXCEPT ![i] = x, ![j] = y]

LEMMA TwoReplaced ==
    ASSUME NEW s, IsSequence(s), NEW i \in 1 .. Len(s), NEW j \in 1 .. Len(s), NEW x, NEW y
    PROVE  /\ IsSequence(Replaced(s, i, x, j, y))
           /\ Len(Replaced(s, i, x, j, y)) = Len(s)
           /\ \A k \in 1 .. Len(s) : Replaced(s, i, x, j, y)[k] =
                 IF k = j THEN y ELSE IF k = i THEN x ELSE s[k]
<1> DEFINE t == [s EXCEPT ![i] = x]  u == [t EXCEPT ![j] = y]
<1>1. Len(s) \in Nat /\ DOMAIN s = 1 .. Len(s)
  BY SequenceFacts
<1>2. Replaced(s, i, x, j, y) = u
  BY DEF Replaced
<1>3. DOMAIN u = 1 .. Len(s) /\ u = [k \in DOMAIN u |-> u[k]]
  BY <1>1
<1>4. \A k \in 1 .. Len(s) : u[k] = IF k = j THEN y ELSE IF k = i THEN x ELSE s[k]
  BY <1>1
<1> HIDE DEF u
<1>5. IsSequence(u) /\ Len(u) = Len(s)
  BY <1>1, <1>3, FunctionIsSequence
<1> QED
  BY <1>2, <1>4, <1>5

LEMMA SwapInFrame ==
    ASSUME NEW floor, NEW cells, IsSequence(floor), IsSequence(cells), NEW i \in Int, NEW j \in Int,
           Valid(cells, 0, i), Valid(cells, 0, j)
    PROVE  /\ Swap(floor \o cells, Len(floor), i, j) = floor \o Swap(cells, 0, i, j)
           /\ IsSequence(Swap(cells, 0, i, j)) /\ Len(Swap(cells, 0, i, j)) = Len(cells)
<1> DEFINE m == Absolute(cells, 0, i) + 1  n == Absolute(cells, 0, j) + 1  f == Len(floor)
           x == Cell(cells, 0, j)  y == Cell(cells, 0, i)
           s == Replaced(cells, m, x, n, y)
           t == Replaced(floor \o cells, f + m, x, f + n, y)
<1>1. m \in 1 .. Len(cells) /\ n \in 1 .. Len(cells) /\ f \in Nat /\ Len(cells) \in Nat
  BY CellInFrame, SequenceFacts
<1>2. Cell(floor \o cells, f, i) = y /\ Cell(floor \o cells, f, j) = x
  BY CellInFrame
<1>3. Absolute(floor \o cells, f, i) + 1 = f + m /\ Absolute(floor \o cells, f, j) + 1 = f + n
  <2>1. Absolute(cells, 0, i) \in Int /\ Absolute(cells, 0, j) \in Int
    BY DEF Valid
  <2>2. /\ Absolute(floor \o cells, Len(floor), i) = Len(floor) + Absolute(cells, 0, i)
        /\ Absolute(floor \o cells, Len(floor), j) = Len(floor) + Absolute(cells, 0, j)
    BY AbsoluteInFrame
  <2>3. Len(floor) \in Nat
    BY <1>1
  <2> QED
    BY ONLY <2>1, <2>2, <2>3 DEF m, n, f
<1>4. Swap(cells, 0, i, j) = s
  BY Zenon DEF Swap, Replaced
<1>5. Swap(floor \o cells, f, i, j) = t
  <2> HIDE DEF x, y, m, n, f
  <2> QED
    BY <1>2, <1>3, Zenon DEF Swap, Replaced
<1> HIDE DEF m, n, x, y
<1>6. /\ IsSequence(floor \o cells) /\ Len(floor \o cells) = f + Len(cells)
      /\ \A k \in 1 .. f : (floor \o cells)[k] = floor[k]
      /\ \A k \in 1 .. Len(cells) : (floor \o cells)[f + k] = cells[k]
  BY Joined
<1>7. /\ IsSequence(s) /\ Len(s) = Len(cells)
      /\ \A k \in 1 .. Len(cells) : s[k] = IF k = n THEN y ELSE IF k = m THEN x ELSE cells[k]
  BY <1>1, TwoReplaced
<1>8. /\ IsSequence(t) /\ Len(t) = f + Len(cells)
      /\ \A k \in 1 .. f + Len(cells) :
            t[k] = IF k = f + n THEN y ELSE IF k = f + m THEN x ELSE (floor \o cells)[k]
  <2>1. f + m \in 1 .. Len(floor \o cells) /\ f + n \in 1 .. Len(floor \o cells)
    BY <1>1, <1>6
  <2>2. IsSequence(floor \o cells)
    BY <1>6
  <2>3. /\ IsSequence(t) /\ Len(t) = Len(floor \o cells)
        /\ \A k \in 1 .. Len(floor \o cells) :
              t[k] = IF k = f + n THEN y ELSE IF k = f + m THEN x ELSE (floor \o cells)[k]
    <3> DEFINE w == floor \o cells  a == f + m  b == f + n
    <3>1. IsSequence(w) /\ a \in 1 .. Len(w) /\ b \in 1 .. Len(w)
      BY <2>1, <2>2
    <3> HIDE DEF w, a, b
    <3>2. /\ IsSequence(Replaced(w, a, x, b, y)) /\ Len(Replaced(w, a, x, b, y)) = Len(w)
          /\ \A k \in 1 .. Len(w) : Replaced(w, a, x, b, y)[k] =
                IF k = b THEN y ELSE IF k = a THEN x ELSE w[k]
      BY <3>1, TwoReplaced
    <3> QED
      BY <3>2 DEF w, a, b
  <2> QED
    BY <1>6, <2>3
<1>9. /\ IsSequence(floor \o s) /\ Len(floor \o s) = f + Len(cells)
      /\ \A k \in 1 .. f : (floor \o s)[k] = floor[k]
      /\ \A k \in 1 .. Len(cells) : (floor \o s)[f + k] = s[k]
  BY <1>7, Joined
<1> HIDE DEF s, t
<1>10. ASSUME NEW k \in 1 .. f + Len(cells)  PROVE t[k] = (floor \o s)[k]
  <2>0. k \in Int /\ f \in Int
    BY <1>1
  <2>1. CASE k <= f
    <3>1. k \in 1 .. f /\ k # f + n /\ k # f + m
      BY <1>1, <2>0, <2>1
    <3> HIDE DEF f
    <3>2. (floor \o cells)[k] = floor[k] /\ (floor \o s)[k] = floor[k]
      BY <1>6, <1>9, <3>1
    <3> QED
      BY <1>8, <3>1, <3>2
  <2>2. CASE k > f
    <3> DEFINE l == k - f
    <3>1. l \in 1 .. Len(cells) /\ k = f + l
      BY <1>1, <2>2
    <3> HIDE DEF l
    <3>2. k = f + n <=> l = n
      BY <1>1, <3>1
    <3>3. k = f + m <=> l = m
      BY <1>1, <3>1
    <3>4. (floor \o cells)[k] = cells[l] /\ (floor \o s)[k] = s[l]
      BY <1>6, <1>9, <3>1
    <3> QED
      BY <1>7, <1>8, <3>1, <3>2, <3>3, <3>4
  <2>3. k <= f \/ k > f
    <3> HIDE DEF f
    <3> QED
      BY <2>0
  <2> QED
    BY <2>1, <2>2, <2>3, Zenon
<1>11. t = floor \o s
  BY <1>8, <1>9, <1>10, SameSequence
<1> QED
  BY <1>4, <1>5, <1>7, <1>11

LEMMA EraseInFrame ==
    ASSUME NEW floor, NEW cells, IsSequence(floor), IsSequence(cells), NEW i \in Int, NEW j \in Int,
           Absolute(cells, 0, i) \in 0 .. Absolute(cells, 0, j), Absolute(cells, 0, j) <= Len(cells)
    PROVE  /\ EraseRange(floor \o cells, Len(floor), i, j) = floor \o EraseRange(cells, 0, i, j)
           /\ IsSequence(EraseRange(cells, 0, i, j))
           /\ Len(EraseRange(cells, 0, i, j)) =
                Len(cells) - (Absolute(cells, 0, j) - Absolute(cells, 0, i))
<1> DEFINE f == Len(floor)  m == Absolute(cells, 0, i)  n == Absolute(cells, 0, j)
           left == SubSeq(cells, 1, m)  right == SubSeq(cells, n + 1, Len(cells))
<1>1. f \in Nat /\ Len(cells) \in Nat
  BY SequenceFacts
<1>2. m \in 0 .. Len(cells) /\ n \in 0 .. Len(cells) /\ m <= n
  BY <1>1 DEF Absolute
<1>3. Absolute(floor \o cells, f, i) = f + m /\ Absolute(floor \o cells, f, j) = f + n
  BY AbsoluteInFrame
<1>4. EraseRange(cells, 0, i, j) = left \o right
  BY Zenon DEF EraseRange
<1>5. EraseRange(floor \o cells, f, i, j)
        = SubSeq(floor \o cells, 1, f + m) \o SubSeq(floor \o cells, (f + n) + 1, Len(floor \o cells))
  BY <1>3, Zenon DEF EraseRange
<1> HIDE DEF m, n
<1>6. /\ IsSequence(left) /\ Len(left) = m /\ IsSequence(SubSeq(cells, m + 1, Len(cells)))
      /\ cells = left \o SubSeq(cells, m + 1, Len(cells))
  BY <1>2, Split
<1>7. /\ IsSequence(right) /\ Len(right) = Len(cells) - n /\ IsSequence(SubSeq(cells, 1, n))
      /\ Len(SubSeq(cells, 1, n)) = n
      /\ cells = SubSeq(cells, 1, n) \o right
  BY <1>2, Split
<1> HIDE DEF left, right
<1>8. SubSeq(floor \o cells, 1, f + m) = floor \o left
  <2> DEFINE rest == SubSeq(cells, m + 1, Len(cells))
  <2>a. IsSequence(floor) /\ IsSequence(left) /\ IsSequence(rest)
    BY <1>6
  <2>b. cells = left \o rest
    BY <1>6
  <2> HIDE DEF rest, f
  <2>0. (floor \o left) \o rest = floor \o (left \o rest)
    <3>1. Associates(floor, left, rest)
      BY ONLY <2>a, JoinAssociates
    <3> QED
      BY <3>1 DEF Associates
  <2>1. floor \o cells = (floor \o left) \o rest
    BY <2>0, <2>b, Zenon
  <2>2. Len(floor \o left) = f + m /\ IsSequence(floor \o left)
    BY <1>6, Joined DEF f
  <2>3. SubSeq((floor \o left) \o rest, 1, Len(floor \o left)) = floor \o left
    BY <2>a, <2>2, PartsOfJoined
  <2> QED
    BY <2>1, <2>2, <2>3
<1>9. SubSeq(floor \o cells, (f + n) + 1, Len(floor \o cells)) = right
  <2> DEFINE first == SubSeq(cells, 1, n)
  <2>a. IsSequence(floor) /\ IsSequence(first) /\ IsSequence(right) /\ Len(first) = n
    BY <1>7
  <2>b. cells = first \o right
    BY <1>7
  <2> HIDE DEF first, f
  <2>0. (floor \o first) \o right = floor \o (first \o right)
    <3>1. Associates(floor, first, right)
      BY ONLY <2>a, JoinAssociates
    <3> QED
      BY <3>1 DEF Associates
  <2>1. floor \o cells = (floor \o first) \o right
    BY <2>0, <2>b, Zenon
  <2>2. Len(floor \o first) = f + n /\ IsSequence(floor \o first)
    BY <2>a, Joined DEF f
  <2>3. SubSeq((floor \o first) \o right, Len(floor \o first) + 1, Len((floor \o first) \o right)) = right
    BY <2>a, <2>2, PartsOfJoined
  <2> QED
    BY <2>1, <2>2, <2>3
<1>10. (floor \o left) \o right = floor \o (left \o right)
  <2>1. IsSequence(floor) /\ IsSequence(left) /\ IsSequence(right)
    BY <1>6, <1>7
  <2>2. Associates(floor, left, right)
    BY ONLY <2>1, JoinAssociates
  <2> QED
    BY <2>2 DEF Associates
<1>11. IsSequence(left \o right) /\ Len(left \o right) = m + (Len(cells) - n)
  BY <1>6, <1>7, Joined
<1>12. m + (Len(cells) - n) = Len(cells) - (n - m)
  BY <1>1, <1>2
<1> QED
  BY <1>4, <1>5, <1>8, <1>9, <1>10, <1>11, <1>12 DEF m, n

-----------------------------------------------------------------------------
(***************************************************************************)
(* One instruction                                                         *)
(***************************************************************************)
LEMMA Fields ==
    ASSUME NEW ins \in Instructions
    PROVE  /\ ins.op \in {"push", "swap", "erase", "data", "call"}
           /\ ins.op = "push" => ins.at \in Int
           /\ ins.op = "swap" => ins.at \in Int /\ ins.with \in Int
           /\ ins.op = "erase" => ins.at \in Int /\ ins.end \in Int
           /\ ins.op = "call" => ins.nargs \in Nat
<1>1. \/ ins \in [op : {"push"}, at : Int] \/ ins \in [op : {"swap"}, at : Int, with : Int]
      \/ ins \in [op : {"erase"}, at : Int, end : Int] \/ ins \in [op : {"data"}, at : Nat]
      \/ ins \in [op : {"call"}, node : STRING, nargs : Nat]
  BY DEF Instructions
<1> QED
  BY <1>1

\* How many cells an instruction leaves of n
Remaining(ins, n) ==
    LET place(i) == IF i >= 0 THEN i ELSE n + i
    IN  CASE ins.op = "push"  -> n + 1
          [] ins.op = "swap"  -> n
          [] ins.op = "erase" -> n - (place(ins.end) - place(ins.at))
          [] ins.op = "data"  -> n + 1
          [] ins.op = "call"  -> n - ins.nargs + 1

\* The arguments of a call, and the cells under them
LEMMA CallOnFrame ==
    ASSUME NEW cells, IsSequence(cells), NEW n \in 1 .. Len(cells)
    PROVE  /\ IsSequence(SubSeq(cells, 1, Len(cells) - n))
           /\ Len(SubSeq(cells, 1, Len(cells) - n)) = Len(cells) - n
           /\ IsSequence(TopCells(cells, n)) /\ Len(TopCells(cells, n)) = n
           /\ cells = SubSeq(cells, 1, Len(cells) - n) \o TopCells(cells, n)
<1> DEFINE m == Len(cells) - n
<1>1. Len(cells) \in Nat /\ m \in 0 .. Len(cells) /\ n = Len(cells) - m
  BY SequenceFacts
<1>2. TopCells(cells, n) = SubSeq(cells, m + 1, Len(cells))
  BY DEF TopCells
<1> HIDE DEF m
<1>3. /\ IsSequence(SubSeq(cells, 1, m)) /\ Len(SubSeq(cells, 1, m)) = m
      /\ IsSequence(SubSeq(cells, m + 1, Len(cells)))
      /\ Len(SubSeq(cells, m + 1, Len(cells))) = Len(cells) - m
      /\ cells = SubSeq(cells, 1, m) \o SubSeq(cells, m + 1, Len(cells))
  BY <1>1, Split
<1>4. /\ IsSequence(SubSeq(cells, 1, m)) /\ Len(SubSeq(cells, 1, m)) = m
      /\ IsSequence(TopCells(cells, n)) /\ Len(TopCells(cells, n)) = n
      /\ cells = SubSeq(cells, 1, m) \o TopCells(cells, n)
  BY <1>1, <1>2, <1>3
<1> QED
  BY <1>4 DEF m

LEMMA EffectOnFrame ==
    ASSUME NEW p, NEW ins \in Instructions, NEW cells, IsSequence(cells), Accepts(ins, cells)
    PROVE  /\ IsSequence(Effect(p, ins, cells))
           /\ Len(Effect(p, ins, cells)) = Remaining(ins, Len(cells))
<1>1. ins.op \in {"push", "swap", "erase", "data", "call"} /\ Len(cells) \in Nat
  BY Fields, SequenceFacts
<1>2. CASE ins.op = "push"
  <2>1. Effect(p, ins, cells) = Append(cells, Cell(cells, 0, ins.at))
    BY <1>2 DEF Effect, PushIndex
  <2> QED
    BY <1>2, <2>1, Extended DEF Remaining
<1>3. CASE ins.op = "swap"
  <2>1. ins.at \in Int /\ ins.with \in Int /\ Valid(cells, 0, ins.at) /\ Valid(cells, 0, ins.with)
    BY <1>3, Fields DEF Accepts
  <2>2. /\ IsSequence(Swap(cells, 0, ins.at, ins.with))
        /\ Len(Swap(cells, 0, ins.at, ins.with)) = Len(cells)
    <3> DEFINE i == ins.at  j == ins.with  none == <<>>
    <3>1. i \in Int /\ j \in Int /\ Valid(cells, 0, i) /\ Valid(cells, 0, j) /\ IsSequence(none)
      BY <2>1, Nothing
    <3> HIDE DEF i, j, none
    <3>2. /\ Swap(none \o cells, Len(none), i, j) = none \o Swap(cells, 0, i, j)
          /\ IsSequence(Swap(cells, 0, i, j)) /\ Len(Swap(cells, 0, i, j)) = Len(cells)
      BY <3>1, SwapInFrame
    <3> QED
      BY <3>2 DEF i, j
  <2> QED
    BY <1>3, <2>2 DEF Effect, Remaining
<1>4. CASE ins.op = "erase"
  <2>1. /\ ins.at \in Int /\ ins.end \in Int
        /\ Absolute(cells, 0, ins.at) \in 0 .. Absolute(cells, 0, ins.end)
        /\ Absolute(cells, 0, ins.end) <= Len(cells)
    BY <1>4, Fields DEF Accepts
  <2>2. /\ IsSequence(EraseRange(cells, 0, ins.at, ins.end))
        /\ Len(EraseRange(cells, 0, ins.at, ins.end)) =
                Len(cells) - (Absolute(cells, 0, ins.end) - Absolute(cells, 0, ins.at))
    BY <2>1, Nothing, EraseInFrame
  <2>3. Effect(p, ins, cells) = EraseRange(cells, 0, ins.at, ins.end)
    BY <1>4 DEF Effect
  <2>4. Remaining(ins, Len(cells)) =
                Len(cells) - (Absolute(cells, 0, ins.end) - Absolute(cells, 0, ins.at))
    BY <1>1, <1>4, <2>1 DEF Absolute, Remaining
  <2> QED
    BY <2>2, <2>3, <2>4
<1>5. CASE ins.op = "data"
  <2>1. Effect(p, ins, cells) = Append(cells, Datum(p, ins.at))
    BY <1>5 DEF Effect
  <2> QED
    BY <1>5, <2>1, Extended DEF Remaining
<1>6. CASE ins.op = "call"
  <2>1. ins.nargs \in 1 .. Len(cells)
    BY <1>6 DEF Accepts
  <2> DEFINE rest == SubSeq(cells, 1, Len(cells) - ins.nargs)
             result == Apply(ins.node, TopCells(cells, ins.nargs))
  <2>2. Effect(p, ins, cells) = rest \o <<result>>
    BY <1>6 DEF Effect
  <2>3. IsSequence(rest) /\ Len(rest) = Len(cells) - ins.nargs
    BY <2>1, CallOnFrame
  <2> HIDE DEF rest, result
  <2>4. IsSequence(rest \o <<result>>) /\ Len(rest \o <<result>>) = Len(rest) + 1
    BY <2>3, Single, Joined
  <2>5. Remaining(ins, Len(cells)) = Len(cells) - ins.nargs + 1
    BY <1>6 DEF Remaining
  <2> QED
    BY <2>2, <2>3, <2>4, <2>5
<1> QED
  BY <1>1, <1>2, <1>3, <1>4, <1>5, <1>6

LEMMA AcceptsByLength ==
    ASSUME NEW ins \in Instructions, NEW s, NEW t, Len(s) = Len(t), Accepts(ins, s)
    PROVE  Accepts(ins, t)
BY Fields DEF Accepts, Valid, Absolute

-----------------------------------------------------------------------------
(***************************************************************************)
(* The trace of a program: it exists, and accepts any arguments it accepts *)
(* blank ones, for what an instruction needs depends on lengths alone.     *)
(***************************************************************************)
LEMMA LeastOf ==
    ASSUME NEW S, S \subseteq Nat, S # {}
    PROVE  \E n \in S : \A m \in S : n <= m
<1> DEFINE R == {p \in Nat \X Nat : p[1] < p[2]}
<1>1. IsWellFoundedOn(R, Nat)
  BY NatLessThanWellFounded DEF OpToRel
<1>2. PICK x \in S : \A y \in S : ~ (<<y, x>> \in R)
  <2> HIDE DEF R
  <2> QED
    BY <1>1, WFMin
<1>3. \A y \in S : <<y, x>> \in R <=> y < x
  OBVIOUS
<1>4. \A m \in S : ~ (m < x)
  BY <1>2, <1>3
<1> QED
  BY <1>4

LEMMA TraceUnfolds ==
    ASSUME NEW p \in Programs, NEW cells
    PROVE  /\ Len(Code[p]) \in Nat
           /\ Trace(p, cells)[0] = cells
           /\ \A k \in 1 .. Len(Code[p]) :
                Trace(p, cells)[k] = Effect(p, Code[p][k], Trace(p, cells)[k - 1])
<1> DEFINE L == Len(Code[p])
           Step(k, before) == Effect(p, Code[p][k], before)
           Upto(f, n) == /\ f = [k \in 0 .. L |-> f[k]] /\ f[0] = cells
                         /\ \A k \in 1 .. n : f[k] = Step(k, f[k - 1])
           Bad == {n \in 0 .. L : ~ \E f : Upto(f, n)}
<1>1. L \in Nat
  <2>1. Code[p] \in Seq(Instructions)
    BY CodeAssumption
  <2> QED
    BY <2>1, LenProperties
<1> HIDE DEF L, Step
<1>2. Bad = {}
  <2> SUFFICES ASSUME Bad # {}  PROVE FALSE
    OBVIOUS
  <2>0. Bad \subseteq Nat
    BY <1>1
  <2>1. PICK n \in Bad : \A m \in Bad : n <= m
    <3> HIDE DEF Bad
    <3> QED
      BY <2>0, LeastOf
  <2>2. n \in 0 .. L /\ n \in Int
    BY <1>1
  <2>3. CASE n = 0
    <3> DEFINE f == [k \in 0 .. L |-> cells]
    <3>1. Upto(f, 0)
      BY <1>1
    <3> HIDE DEF f
    <3> QED
      BY <2>3, <3>1
  <2>4. CASE n # 0
    <3>1. n - 1 \in 0 .. L /\ n - 1 \notin Bad
      BY <1>1, <2>1, <2>2, <2>4
    <3>2. PICK f : Upto(f, n - 1)
      BY <3>1
    <3> DEFINE x == Step(n, f[n - 1])
               g == [k \in 0 .. L |-> IF k = n THEN x ELSE f[k]]
    <3>3. g = [k \in 0 .. L |-> g[k]] /\ g[0] = cells
      BY <1>1, <2>4, <3>2
    <3>4. ASSUME NEW k \in 1 .. n  PROVE g[k] = Step(k, g[k - 1])
      <4>1. g[k - 1] = f[k - 1]
        BY <1>1, <2>2
      <4>2. CASE k = n
        <5>1. g[k] = x
          BY <1>1, <2>2, <4>2
        <5> QED
          BY <4>1, <4>2, <5>1
      <4>3. CASE k # n
        <5>1. g[k] = f[k] /\ k \in 1 .. n - 1
          BY <1>1, <2>2, <4>3
        <5> QED
          BY <3>2, <4>1, <5>1
      <4> QED
        BY <4>2, <4>3
    <3> HIDE DEF g
    <3>5. Upto(g, n)
      BY <3>3, <3>4
    <3> QED
      BY <3>5
  <2> QED
    BY <2>3, <2>4
<1>3. PICK f : Upto(f, L)
  BY <1>1, <1>2
<1> DEFINE Unfolds(h) == h = [k \in 0 .. L |-> IF k = 0 THEN cells ELSE Step(k, h[k - 1])]
<1>4. Unfolds(f)
  <2>1. ASSUME NEW k \in 0 .. L  PROVE f[k] = IF k = 0 THEN cells ELSE Step(k, f[k - 1])
    <3>1. k = 0 \/ k \in 1 .. L
      BY <1>1
    <3>2. k \in 1 .. L => k # 0
      BY <1>1
    <3> QED
      BY <1>3, <3>1, <3>2
  <2> QED
    BY <1>3, <2>1
<1>5. Trace(p, cells) = CHOOSE h : Unfolds(h)
  BY Zenon DEF Trace, L, Step
<1>6. Unfolds(Trace(p, cells))
  <2> HIDE DEF Unfolds
  <2> QED
    BY <1>4, <1>5
<1> DEFINE t == Trace(p, cells)
<1> HIDE DEF t
<1>7. t[0] = cells /\ \A k \in 1 .. L : t[k] = Step(k, t[k - 1])
  <2>1. t = [k \in 0 .. L |-> IF k = 0 THEN cells ELSE Step(k, t[k - 1])]
    BY <1>6 DEF t
  <2>2. \A k \in 0 .. L : t[k] = IF k = 0 THEN cells ELSE Step(k, t[k - 1])
    BY <2>1
  <2> QED
    BY <1>1, <2>2
<1> QED
  BY <1>1, <1>7 DEF t, L, Step

LEMMA TraceAccepts ==
    ASSUME NEW p \in Programs, NEW cells, IsSequence(cells), Len(cells) = Len(Inputs[p])
    PROVE  /\ \A k \in 0 .. Len(Code[p]) : IsSequence(Trace(p, cells)[k])
           /\ \A k \in 1 .. Len(Code[p]) :
                /\ Code[p][k] \in Instructions
                /\ Accepts(Code[p][k], Trace(p, cells)[k - 1])
<1> DEFINE blank == [slot \in DOMAIN Inputs[p] |-> NoTensor]
           L == Len(Code[p])
           s == Trace(p, cells)
           t == Trace(p, blank)
           Alike(k) == IsSequence(s[k]) /\ IsSequence(t[k]) /\ Len(s[k]) = Len(t[k])
           Bad == {k \in 0 .. L : ~ Alike(k)}
<1>1. /\ IsSequence(blank) /\ Len(blank) = Len(Inputs[p])
  <2>1. Inputs[p] \in Seq([name : STRING, cast : BOOLEAN])
    BY CodeAssumption
  <2>2. Len(Inputs[p]) \in Nat /\ DOMAIN Inputs[p] = 1 .. Len(Inputs[p])
    BY <2>1, LenProperties
  <2>3. DOMAIN blank = 1 .. Len(Inputs[p]) /\ blank = [i \in DOMAIN blank |-> blank[i]]
    BY <2>2
  <2> HIDE DEF blank
  <2> QED
    BY <2>2, <2>3, FunctionIsSequence
<1>2. /\ L \in Nat /\ \A k \in 1 .. L : Code[p][k] \in Instructions
      /\ \A k \in 1 .. L : Accepts(Code[p][k], t[k - 1])
  <2>1. Code[p] \in Seq(Instructions)
    BY CodeAssumption
  <2>2. L \in Nat /\ DOMAIN Code[p] = 1 .. L
    BY <2>1, LenProperties
  <2>3. \A k \in DOMAIN Code[p] : Accepts(Code[p][k], t[k - 1])
    BY CodeAssumption
  <2>4. \A k \in 1 .. L : Code[p][k] \in Instructions
    BY <2>1, ElementOfSeq
  <2> QED
    BY <2>2, <2>3, <2>4
<1>3. s[0] = cells /\ \A k \in 1 .. L : s[k] = Effect(p, Code[p][k], s[k - 1])
  BY TraceUnfolds
<1>4. t[0] = blank /\ \A k \in 1 .. L : t[k] = Effect(p, Code[p][k], t[k - 1])
  BY TraceUnfolds
<1> HIDE DEF s, t, L, blank
<1>5. Alike(0)
  BY <1>1, <1>3, <1>4
<1>6. ASSUME NEW k \in 1 .. L, Alike(k - 1)  PROVE Alike(k) /\ Accepts(Code[p][k], s[k - 1])
  <2> DEFINE ins == Code[p][k]  a == s[k - 1]  b == t[k - 1]
  <2>1. ins \in Instructions /\ Accepts(ins, b) /\ Len(b) = Len(a) /\ IsSequence(a) /\ IsSequence(b)
    BY <1>2, <1>6
  <2>2. s[k] = Effect(p, ins, a) /\ t[k] = Effect(p, ins, b)
    BY <1>3, <1>4
  <2> HIDE DEF ins, a, b
  <2>3. Accepts(ins, a)
    BY <2>1, AcceptsByLength
  <2>4. /\ IsSequence(Effect(p, ins, a)) /\ Len(Effect(p, ins, a)) = Remaining(ins, Len(a))
        /\ IsSequence(Effect(p, ins, b)) /\ Len(Effect(p, ins, b)) = Remaining(ins, Len(b))
    BY <2>1, <2>3, EffectOnFrame
  <2>5. Alike(k)
    BY <2>1, <2>2, <2>4
  <2> QED
    BY <2>3, <2>5 DEF ins, a
<1>7. Bad = {}
  <2> SUFFICES ASSUME Bad # {}  PROVE FALSE
    OBVIOUS
  <2>0. Bad \subseteq Nat
    BY <1>2
  <2>1. PICK n \in Bad : \A m \in Bad : n <= m
    <3> HIDE DEF Bad
    <3> QED
      BY <2>0, LeastOf
  <2>2. n \in 1 .. L /\ n - 1 \in 0 .. L
    BY <1>2, <1>5
  <2>3. Alike(n - 1)
    BY <1>2, <2>1, <2>2
  <2> QED
    BY <1>6, <2>2, <2>3
<1>8. \A k \in 0 .. L : Alike(k)
  BY <1>7
<1>9. \A k \in 1 .. L : k - 1 \in 0 .. L
  BY <1>2
<1> QED
  BY <1>2, <1>6, <1>8, <1>9 DEF s, L

-----------------------------------------------------------------------------
(***************************************************************************)
(* An activation of launch_online is a record of what is its own and what  *)
(* is its caller's: `calls', `env' and `floor' are the functions, programs *)
(* and cells under it, `bases' the bases saved once it has entered, and    *)
(* `ground' the cells that were there before the run.                      *)
(***************************************************************************)
\* The call, with all its fields
On(p, arguments, slot, at) ==
    [call |-> "launch_online", program |-> p, args |-> arguments, slot |-> slot, at |-> at]
Env(p, pointer) == [program |-> p, pointer |-> pointer]

Above(ground, cells) ==
    /\ IsSequence(cells)
    /\ Len(ground) <= Len(cells) /\ SubSeq(cells, 1, Len(ground)) = ground

\* The arguments prepared for the first k slots, and slot k's before its cast
Ready(a, k) == [i \in 1 .. k |-> Prepared(a.filters[i], Inputs[a.program][i], a.args[i])]
Got(a, k) == Filtered(a.filters[k], a.args[k])
Frames(a) == Trace(a.program, Ready(a, Len(a.args)))

\* An activation that a run can have
Good(a) ==
    /\ IsSequence(a.calls) /\ a.calls # <<>> /\ IsSequence(a.env) /\ IsSequence(a.args)
    /\ IsSequence(a.bases) /\ Len(a.bases) >= 2 /\ a.bases[2] = Len(a.ground)
    /\ Last(a.bases) \in Nat /\ (Len(a.args) = 0 => Last(a.bases) = Len(a.floor))
    /\ IsSequence(a.ground) /\ Above(a.ground, a.floor)
    /\ a.program \in Programs /\ Len(a.args) = Len(Inputs[a.program])
    /\ \A k \in 1 .. Len(a.args) : a.filters[k] \in Filters \union {NoFilter}

\* The stack: an exception may have left anything above the ground.
Holds(a, cells) == IF throwing THEN Above(a.ground, stack) ELSE stack = a.floor \o cells

Entered(a, slot, at, pointer) ==
    /\ calls = Append(a.calls, On(a.program, a.args, slot, at))
    /\ env = Append(a.env, Env(a.program, pointer))
    /\ base = Len(a.floor) /\ bases = a.bases

\* An operator runs above the cells `rest' of the frame.
Operating(a, slot, at, pointer, operator, rest) ==
    /\ calls = Append(Append(a.calls, On(a.program, a.args, slot, at)), operator)
    /\ env = Append(a.env, Env(a.program, pointer))
    /\ base = Len(a.floor \o rest) /\ bases = Append(a.bases, Len(a.floor))

\* The points an activation goes through
Entering(a) ==
    /\ calls = Append(a.calls, On(a.program, a.args, 1, "entering"))
    /\ env = a.env /\ base = Last(a.bases) /\ bases = Front(a.bases)
    /\ ~throwing /\ stack = a.floor \o a.args

Preparing(a, slot) ==
    /\ Entered(a, slot, "preparing", 0)
    /\ Holds(a, a.args \o Ready(a, slot - 1))

Taking(a, slot) ==
    /\ Entered(a, slot, "filtered", 0)
    /\ Holds(a, (a.args \o Ready(a, slot - 1)) \o <<Got(a, slot)>>)

Casting(a, slot) ==
    /\ Inputs[a.program][slot].cast
    /\ Operating(a, slot + 1, "preparing", 0, Operator("cast", FALSE), a.args \o Ready(a, slot - 1))
    /\ Holds(a, (a.args \o Ready(a, slot - 1)) \o <<Got(a, slot)>>)

Executing(a, k) ==
    /\ Entered(a, Len(a.args) + 1, "running", k)
    /\ Holds(a, Frames(a)[k])

Calling(a, k) ==
    LET ins == Code[a.program][k]
        cells == Frames(a)[k - 1]
    IN  /\ ins.op = "call"
        /\ Operating(a, Len(a.args) + 1, "running", k, Operator(ins.node, TRUE),
                     SubSeq(cells, 1, Len(cells) - ins.nargs))
        /\ Holds(a, cells)

Active(a) ==
    \/ Entering(a)
    \/ \E slot \in 1 .. Len(a.args) + 1 : Preparing(a, slot)
    \/ \E slot \in 1 .. Len(a.args) : Taking(a, slot) \/ Casting(a, slot)
    \/ \E k \in 0 .. Len(Code[a.program]) : Executing(a, k)
    \/ \E k \in 1 .. Len(Code[a.program]) : Calling(a, k)

\* launch_online has returned, or the exception has left it.
Gone(a) ==
    /\ calls = a.calls /\ env = a.env /\ base = Last(a.bases) /\ bases = Front(a.bases)
    /\ Holds(a, Frames(a)[Len(Code[a.program])])
    /\ ~throwing => Len(Frames(a)[Len(Code[a.program])]) = Outputs[a.program]

-----------------------------------------------------------------------------
(***************************************************************************)
(* The invariant: the activation of the program that was set up, and above *)
(* it that of the filter of a slot                                         *)
(***************************************************************************)
Callers == {<<>>} \union {<<RunHookCall(names, "ran")>> : names \in Hooks}

Main(ground, callers) ==
    [ground |-> ground, calls |-> Append(callers, Offline), env |-> <<>>,
     bases |-> <<0, Len(ground)>>, floor |-> ground,
     program |-> desktop, args |-> inputs, filters |-> filters[desktop]]

\* The activation of the filter of a slot of activation a
Filtering(a, slot) ==
    [ground |-> a.ground, calls |-> Append(a.calls, On(a.program, a.args, slot, "filtered")),
     env |-> Append(a.env, Env(a.program, 0)),
     bases |-> Append(a.bases, Len(a.floor)), floor |-> a.floor \o (a.args \o Ready(a, slot - 1)),
     program |-> a.filters[slot], args |-> <<Nhwc(a.args[slot])>>, filters |-> <<NoFilter>>]

UserOK ==
    /\ desktop \in Programs \ Filters
    /\ inputs \in [1 .. Len(Inputs[desktop]) -> Tensors \union {NoTensor}]
    /\ DOMAIN filters = Programs
    /\ \A p \in Programs : filters[p] \in [1 .. Len(Inputs[p]) -> Filters \union {NoFilter}]
    /\ \A f \in Filters : filters[f][1] = NoFilter

AtRest(ground) ==
    /\ \/ calls = <<>> /\ ~throwing
       \/ \E names \in Hooks, at \in {"saved", "ran"} : calls = <<RunHookCall(names, at)>>
    /\ base = 0 /\ bases = <<>> /\ env = <<>> /\ stack = ground

\* launch_online has yet to return to launch_offline, or has.
InRun(a) ==
    \/ Active(a) \/ Gone(a)
    \/ \E slot \in 1 .. Len(a.args) : a.filters[slot] \in Filters /\ Active(Filtering(a, slot))

Shape(ground) ==
    \/ AtRest(ground)
    \/ \E callers \in Callers : \E a \in {Main(ground, callers)} : InRun(a)

Inductive == UserOK /\ \E ground : IsSequence(ground) /\ Shape(ground)

-----------------------------------------------------------------------------
(***************************************************************************)
(* What the points of an activation say about the top of the call stack    *)
(***************************************************************************)
LEMMA EnteredTop ==
    ASSUME NEW a, Good(a), NEW slot, NEW at, NEW pointer, Entered(a, slot, at, pointer)
    PROVE  /\ Top = On(a.program, a.args, slot, at) /\ calls # <<>>
           /\ Front(calls) = a.calls /\ Front(env) = a.env
           /\ Running = a.program /\ Pointer = pointer
           /\ Arguments = Len(a.args)
           /\ \A k : [env EXCEPT ![Len(env)].pointer = k] = Append(a.env, Env(a.program, k))
<1> DEFINE on == On(a.program, a.args, slot, at)  e == Env(a.program, pointer)
<1>1. calls = Append(a.calls, on) /\ env = Append(a.env, e)
  BY DEF Entered
<1>2. IsSequence(a.calls) /\ IsSequence(a.env)
  BY DEF Good
<1> HIDE DEF on, e
<1>3. Last(calls) = on /\ Front(calls) = a.calls /\ calls # <<>>
  BY <1>1, <1>2, LastExtended, Extended
<1>4. Last(env) = e /\ Front(env) = a.env /\ env[Len(env)] = e
  BY <1>1, <1>2, LastExtended DEF Last
<1>5. ASSUME NEW k
      PROVE  [env EXCEPT ![Len(env)].pointer = k] = Append(a.env, Env(a.program, k))
  <2> DEFINE f == [e EXCEPT !.pointer = k]
  <2>1. f = Env(a.program, k)
    BY DEF e, Env
  <2>2. [env EXCEPT ![Len(env)].pointer = k] = [env EXCEPT ![Len(env)] = f]
    BY <1>4
  <2> HIDE DEF f
  <2>3. [env EXCEPT ![Len(env)] = f] = Append(a.env, f)
    BY <1>1, <1>2, LastReplaced
  <2> QED
    BY <2>1, <2>2, <2>3
<1>6. Top = on
  BY <1>3 DEF Top
<1>7. Running = a.program /\ Pointer = pointer
  BY <1>4 DEF Running, Pointer, e, Env
<1>8. Arguments = Len(a.args)
  BY <1>6 DEF Arguments, on, On
<1> QED
  BY <1>3, <1>4, <1>5, <1>6, <1>7, <1>8 DEF on

LEMMA OperatingTop ==
    ASSUME NEW a, Good(a), NEW slot, NEW at, NEW pointer, NEW operator, NEW rest,
           Operating(a, slot, at, pointer, operator, rest)
    PROVE  /\ Top = operator /\ calls # <<>>
           /\ Front(calls) = Append(a.calls, On(a.program, a.args, slot, at))
           /\ bases # <<>> /\ Last(bases) = Len(a.floor) /\ Front(bases) = a.bases
<1> DEFINE on == On(a.program, a.args, slot, at)  below == Append(a.calls, on)  b == Len(a.floor)
<1>1. calls = Append(below, operator) /\ bases = Append(a.bases, b)
  BY DEF Operating
<1>2. IsSequence(a.calls) /\ IsSequence(a.bases)
  BY DEF Good
<1> HIDE DEF on, b
<1>3. IsSequence(below)
  BY <1>2, Extended
<1> HIDE DEF below
<1>4. Last(calls) = operator /\ Front(calls) = below /\ calls # <<>>
  BY <1>1, <1>3, LastExtended, Extended
<1>5. Last(bases) = b /\ Front(bases) = a.bases /\ bases # <<>>
  BY <1>1, <1>2, LastExtended, Extended
<1> QED
  BY <1>4, <1>5 DEF Top, below, on, b

-----------------------------------------------------------------------------
(***************************************************************************)
(* Cells                                                                   *)
(***************************************************************************)
LEMMA AboveJoined ==
    ASSUME NEW ground, NEW s, NEW t, IsSequence(ground), Above(ground, s), IsSequence(t)
    PROVE  Above(ground, s \o t)
<1> DEFINE n == Len(ground)  rest == SubSeq(s, n + 1, Len(s))
<1>1. /\ IsSequence(s) /\ n \in Nat /\ Len(s) \in Nat /\ Len(t) \in Nat /\ n <= Len(s)
      /\ SubSeq(s, 1, n) = ground
  BY SequenceFacts DEF Above
<1>2. /\ IsSequence(rest) /\ s = SubSeq(s, 1, n) \o rest
  <2> HIDE DEF n
  <2>1. n \in 0 .. Len(s) /\ IsSequence(s)
    BY <1>1
  <2> QED
    BY <2>1, Split
<1> HIDE DEF rest
<1>3. s = ground \o rest
  BY <1>1, <1>2
<1>4. IsSequence(rest \o t) /\ (ground \o rest) \o t = ground \o (rest \o t)
  <2>1. IsSequence(ground) /\ IsSequence(rest) /\ IsSequence(t)
    BY <1>2
  <2>2. IsSequence(rest \o t)
    BY ONLY <2>1, Joined
  <2>3. (ground \o rest) \o t = ground \o (rest \o t)
    <3>1. Associates(ground, rest, t)
      BY ONLY <2>1, JoinAssociates
    <3> QED
      BY <3>1 DEF Associates
  <2> QED
    BY <2>2, <2>3
<1> DEFINE u == rest \o t
<1>5. s \o t = ground \o u
  BY <1>3, <1>4
<1> HIDE DEF u
<1>6. IsSequence(u)
  BY <1>4 DEF u
<1>7. SubSeq(ground \o u, 1, n) = ground
  BY <1>6, PartsOfJoined
<1>8. IsSequence(s \o t) /\ Len(s \o t) = Len(s) + Len(t)
  BY <1>1, Joined
<1>9. n <= Len(s \o t)
  BY <1>1, <1>8
<1> QED
  BY <1>5, <1>7, <1>8, <1>9 DEF Above

LEMMA AboveItself ==
    ASSUME NEW ground, IsSequence(ground)
    PROVE  Above(ground, ground)
<1>1. Len(ground) \in Nat /\ SubSeq(ground, 1, Len(ground)) = ground
  BY SequenceFacts, SubSeqFull DEF IsSequence
<1> QED
  BY <1>1 DEF Above

\* A frame of an activation lies above its ground.
LEMMA FrameAbove ==
    ASSUME NEW a, Good(a), NEW cells, IsSequence(cells)
    PROVE  Above(a.ground, a.floor \o cells)
BY AboveJoined DEF Good

LEMMA ReadyGrows ==
    ASSUME NEW a, Good(a), NEW k \in 0 .. Len(a.args)
    PROVE  /\ IsSequence(Ready(a, k)) /\ Len(Ready(a, k)) = k
           /\ k > 0 => Ready(a, k) =
                Append(Ready(a, k - 1), Prepared(a.filters[k], Inputs[a.program][k], a.args[k]))
<1>0. Len(a.args) \in Nat
  BY SequenceFacts DEF Good
<1>1. ASSUME NEW m \in Nat  PROVE IsSequence(Ready(a, m)) /\ Len(Ready(a, m)) = m
  <2> DEFINE s == Ready(a, m)
  <2>1. DOMAIN s = 1 .. m /\ s = [i \in DOMAIN s |-> s[i]]
    BY DEF Ready
  <2> HIDE DEF s
  <2>2. IsSequence(s) /\ Len(s) = m
    BY <2>1, FunctionIsSequence
  <2> QED
    BY <2>2 DEF s
<1>2. ASSUME k > 0
      PROVE  Ready(a, k) =
                Append(Ready(a, k - 1), Prepared(a.filters[k], Inputs[a.program][k], a.args[k]))
  <2> DEFINE P(i) == Prepared(a.filters[i], Inputs[a.program][i], a.args[i])
             s == Ready(a, k)  t == Ready(a, k - 1)
  <2>1. /\ IsSequence(s) /\ Len(s) = k /\ IsSequence(t) /\ Len(t) = k - 1
    BY <1>0, <1>1, <1>2
  <2>2. \A i \in 1 .. k : s[i] = P(i)
    BY DEF Ready
  <2>3. \A i \in 1 .. k - 1 : t[i] = P(i)
    BY DEF Ready
  <2> DEFINE u == Append(t, P(k))
  <2> HIDE DEF s, t, P
  <2>4. /\ IsSequence(u) /\ Len(u) = Len(t) + 1
        /\ \A i \in 1 .. Len(t) : u[i] = t[i]
        /\ u[Len(t) + 1] = P(k)
    <3>1. IsSequence(t)
      BY <2>1
    <3> QED
      BY ONLY <3>1, Extended
  <2> HIDE DEF u
  <2>5. Len(u) = Len(s) /\ \A i \in 1 .. Len(s) : s[i] = u[i]
    <3>1. Len(u) = Len(s) /\ Len(t) + 1 = k
      BY <1>0, <2>1, <2>4
    <3>2. ASSUME NEW i \in 1 .. k  PROVE s[i] = u[i]
      <4>1. CASE i = k
        BY <2>2, <2>4, <3>1, <4>1
      <4>2. CASE i # k
        <5>1. i \in 1 .. k - 1
          BY <1>0, <4>2
        <5> QED
          BY <2>1, <2>2, <2>3, <2>4, <5>1
      <4> QED
        BY <4>1, <4>2
    <3> QED
      BY <2>1, <3>1, <3>2
  <2>6. s = u
    BY <2>1, <2>4, <2>5, SameSequence
  <2> QED
    BY <2>6 DEF s, t, u, P
<1> QED
  BY <1>0, <1>1, <1>2

LEMMA FramesAccept ==
    ASSUME NEW a, Good(a)
    PROVE  /\ Len(Code[a.program]) \in Nat
           /\ Frames(a)[0] = Ready(a, Len(a.args))
           /\ \A k \in 0 .. Len(Code[a.program]) : IsSequence(Frames(a)[k])
           /\ \A k \in 1 .. Len(Code[a.program]) :
                /\ Code[a.program][k] \in Instructions
                /\ Accepts(Code[a.program][k], Frames(a)[k - 1])
                /\ Frames(a)[k] = Effect(a.program, Code[a.program][k], Frames(a)[k - 1])
<1> DEFINE p == a.program  cells == Ready(a, Len(a.args))
<1>1. p \in Programs /\ Len(a.args) = Len(Inputs[p]) /\ Len(a.args) \in Nat
  BY SequenceFacts DEF Good
<1>2. IsSequence(cells) /\ Len(cells) = Len(Inputs[p])
  BY <1>1, ReadyGrows
<1> HIDE DEF p, cells
<1>3. /\ Len(Code[p]) \in Nat
      /\ Trace(p, cells)[0] = cells
      /\ \A k \in 1 .. Len(Code[p]) :
            Trace(p, cells)[k] = Effect(p, Code[p][k], Trace(p, cells)[k - 1])
  BY <1>1, TraceUnfolds
<1>4. /\ \A k \in 0 .. Len(Code[p]) : IsSequence(Trace(p, cells)[k])
      /\ \A k \in 1 .. Len(Code[p]) :
            Code[p][k] \in Instructions /\ Accepts(Code[p][k], Trace(p, cells)[k - 1])
  BY <1>1, <1>2, TraceAccepts
<1>5. Frames(a) = Trace(p, cells)
  BY DEF Frames, p, cells
<1> QED
  BY <1>3, <1>4, <1>5 DEF p, cells

-----------------------------------------------------------------------------
(***************************************************************************)
(* The steps of an activation `a' whose filters are those of its program   *)
(***************************************************************************)
Bound(a) == \A k \in 1 .. Len(a.args) : filters[a.program][k] = a.filters[k]

\* While arguments are prepared, the next one has its own number below the top.
LEMMA PreparingArgument ==
    ASSUME NEW a, Good(a), NEW slot \in 1 .. Len(a.args) + 1, Preparing(a, slot), ~throwing
    PROVE  /\ IsSequence(a.args) /\ Len(a.args) \in Nat
           /\ IsSequence(Ready(a, slot - 1)) /\ Len(Ready(a, slot - 1)) = slot - 1
           /\ stack = a.floor \o (a.args \o Ready(a, slot - 1))
           /\ IsSequence(a.floor) /\ base = Len(a.floor)
           /\ slot <= Len(a.args) => Argument = a.args[slot]
<1> DEFINE cells == a.args \o Ready(a, slot - 1)  n == Len(a.args)  f == a.floor
<1>1. IsSequence(a.args) /\ n \in Nat /\ IsSequence(f)
  BY SequenceFacts DEF Good, Above
<1>2. slot - 1 \in 0 .. n
  BY <1>1
<1>3. IsSequence(Ready(a, slot - 1)) /\ Len(Ready(a, slot - 1)) = slot - 1
  BY <1>2, ReadyGrows
<1>4. stack = f \o cells /\ base = Len(f) /\ Arguments = n
  BY EnteredTop DEF Preparing, Holds, Entered
<1>5. /\ IsSequence(cells) /\ Len(cells) = n + (slot - 1)
      /\ \A i \in 1 .. n : cells[i] = a.args[i]
  <2> DEFINE s == a.args  t == Ready(a, slot - 1)
  <2>1. IsSequence(s) /\ IsSequence(t) /\ Len(s) = n /\ Len(t) = slot - 1
    BY <1>1, <1>3
  <2> HIDE DEF s, t
  <2>2. /\ IsSequence(s \o t) /\ Len(s \o t) = Len(s) + Len(t)
        /\ \A i \in 1 .. Len(s) : (s \o t)[i] = s[i]
    BY <2>1, Joined
  <2>3. cells = s \o t /\ s = a.args
    BY DEF s, t
  <2> HIDE DEF cells, n
  <2> QED
    BY <2>1, <2>2, <2>3
<1> HIDE DEF cells, n, f
<1>6. ASSUME slot <= n  PROVE Argument = a.args[slot]
  <2>1. Absolute(cells, 0, -n) = slot - 1 /\ Valid(cells, 0, -n) /\ -n \in Int /\ slot \in 1 .. n
    BY <1>1, <1>5, <1>6 DEF Absolute, Valid
  <2>2. Cell(f \o cells, Len(f), -n) = Cell(cells, 0, -n)
    BY <1>1, <1>5, <2>1, CellInFrame
  <2>3. Cell(cells, 0, -n) = cells[slot]
    BY <2>1 DEF Cell
  <2> QED
    BY <1>4, <1>5, <2>1, <2>2, <2>3 DEF Argument
<1> QED
  BY <1>1, <1>3, <1>4, <1>6 DEF cells, n, f

LEMMA EnterStep ==
    ASSUME NEW a, Good(a), Entering(a), EnterOnline
    PROVE  Preparing(a, 1)'
<1> DEFINE on == On(a.program, a.args, 1, "entering")  n == Len(a.args)
<1>1. /\ IsSequence(a.calls) /\ IsSequence(a.args) /\ IsSequence(a.bases) /\ IsSequence(a.floor)
      /\ n \in Nat
  BY SequenceFacts DEF Good, Above
<1>2. Last(calls) = on /\ Front(calls) = a.calls
  <2> HIDE DEF on
  <2>1. calls = Append(a.calls, on)
    BY DEF Entering, on
  <2> QED
    BY <1>1, <2>1, LastExtended
<1>3. calls' = Append(a.calls, On(a.program, a.args, 1, "preparing"))
  <2>1. Top = on /\ [on EXCEPT !.at = "preparing"] = On(a.program, a.args, 1, "preparing")
    BY <1>2 DEF Top, On
  <2> QED
    BY <1>2, <2>1 DEF EnterOnline, GoesOn
<1>4. env' = Append(a.env, Env(a.program, 0)) /\ Arguments = n
  BY <1>2 DEF EnterOnline, Entering, Top, Arguments, On, Env
<1>5. bases' = a.bases
  <2>1. bases = Front(a.bases) /\ base = Last(a.bases) /\ a.bases # <<>>
    BY SequenceFacts DEF Entering, Good
  <2>2. bases' = Append(Front(a.bases), Last(a.bases))
    BY <2>1 DEF EnterOnline, PushBase
  <2>3. Append(Front(a.bases), Last(a.bases)) = a.bases
    BY <1>1, <2>1, FrontAndLast
  <2> QED
    BY <2>2, <2>3
<1>6. base' = Len(a.floor)
  <2>1. stack = a.floor \o a.args /\ Len(a.floor \o a.args) = Len(a.floor) + n /\ Len(a.floor) \in Nat
    BY <1>1, Joined, SequenceFacts DEF Entering
  <2>2. base' = Absolute(stack, base, -n)
    BY <1>4 DEF EnterOnline, PushBase
  <2>3. n = 0 => base = Len(a.floor)
    BY DEF Good, Entering
  <2> HIDE DEF n
  <2>4. Len(stack) = Len(a.floor) + n
    BY <2>1
  <2>5. base' = IF -n >= 0 THEN base + (-n) ELSE Len(stack) + (-n)
    BY <2>2 DEF Absolute
  <2>6. n \in Nat /\ Len(a.floor) \in Nat
    BY <1>1, <2>1
  <2>7. CASE n = 0
    BY <2>3, <2>5, <2>6, <2>7
  <2>8. CASE n # 0
    <3>1. ~(-n >= 0) /\ -n \in Int /\ Len(stack) \in Nat
      BY <2>4, <2>6, <2>8
    <3>2. base' = Len(stack) + (-n)
      BY <2>5, <3>1
    <3> DEFINE f == Len(a.floor)  l == Len(stack)
    <3>3. l = f + n /\ n \in Nat /\ f \in Nat /\ l \in Nat /\ base' = l + (-n)
      BY <2>4, <2>6, <3>1, <3>2
    <3> HIDE DEF f, l
    <3>4. base' = f
      BY <3>3
    <3> QED
      BY <3>4 DEF f
  <2> QED
    BY <2>7, <2>8
<1>7. stack' = a.floor \o (a.args \o Ready(a, 0)) /\ throwing' = FALSE
  <2>1. Ready(a, 0) = <<>>
    BY <1>1, ReadyGrows, SequenceFacts
  <2>2. a.args \o Ready(a, 0) = a.args
    BY <1>1, <2>1, JoinNothing
  <2>3. stack' = a.floor \o a.args /\ throwing' = FALSE
    BY DEF EnterOnline, Entering
  <2> QED
    BY <2>2, <2>3
<1>8. Ready(a, 1 - 1) = Ready(a, 0)
  OBVIOUS
<1> QED
  BY <1>3, <1>4, <1>5, <1>6, <1>7, <1>8 DEF Preparing, Entered, Holds

LEMMA PushStep ==
    ASSUME NEW a, Good(a), Bound(a), NEW slot \in 1 .. Len(a.args) + 1, Preparing(a, slot),
           PushArgument
    PROVE  slot \in 1 .. Len(a.args) /\ Taking(a, slot)'
<1>1. /\ Top = On(a.program, a.args, slot, "preparing") /\ Running = a.program
      /\ Front(calls) = a.calls /\ Arguments = Len(a.args)
  BY EnteredTop DEF Preparing
<1>2. /\ IsSequence(a.args) /\ Len(a.args) \in Nat
      /\ IsSequence(Ready(a, slot - 1)) /\ Len(Ready(a, slot - 1)) = slot - 1
      /\ stack = a.floor \o (a.args \o Ready(a, slot - 1)) /\ ~throwing
      /\ IsSequence(a.floor)
      /\ slot <= Len(a.args) => Argument = a.args[slot]
  BY PreparingArgument DEF PushArgument, InOnline, In
<1>3. slot \in 1 .. Len(a.args)
  BY <1>1, <1>2 DEF PushArgument, On
<1>4. Argument = Got(a, slot)
  <2>1. a.filters[slot] = NoFilter
    BY <1>1, <1>3 DEF Bound, PushArgument, Filter, On
  <2> QED
    BY <1>2, <1>3, <2>1 DEF Got, Filtered
<1>5. calls' = Append(a.calls, On(a.program, a.args, slot, "filtered"))
  <2>1. [On(a.program, a.args, slot, "preparing") EXCEPT !.at = "filtered"]
          = On(a.program, a.args, slot, "filtered")
    BY DEF On
  <2> QED
    BY <1>1, <2>1 DEF PushArgument, GoesOn
<1>6. stack' = a.floor \o ((a.args \o Ready(a, slot - 1)) \o <<Got(a, slot)>>)
  <2> DEFINE cells == a.args \o Ready(a, slot - 1)
  <2>1. IsSequence(cells)
    BY <1>2, Joined
  <2>2. stack' = Append(a.floor \o cells, Got(a, slot))
    BY <1>2, <1>4 DEF PushArgument
  <2> HIDE DEF cells
  <2>a. Append(a.floor \o cells, Got(a, slot)) = a.floor \o Append(cells, Got(a, slot))
    <3> DEFINE f == a.floor  g == Got(a, slot)
    <3>1. IsSequence(f) /\ IsSequence(cells)
      BY <1>2, <2>1
    <3> HIDE DEF f, g
    <3>2. Append(f \o cells, g) = f \o Append(cells, g)
      BY <3>1, ExtendJoined
    <3> QED
      BY <3>2 DEF f, g
  <2>b. Append(cells, Got(a, slot)) = cells \o <<Got(a, slot)>>
    BY <2>1, Extended
  <2>3. /\ Append(a.floor \o cells, Got(a, slot)) = a.floor \o Append(cells, Got(a, slot))
        /\ Append(cells, Got(a, slot)) = cells \o <<Got(a, slot)>>
    BY <2>a, <2>b
  <2>4. stack' = a.floor \o (cells \o <<Got(a, slot)>>)
    BY <2>2, <2>3
  <2> QED
    BY <2>4 DEF cells
<1> QED
  BY <1>2, <1>3, <1>5, <1>6 DEF PushArgument, Preparing, Taking, Entered, Holds

LEMMA TwoExtended ==
    ASSUME NEW s, NEW x, NEW y, IsSequence(s)
    PROVE  s \o <<x, y>> = Append(Append(s, x), y)
<1> DEFINE one == <<x>>  two == <<y>>  t == Append(s, x)  u == Append(t, y)
<1>1. IsSequence(one) /\ Len(one) = 1 /\ IsSequence(two) /\ Len(two) = 1
  BY Single
<1>2. <<x, y>> = one \o two
  <2> DEFINE pair == <<x, y>>
  <2>1. pair \in Seq({x, y}) /\ Len(pair) = 2 /\ pair[1] = x /\ pair[2] = y
    OBVIOUS
  <2>2. one[1] = x /\ two[1] = y
    OBVIOUS
  <2> HIDE DEF pair, one, two
  <2>3. /\ IsSequence(one \o two) /\ Len(one \o two) = 2
        /\ (one \o two)[1] = x /\ (one \o two)[1 + 1] = y
    <3>0. IsSequence(one) /\ IsSequence(two)
      BY <1>1
    <3>1. /\ IsSequence(one \o two) /\ Len(one \o two) = Len(one) + Len(two)
          /\ \A i \in 1 .. Len(one) : (one \o two)[i] = one[i]
          /\ \A i \in 1 .. Len(two) : (one \o two)[Len(one) + i] = two[i]
      BY <3>0, Joined
    <3> QED
      BY <1>1, <2>2, <3>1
  <2>4. IsSequence(pair)
    BY <2>1, InSeq
  <2>5. \A i \in 1 .. 2 : pair[i] = (one \o two)[i]
    BY <2>1, <2>3
  <2>6. pair = one \o two
    BY <2>1, <2>3, <2>4, <2>5, SameSequence
  <2> QED
    BY <2>6 DEF pair
<1>3. IsSequence(t) /\ Len(t) = Len(s) + 1 /\ t = s \o one /\ Len(s) \in Nat
  BY Extended, SequenceFacts
<1> HIDE DEF t
<1>4. IsSequence(u) /\ Len(u) = Len(t) + 1 /\ u = t \o two
  BY <1>3, Extended
<1>5. Append(s, y) = s \o two
  BY Extended
<1> HIDE DEF one, two, u
<1>6. (s \o one) \o two = s \o (one \o two) /\ IsSequence(one \o two)
  BY <1>1, JoinAssociative, Joined
<1>7. s \o <<x, y>> = u
  BY <1>2, <1>3, <1>4, <1>6
<1> QED
  BY <1>7 DEF u, t

\* The second cell from the top is erased.
LEMMA SecondErased ==
    ASSUME NEW s, NEW x, NEW y, NEW b, IsSequence(s)
    PROVE  EraseRange(Append(Append(s, x), y), b, -2, -1) = Append(s, y)
<1> DEFINE one == <<x>>  two == <<y>>  t == Append(s, x)  u == Append(t, y)
<1>1. IsSequence(one) /\ Len(one) = 1 /\ IsSequence(two) /\ Len(two) = 1
  BY Single
<1>2. IsSequence(t) /\ Len(t) = Len(s) + 1 /\ t = s \o one /\ Len(s) \in Nat
  BY Extended, SequenceFacts
<1> HIDE DEF t
<1>3. IsSequence(u) /\ Len(u) = Len(t) + 1 /\ u = t \o two
  BY <1>2, Extended
<1>4. Append(s, y) = s \o two
  BY Extended
<1> HIDE DEF one, two, u
<1>5. (s \o one) \o two = s \o (one \o two) /\ IsSequence(one \o two)
  BY <1>1, JoinAssociative, Joined
<1>6. SubSeq(u, 1, Len(s)) = s
  <2> DEFINE v == one \o two
  <2>1. u = s \o v /\ IsSequence(v)
    BY <1>2, <1>3, <1>5
  <2> HIDE DEF v
  <2> QED
    BY <2>1, PartsOfJoined
<1>7. SubSeq(u, Len(t) + 1, Len(u)) = two
  BY <1>1, <1>2, <1>3, PartsOfJoined
<1>8. Absolute(u, b, -2) = Len(s) /\ Absolute(u, b, -1) = Len(t)
  BY <1>2, <1>3 DEF Absolute
<1>9. EraseRange(u, b, -2, -1) = Append(s, y)
  BY <1>4, <1>6, <1>7, <1>8 DEF EraseRange
<1> QED
  BY <1>9 DEF u, t

LEMMA FilteringGood ==
    ASSUME NEW a, Good(a), NEW slot \in 1 .. Len(a.args), a.filters[slot] \in Filters
    PROVE  Good(Filtering(a, slot))
<1> DEFINE b == Filtering(a, slot)  on == On(a.program, a.args, slot, "filtered")
           cells == a.args \o Ready(a, slot - 1)  e == Env(a.program, 0)  f == a.floor
<1>1. /\ b.calls = Append(a.calls, on) /\ b.env = Append(a.env, e) /\ b.ground = a.ground
      /\ b.bases = Append(a.bases, Len(f)) /\ b.floor = f \o cells
      /\ b.program = a.filters[slot] /\ b.args = <<Nhwc(a.args[slot])>> /\ b.filters = <<NoFilter>>
  BY DEF Filtering
<1>2. /\ IsSequence(a.calls) /\ IsSequence(a.env) /\ IsSequence(a.bases) /\ IsSequence(f)
      /\ IsSequence(a.args) /\ Len(a.args) \in Nat /\ Len(f) \in Nat
  BY SequenceFacts DEF Good, Above
<1>3. IsSequence(cells)
  <2>1. slot - 1 \in 0 .. Len(a.args)
    BY <1>2
  <2>2. IsSequence(Ready(a, slot - 1))
    BY <2>1, ReadyGrows
  <2> QED
    BY <1>2, <2>2, Joined
<1> HIDE DEF b, on, e, cells, f
<1>4. IsSequence(b.calls) /\ b.calls # <<>> /\ IsSequence(b.env)
  <2>1. IsSequence(Append(a.calls, on)) /\ Append(a.calls, on) # <<>>
    BY <1>2, Extended
  <2>2. IsSequence(Append(a.env, e))
    BY <1>2, Extended
  <2> QED
    BY <1>1, <2>1, <2>2
<1>5. /\ IsSequence(b.bases) /\ Len(b.bases) >= 2 /\ b.bases[2] = Len(b.ground)
      /\ Last(b.bases) \in Nat
  <2> DEFINE w == Append(a.bases, Len(f))
  <2>1. /\ IsSequence(w) /\ Len(w) = Len(a.bases) + 1 /\ Last(w) = Len(f)
        /\ \A i \in 1 .. Len(a.bases) : w[i] = a.bases[i]
    BY <1>2, Extended, LastExtended
  <2>2. Len(a.bases) \in Nat /\ Len(a.bases) >= 2 /\ a.bases[2] = Len(a.ground)
    BY <1>2, SequenceFacts DEF Good
  <2> HIDE DEF w
  <2>3. w[2] = Len(a.ground) /\ Len(w) >= 2
    BY <2>1, <2>2
  <2>4. b.bases = w
    BY <1>1 DEF w
  <2> QED
    BY <1>1, <1>2, <2>1, <2>3, <2>4
<1>6. IsSequence(b.ground) /\ Above(b.ground, b.floor)
  <2>1. Above(a.ground, f \o cells)
    BY <1>3, FrameAbove DEF f
  <2> QED
    BY <1>1, <2>1 DEF Good
<1>7. IsSequence(b.args) /\ Len(b.args) = 1
  BY <1>1, Single
<1>8. b.program \in Programs /\ Len(Inputs[b.program]) = 1
  BY <1>1, WorkbenchAssumption
<1>9. \A k \in 1 .. Len(b.args) : b.filters[k] \in Filters \union {NoFilter}
  <2>1. <<NoFilter>>[1] = NoFilter
    OBVIOUS
  <2> QED
    BY <1>1, <1>7, <2>1
<1>10. Good(b)
  BY <1>4, <1>5, <1>6, <1>7, <1>8, <1>9 DEF Good
<1> QED
  BY <1>10 DEF b

LEMMA FilterStep ==
    ASSUME NEW a, Good(a), Bound(a), NEW slot \in 1 .. Len(a.args) + 1, Preparing(a, slot),
           FilterArgument
    PROVE  /\ slot \in 1 .. Len(a.args) /\ a.filters[slot] \in Filters
           /\ Preparing(a, slot)' \/ Entering(Filtering(a, slot))'
<1> DEFINE on == On(a.program, a.args, slot, "preparing")
           cells == a.args \o Ready(a, slot - 1)
           x == a.args[slot]
           b == Filtering(a, slot)
<1>1. Top = on /\ Running = a.program /\ Front(calls) = a.calls /\ Arguments = Len(a.args)
  BY EnteredTop DEF Preparing
<1>2. /\ IsSequence(a.args) /\ Len(a.args) \in Nat
      /\ IsSequence(Ready(a, slot - 1))
      /\ stack = a.floor \o cells /\ ~throwing /\ IsSequence(a.floor)
      /\ slot <= Len(a.args) => Argument = x
  BY PreparingArgument DEF FilterArgument, InOnline, In
<1>3. slot \in 1 .. Len(a.args) /\ Argument = x
  BY <1>1, <1>2 DEF FilterArgument, On
<1>4. Filter = a.filters[slot] /\ a.filters[slot] \in Filters
  <2>1. Filter = a.filters[slot]
    BY <1>1, <1>3 DEF Bound, Filter, On
  <2> QED
    BY <1>3, <2>1 DEF FilterArgument, Good
<1>5. IsSequence(cells) /\ IsSequence(stack)
  BY <1>2, Joined
<1> HIDE DEF cells, x
<1>6. CASE x \in Shapeless
  <2>1. stack' = Append(a.floor \o cells, x) /\ Throws
    BY <1>2, <1>3, <1>6 DEF FilterArgument
  <2>2. /\ IsSequence(cells \o <<x>>) /\ Append(a.floor \o cells, x) = a.floor \o (cells \o <<x>>)
    <3> DEFINE f == a.floor
    <3>0. IsSequence(f) /\ IsSequence(cells)
      BY <1>2, <1>5
    <3> HIDE DEF f
    <3>1. Append(f \o cells, x) = f \o Append(cells, x)
      BY <3>0, ExtendJoined
    <3>2. Append(cells, x) = cells \o <<x>> /\ IsSequence(Append(cells, x))
      BY <3>0, Extended
    <3>3. IsSequence(cells \o <<x>>) /\ Append(f \o cells, x) = f \o (cells \o <<x>>)
      BY <3>1, <3>2
    <3> QED
      BY <3>3 DEF f
  <2> DEFINE t == cells \o <<x>>
  <2>3. stack' = a.floor \o t /\ IsSequence(t)
    BY <2>1, <2>2
  <2> HIDE DEF t
  <2>4. Above(a.ground, stack')
    BY <2>3, FrameAbove
  <2>5. Preparing(a, slot)'
    BY <2>1, <2>4 DEF Throws, Preparing, Entered, Holds
  <2> QED
    BY <1>3, <1>4, <2>5
<1>7. CASE x \notin Shapeless
  <2>1. stack' = EraseRange(Append(Append(stack, x), Nhwc(x)), base, -2, -1)
    BY <1>3, <1>7 DEF FilterArgument
  <2>2. stack' = Append(stack, Nhwc(x))
    <3> DEFINE y == Nhwc(x)  s == stack
    <3>0. IsSequence(s)
      BY <1>5
    <3> HIDE DEF y, s
    <3>1. EraseRange(Append(Append(s, x), y), base, -2, -1) = Append(s, y)
      BY <3>0, SecondErased
    <3> QED
      BY <2>1, <3>1 DEF y, s
  <2>3. Append(stack, Nhwc(x)) = stack \o <<Nhwc(x)>>
    BY <1>5, Extended
  <2>4. stack' = b.floor \o b.args
    <3>1. b.floor = a.floor \o cells /\ b.args = <<Nhwc(x)>>
      BY DEF Filtering, cells, x
    <3> QED
      BY <1>2, <2>2, <2>3, <3>1
  <2>5. calls' = Append(b.calls, On(b.program, b.args, 1, "entering"))
    <3> DEFINE s == On(a.program, a.args, slot, "filtered")
               t == On(a.filters[slot], <<Nhwc(x)>>, 1, "entering")
    <3>1. [on EXCEPT !.at = "filtered"] = s /\ Online(a.filters[slot], <<Nhwc(x)>>) = t
      BY DEF On, Online
    <3>2. calls' = a.calls \o <<s, t>>
      BY <1>1, <1>3, <1>4, <1>7, <3>1 DEF FilterArgument, Calls
    <3>3. b.calls = Append(a.calls, s) /\ On(b.program, b.args, 1, "entering") = t
      BY DEF Filtering, x
    <3> DEFINE c == a.calls
    <3>0. IsSequence(c)
      BY DEF Good
    <3> HIDE DEF s, t, c
    <3>4. c \o <<s, t>> = Append(Append(c, s), t)
      BY <3>0, TwoExtended
    <3> QED
      BY <3>2, <3>3, <3>4 DEF c
  <2>6. UNCHANGED <<base, bases, env, throwing>>
    BY <1>3, <1>7 DEF FilterArgument
  <2>7. base = Last(b.bases) /\ bases = Front(b.bases)
    <3>1. b.bases = Append(a.bases, Len(a.floor)) /\ IsSequence(a.bases)
      BY DEF Filtering, Good
    <3> DEFINE l == Len(a.floor)
    <3>2. base = l /\ bases = a.bases
      BY DEF Preparing, Entered
    <3> HIDE DEF l
    <3>3. Last(Append(a.bases, l)) = l /\ Front(Append(a.bases, l)) = a.bases
      BY <3>1, LastExtended
    <3> QED
      BY <3>1, <3>2, <3>3 DEF l
  <2>8. env = b.env
    BY DEF Filtering, Preparing, Entered
  <2>9. Entering(b)'
    BY <1>2, <2>4, <2>5, <2>6, <2>7, <2>8 DEF Entering
  <2> QED
    BY <1>3, <1>4, <2>9
<1> QED
  BY <1>6, <1>7

LEMMA ReadyJoined ==
    ASSUME NEW a, Good(a), NEW slot \in 1 .. Len(a.args)
    PROVE  /\ IsSequence(a.args \o Ready(a, slot - 1))
           /\ (a.args \o Ready(a, slot - 1))
                \o <<Prepared(a.filters[slot], Inputs[a.program][slot], a.args[slot])>>
              = a.args \o Ready(a, slot)
<1> DEFINE s == a.args  t == Ready(a, slot - 1)  u == Ready(a, slot)
           x == Prepared(a.filters[slot], Inputs[a.program][slot], a.args[slot])
<1>1. IsSequence(s) /\ Len(s) \in Nat
  BY SequenceFacts DEF Good
<1>2. slot \in 0 .. Len(s) /\ slot - 1 \in 0 .. Len(s) /\ slot > 0
  BY <1>1
<1>3. IsSequence(t) /\ u = Append(t, x)
  BY <1>2, ReadyGrows
<1> HIDE DEF s, t, u, x
<1>4. IsSequence(s \o t) /\ Append(s \o t, x) = s \o Append(t, x)
  BY <1>1, <1>3, Joined, ExtendJoined
<1>5. Append(s \o t, x) = (s \o t) \o <<x>>
  BY <1>4, Extended
<1>6. (s \o t) \o <<x>> = s \o u
  BY <1>3, <1>4, <1>5
<1> QED
  BY <1>4, <1>6 DEF s, t, u, x

LEMMA CastStep ==
    ASSUME NEW a, Good(a), NEW slot \in 1 .. Len(a.args), Taking(a, slot), CastArgument
    PROVE  Preparing(a, slot + 1)' \/ Casting(a, slot)'
<1> DEFINE on == On(a.program, a.args, slot, "filtered")
           next == On(a.program, a.args, slot + 1, "preparing")
           cells == a.args \o Ready(a, slot - 1)
           x == Got(a, slot)
<1>1. Top = on /\ Running = a.program /\ Front(calls) = a.calls
  BY EnteredTop DEF Taking
<1>2. [on EXCEPT !.slot = @ + 1, !.at = "preparing"] = next
  <2>1. [on EXCEPT !.slot = on.slot + 1] = On(a.program, a.args, slot + 1, "filtered")
    BY DEF On
  <2>2. [On(a.program, a.args, slot + 1, "filtered") EXCEPT !.at = "preparing"] = next
    BY DEF On
  <2> HIDE DEF on, next
  <2> QED
    BY <2>1, <2>2
<1>3. /\ stack' = a.floor \o (cells \o <<x>>) /\ stack' = stack /\ throwing' = FALSE
      /\ env' = Append(a.env, Env(a.program, 0))
  <2>1. ~throwing /\ UNCHANGED <<stack, env, throwing>>
    BY DEF CastArgument, InOnline, In
  <2>2. stack = a.floor \o (cells \o <<x>>) /\ env = Append(a.env, Env(a.program, 0))
    BY <2>1, Zenon DEF Taking, Entered, Holds
  <2> QED
    BY <2>1, <2>2
<1>4. /\ IsSequence(cells)
      /\ cells \o <<Prepared(a.filters[slot], Inputs[a.program][slot], a.args[slot])>>
            = a.args \o Ready(a, slot)
  BY ReadyJoined
<1>5. IsSequence(a.floor) /\ IsSequence(a.calls) /\ base = Len(a.floor) /\ bases = a.bases
  BY DEF Good, Above, Taking, Entered
<1>6. CASE Inputs[a.program][slot].cast
  <2>1. calls' = a.calls \o <<next, Operator("cast", FALSE)>> /\ PushBase(stack, -1)
    BY <1>1, <1>2, <1>6 DEF CastArgument, Calls, On
  <2>2. calls' = Append(Append(a.calls, next), Operator("cast", FALSE))
    <3> DEFINE c == a.calls  o == Operator("cast", FALSE)
    <3>1. IsSequence(c)
      BY <1>5
    <3> HIDE DEF c, o, next
    <3>2. c \o <<next, o>> = Append(Append(c, next), o)
      BY <3>1, TwoExtended
    <3> QED
      BY <2>1, <3>2 DEF c, o
  <2>3. base' = Len(a.floor \o cells) /\ bases' = Append(a.bases, Len(a.floor))
    <3> DEFINE f == a.floor  s == cells \o <<x>>  l == Len(f \o cells)
    <3>1. IsSequence(f) /\ IsSequence(cells)
      BY <1>4, <1>5
    <3>2. base' = Absolute(f \o s, base, -1) /\ bases' = Append(a.bases, Len(f))
      BY <1>3, <1>5, <2>1 DEF PushBase
    <3> HIDE DEF f, cells, x
    <3>3. IsSequence(f \o cells) /\ Len(f \o cells) = Len(f) + Len(cells)
      BY <3>1, Joined
    <3>4. IsSequence(s) /\ Len(s) = Len(cells) + 1
      BY <3>1, Single, Joined
    <3> HIDE DEF s
    <3>5. Len(f \o s) = Len(f) + Len(s)
      BY <3>1, <3>4, Joined
    <3>6. Len(f) \in Nat /\ Len(cells) \in Nat
      BY <3>1, SequenceFacts
    <3>7. Absolute(f \o s, base, -1) = Len(f) + Len(cells)
      BY <3>4, <3>5, <3>6 DEF Absolute
    <3> QED
      BY <3>2, <3>3, <3>7 DEF f
  <2>4. Casting(a, slot)'
    BY <1>3, <1>6, <2>2, <2>3 DEF Casting, Operating, Holds
  <2> QED
    BY <2>4
<1>7. CASE ~Inputs[a.program][slot].cast
  <2>1. calls' = Append(a.calls, next) /\ UNCHANGED <<base, bases>>
    BY <1>1, <1>2, <1>7 DEF CastArgument, GoesOn, On
  <2>2. Prepared(a.filters[slot], Inputs[a.program][slot], a.args[slot]) = x
    BY <1>7 DEF Prepared, Casted, Got
  <2>3. (slot + 1) - 1 = slot
    OBVIOUS
  <2>4. stack' = a.floor \o (a.args \o Ready(a, (slot + 1) - 1))
    BY <1>3, <1>4, <2>2, <2>3
  <2>5. Preparing(a, slot + 1)'
    BY <1>3, <1>5, <2>1, <2>4 DEF Preparing, Entered, Holds
  <2> QED
    BY <2>5
<1> QED
  BY <1>6, <1>7

LEMMA BeginStep ==
    ASSUME NEW a, Good(a), NEW slot \in 1 .. Len(a.args) + 1, Preparing(a, slot), BeginProgram
    PROVE  Executing(a, 0)'
<1> DEFINE on == On(a.program, a.args, slot, "preparing")  n == Len(a.args)
           s == a.args  t == Ready(a, n)  f == a.floor
<1>1. Top = on /\ Front(calls) = a.calls /\ Arguments = n
  BY EnteredTop DEF Preparing
<1>2. /\ IsSequence(s) /\ n \in Nat
      /\ stack = f \o (a.args \o Ready(a, slot - 1)) /\ ~throwing
      /\ IsSequence(f) /\ base = Len(f)
  BY PreparingArgument DEF BeginProgram, InOnline, In
<1>3. slot = n + 1 /\ slot - 1 = n
  BY <1>1, <1>2 DEF BeginProgram, On
<1>4. IsSequence(t) /\ Len(t) = n
  <2>1. n \in 0 .. n
    BY <1>2
  <2> QED
    BY <2>1, ReadyGrows
<1>5. stack = f \o (s \o t)
  BY <1>2, <1>3
<1>6. stack' = EraseRange(stack, base, 0, n)
  BY <1>1 DEF BeginProgram
<1>7. EraseRange(f \o (s \o t), Len(f), 0, n) = f \o t
  <2> DEFINE u == s \o t
  <2>1. Len(s) = n
    OBVIOUS
  <2> HIDE DEF s, t, n, f
  <2>2. IsSequence(u) /\ Len(u) = n + n /\ SubSeq(u, n + 1, Len(u)) = t
    <3>1. IsSequence(u) /\ Len(u) = Len(s) + Len(t)
      BY <1>2, <1>4, Joined
    <3>2. SubSeq(u, Len(s) + 1, Len(u)) = t
      BY <1>2, <1>4, PartsOfJoined
    <3> QED
      BY <1>4, <2>1, <3>1, <3>2
  <2> HIDE DEF u
  <2>3. Absolute(u, 0, 0) = 0 /\ Absolute(u, 0, n) = n
    BY <1>2 DEF Absolute
  <2>4. Absolute(u, 0, 0) \in 0 .. Absolute(u, 0, n) /\ Absolute(u, 0, n) <= Len(u)
    BY <1>2, <2>2, <2>3
  <2>5. EraseRange(f \o u, Len(f), 0, n) = f \o EraseRange(u, 0, 0, n)
    <3>1. IsSequence(f) /\ IsSequence(u) /\ 0 \in Int /\ n \in Int
      BY <1>2, <2>2
    <3> QED
      BY <2>4, <3>1, EraseInFrame
  <2>6. EraseRange(u, 0, 0, n) = SubSeq(u, 1, 0) \o t
    BY <2>2, <2>3 DEF EraseRange
  <2>7. SubSeq(u, 1, 0) = <<>>
    <3>1. 0 \in 0 .. Len(u)
      BY <1>2, <2>2
    <3>2. IsSequence(SubSeq(u, 1, 0)) /\ Len(SubSeq(u, 1, 0)) = 0
      BY <2>2, <3>1, Split
    <3> QED
      BY <3>2, SequenceFacts
  <2>8. EraseRange(u, 0, 0, n) = t
    BY <1>4, <2>6, <2>7, JoinNothing
  <2> QED
    BY <2>5, <2>8 DEF u
<1>8. stack' = f \o Frames(a)[0]
  BY <1>2, <1>5, <1>6, <1>7, FramesAccept
<1>9. calls' = Append(a.calls, On(a.program, a.args, n + 1, "running"))
  <2>1. [on EXCEPT !.at = "running"] = On(a.program, a.args, n + 1, "running")
    BY <1>3 DEF On
  <2> QED
    BY <1>1, <2>1 DEF BeginProgram, GoesOn
<1> QED
  BY <1>2, <1>8, <1>9 DEF BeginProgram, Preparing, Executing, Entered, Holds

LEMMA InstructionInFrame ==
    ASSUME NEW f, NEW cells, IsSequence(f), IsSequence(cells), NEW p,
           NEW ins \in Instructions, Accepts(ins, cells)
    PROVE  /\ ins.op = "push" =>
                PushIndex(f \o cells, Len(f), ins.at) = f \o Effect(p, ins, cells)
           /\ ins.op = "swap" =>
                Swap(f \o cells, Len(f), ins.at, ins.with) = f \o Effect(p, ins, cells)
           /\ ins.op = "erase" =>
                EraseRange(f \o cells, Len(f), ins.at, ins.end) = f \o Effect(p, ins, cells)
           /\ ins.op = "data" => Append(f \o cells, Datum(p, ins.at)) = f \o Effect(p, ins, cells)
<1>1. ASSUME ins.op = "push"
      PROVE  PushIndex(f \o cells, Len(f), ins.at) = f \o Effect(p, ins, cells)
  <2>1. ins.at \in Int /\ Valid(cells, 0, ins.at) /\ Effect(p, ins, cells) = PushIndex(cells, 0, ins.at)
    BY <1>1, Fields DEF Accepts, Effect
  <2> QED
    BY <2>1, PushInFrame
<1>2. ASSUME ins.op = "swap"
      PROVE  Swap(f \o cells, Len(f), ins.at, ins.with) = f \o Effect(p, ins, cells)
  <2> DEFINE i == ins.at  j == ins.with
  <2>1. /\ i \in Int /\ j \in Int /\ Valid(cells, 0, i) /\ Valid(cells, 0, j)
        /\ Effect(p, ins, cells) = Swap(cells, 0, i, j)
    BY <1>2, Fields DEF Accepts, Effect
  <2> HIDE DEF i, j
  <2>2. Swap(f \o cells, Len(f), i, j) = f \o Swap(cells, 0, i, j)
    <3>1. /\ IsSequence(f) /\ IsSequence(cells) /\ i \in Int /\ j \in Int
          /\ Valid(cells, 0, i) /\ Valid(cells, 0, j)
      BY <2>1
    <3> QED
      BY ONLY <3>1, SwapInFrame
  <2> QED
    BY <2>1, <2>2 DEF i, j
<1>3. ASSUME ins.op = "erase"
      PROVE  EraseRange(f \o cells, Len(f), ins.at, ins.end) = f \o Effect(p, ins, cells)
  <2> DEFINE i == ins.at  j == ins.end
  <2>1. /\ i \in Int /\ j \in Int /\ Absolute(cells, 0, i) \in 0 .. Absolute(cells, 0, j)
        /\ Absolute(cells, 0, j) <= Len(cells) /\ Effect(p, ins, cells) = EraseRange(cells, 0, i, j)
    BY <1>3, Fields DEF Accepts, Effect
  <2> HIDE DEF i, j
  <2>2. EraseRange(f \o cells, Len(f), i, j) = f \o EraseRange(cells, 0, i, j)
    BY <2>1, EraseInFrame
  <2> QED
    BY <2>1, <2>2 DEF i, j
<1>4. ASSUME ins.op = "data"
      PROVE  Append(f \o cells, Datum(p, ins.at)) = f \o Effect(p, ins, cells)
  <2> DEFINE x == Datum(p, ins.at)
  <2>1. Effect(p, ins, cells) = Append(cells, x)
    BY <1>4 DEF Effect
  <2> HIDE DEF x
  <2>2. Append(f \o cells, x) = f \o Append(cells, x)
    BY ExtendJoined
  <2> QED
    BY <2>1, <2>2 DEF x
<1> QED
  BY <1>1, <1>2, <1>3, <1>4

\* The instruction that is fetched, and the cells it is given
LEMMA Fetched ==
    ASSUME NEW a, Good(a), NEW k \in 0 .. Len(Code[a.program]), Executing(a, k),
           NEW op, Fetches(op)
    PROVE  /\ k + 1 \in 1 .. Len(Code[a.program]) /\ (k + 1) - 1 = k
           /\ Running = a.program /\ Instruction = Code[a.program][k + 1] /\ Instruction.op = op
           /\ env' = Append(a.env, Env(a.program, k + 1))
           /\ stack = a.floor \o Frames(a)[k] /\ base = Len(a.floor) /\ ~throwing
           /\ IsSequence(a.floor) /\ IsSequence(Frames(a)[k])
           /\ Code[a.program][k + 1] \in Instructions
           /\ Accepts(Code[a.program][k + 1], Frames(a)[k])
           /\ Frames(a)[k + 1] = Effect(a.program, Code[a.program][k + 1], Frames(a)[k])
<1> DEFINE L == Len(Code[a.program])
<1>1. /\ Running = a.program /\ Pointer = k
      /\ \A m : [env EXCEPT ![Len(env)].pointer = m] = Append(a.env, Env(a.program, m))
  BY EnteredTop DEF Executing
<1>2. L \in Nat
  BY FramesAccept
<1>3. k < L /\ Instruction = Code[a.program][k + 1] /\ Instruction.op = op
  BY <1>1 DEF Fetches, Instruction
<1>4. env' = Append(a.env, Env(a.program, k + 1))
  <2>1. env[Len(env)].pointer = k
    BY <1>1 DEF Pointer, Last
  <2>2. env' = [env EXCEPT ![Len(env)].pointer = k + 1]
    BY <2>1 DEF Fetches
  <2> QED
    BY <1>1, <2>2
<1>5. stack = a.floor \o Frames(a)[k] /\ base = Len(a.floor) /\ ~throwing /\ IsSequence(a.floor)
  BY DEF Fetches, InOnline, In, Executing, Entered, Holds, Good, Above
<1> HIDE DEF L
<1>6. k + 1 \in 1 .. L /\ (k + 1) - 1 = k /\ k \in 0 .. L
  BY <1>2, <1>3 DEF L
<1>7. /\ IsSequence(Frames(a)[k])
      /\ Code[a.program][k + 1] \in Instructions
      /\ Accepts(Code[a.program][k + 1], Frames(a)[k])
      /\ Frames(a)[k + 1] = Effect(a.program, Code[a.program][k + 1], Frames(a)[k])
  BY <1>6, FramesAccept DEF L
<1> QED
  BY <1>1, <1>3, <1>4, <1>5, <1>6, <1>7 DEF L

LEMMA RunStep ==
    ASSUME NEW a, Good(a), NEW k \in 0 .. Len(Code[a.program]), Executing(a, k),
           RunStackInstruction
    PROVE  k + 1 \in 1 .. Len(Code[a.program]) /\ Executing(a, k + 1)'
<1> DEFINE p == a.program  ins == Code[p][k + 1]  f == a.floor  cells == Frames(a)[k]
<1>1. PICK op \in {"push", "swap", "erase", "data"} : Fetches(op)
  BY DEF RunStackInstruction
<1>2. /\ k + 1 \in 1 .. Len(Code[p])
      /\ Running = p /\ Instruction = ins
      /\ env' = Append(a.env, Env(p, k + 1))
      /\ stack = f \o cells /\ base = Len(f) /\ ~throwing
      /\ IsSequence(f) /\ IsSequence(cells) /\ ins \in Instructions /\ Accepts(ins, cells)
      /\ Frames(a)[k + 1] = Effect(p, ins, cells)
  BY <1>1, Fetched
<1> HIDE DEF p, ins, f, cells
<1>3. stack' = f \o Effect(p, ins, cells)
  <2>1. /\ ins.op = "push" => PushIndex(f \o cells, Len(f), ins.at) = f \o Effect(p, ins, cells)
        /\ ins.op = "swap" =>
                Swap(f \o cells, Len(f), ins.at, ins.with) = f \o Effect(p, ins, cells)
        /\ ins.op = "erase" =>
                EraseRange(f \o cells, Len(f), ins.at, ins.end) = f \o Effect(p, ins, cells)
        /\ ins.op = "data" => Append(f \o cells, Datum(p, ins.at)) = f \o Effect(p, ins, cells)
    BY <1>2, InstructionInFrame
  <2>2. CASE Fetches("push") /\ stack' = PushIndex(stack, base, Instruction.at)
    BY <1>2, <2>1, <2>2 DEF Fetches
  <2>3. CASE Fetches("swap") /\ stack' = Swap(stack, base, Instruction.at, Instruction.with)
    BY <1>2, <2>1, <2>3 DEF Fetches
  <2>4. CASE Fetches("erase") /\ stack' = EraseRange(stack, base, Instruction.at, Instruction.end)
    BY <1>2, <2>1, <2>4 DEF Fetches
  <2>5. CASE Fetches("data") /\ stack' = Append(stack, Datum(Running, Instruction.at))
    BY <1>2, <2>1, <2>5 DEF Fetches
  <2> QED
    BY <2>2, <2>3, <2>4, <2>5 DEF RunStackInstruction
<1>4. stack' = a.floor \o Frames(a)[k + 1]
  BY <1>2, <1>3 DEF f
<1>5. UNCHANGED <<base, bases, calls, throwing>>
  BY DEF RunStackInstruction
<1>6. Executing(a, k + 1)'
  BY <1>2, <1>4, <1>5 DEF Executing, Entered, Holds, p
<1> QED
  BY <1>2, <1>6 DEF p

LEMMA EnterOperatorStep ==
    ASSUME NEW a, Good(a), NEW k \in 0 .. Len(Code[a.program]), Executing(a, k), EnterOperator
    PROVE  k + 1 \in 1 .. Len(Code[a.program]) /\ Calling(a, k + 1)'
<1> DEFINE p == a.program  ins == Code[p][k + 1]  f == a.floor  cells == Frames(a)[k]
           rest == SubSeq(cells, 1, Len(cells) - ins.nargs)
<1>1. Fetches("call")
  BY DEF EnterOperator
<1>2. /\ k + 1 \in 1 .. Len(Code[p]) /\ (k + 1) - 1 = k
      /\ Instruction = ins /\ ins.op = "call"
      /\ env' = Append(a.env, Env(p, k + 1))
      /\ stack = f \o cells /\ base = Len(f) /\ ~throwing
      /\ IsSequence(f) /\ IsSequence(cells) /\ Accepts(ins, cells)
  BY <1>1, Fetched
<1>3. ins.nargs \in 1 .. Len(cells)
  BY <1>2 DEF Accepts
<1>4. base' = Len(f \o rest) /\ bases' = Append(a.bases, Len(f))
  <2>1. base' = Absolute(f \o cells, base, -ins.nargs) /\ bases' = Append(a.bases, Len(f))
    BY <1>2 DEF EnterOperator, PushBase, Executing, Entered
  <2> DEFINE n == ins.nargs
  <2>2. n \in 1 .. Len(cells) /\ IsSequence(f) /\ IsSequence(cells)
    BY <1>2, <1>3
  <2> HIDE DEF n, f, cells
  <2>3. Len(f) \in Nat /\ Len(cells) \in Nat /\ Len(f \o cells) = Len(f) + Len(cells)
    BY <2>2, SequenceFacts, Joined
  <2>4. IsSequence(SubSeq(cells, 1, Len(cells) - n)) /\ Len(SubSeq(cells, 1, Len(cells) - n)) = Len(cells) - n
    BY <2>2, CallOnFrame
  <2> DEFINE r == SubSeq(cells, 1, Len(cells) - n)
  <2> HIDE DEF r
  <2>5. Len(f \o r) = Len(f) + (Len(cells) - n)
    BY <2>2, <2>4, Joined DEF r
  <2>6. Absolute(f \o cells, base, -n) = Len(f) + (Len(cells) - n)
    BY <2>2, <2>3 DEF Absolute
  <2> QED
    BY <2>1, <2>5, <2>6 DEF n, r
<1>5. /\ calls' = Append(Append(a.calls, On(p, a.args, Len(a.args) + 1, "running")), Operator(ins.node, TRUE))
      /\ stack' = f \o cells /\ throwing' = FALSE
  BY <1>2 DEF EnterOperator, Executing, Entered
<1>6. Calling(a, k + 1)'
  <2>1. /\ Code[a.program][k + 1] = ins /\ Frames(a)[(k + 1) - 1] = cells
    BY <1>2
  <2> HIDE DEF cells, ins
  <2> QED
    BY <1>2, <1>4, <1>5, <2>1 DEF Calling, Operating, Holds
<1> QED
  BY <1>2, <1>6

\* An operator whose arguments `top' are above `rest' has them for its frame,
LEMMA ArgumentsAreFrame ==
    ASSUME NEW f, NEW rest, NEW top, IsSequence(f), IsSequence(rest), IsSequence(top)
    PROVE  SubSeq(f \o (rest \o top), Len(f \o rest) + 1, Len(f \o (rest \o top))) = top
<1> DEFINE g == f \o rest
<1>1. IsSequence(g) /\ f \o (rest \o top) = g \o top
  BY Joined, JoinAssociative
<1> HIDE DEF g
<1>2. SubSeq(g \o top, Len(g) + 1, Len(g \o top)) = top
  BY <1>1, PartsOfJoined
<1> QED
  BY <1>1, <1>2 DEF g

\* and leaves its result in their place.
LEMMA OperatorInFrame ==
    ASSUME NEW f, NEW rest, NEW top, NEW result, IsSequence(f), IsSequence(rest), IsSequence(top)
    PROVE  EraseRange(Append(f \o (rest \o top), result), Len(f \o rest), 0, -1)
             = f \o (rest \o <<result>>)
<1> DEFINE g == f \o rest  one == <<result>>  v == top \o one
<1>1. IsSequence(one) /\ Len(one) = 1
  BY Single
<1>2. IsSequence(g) /\ f \o (rest \o top) = g \o top
  BY Joined, JoinAssociative
<1>3. Append(top, result) = v
  BY Extended
<1>4. g \o one = f \o (rest \o one)
  <2> HIDE DEF one
  <2> QED
    BY <1>1, JoinAssociative
<1> HIDE DEF g, one
<1>5. Append(g \o top, result) = g \o v
  <2>1. IsSequence(g) /\ IsSequence(top)
    BY <1>2
  <2>2. Append(g \o top, result) = g \o Append(top, result)
    BY ONLY <2>1, ExtendJoined
  <2> QED
    BY <1>3, <2>2
<1>6. /\ IsSequence(v) /\ Len(v) = Len(top) + 1 /\ Len(top) \in Nat
      /\ SubSeq(v, Len(top) + 1, Len(v)) = one
  <2>1. IsSequence(v) /\ Len(v) = Len(top) + Len(one) /\ Len(top) \in Nat
    BY <1>1, Joined, SequenceFacts
  <2>2. SubSeq(v, Len(top) + 1, Len(v)) = one
    BY <1>1, PartsOfJoined
  <2> QED
    BY <1>1, <2>1, <2>2
<1> HIDE DEF v
<1>7. Absolute(v, 0, 0) = 0 /\ Absolute(v, 0, -1) = Len(top)
  BY <1>6 DEF Absolute
<1>8. EraseRange(g \o v, Len(g), 0, -1) = g \o EraseRange(v, 0, 0, -1)
  <2>1. /\ 0 \in Int /\ -1 \in Int /\ Absolute(v, 0, 0) \in 0 .. Absolute(v, 0, -1)
        /\ Absolute(v, 0, -1) <= Len(v)
    BY <1>6, <1>7
  <2> QED
    BY <1>2, <1>6, <2>1, EraseInFrame
<1>9. EraseRange(v, 0, 0, -1) = one
  <2>1. SubSeq(v, 1, 0) = <<>>
    <3>1. 0 \in 0 .. Len(v)
      BY <1>6
    <3>2. IsSequence(SubSeq(v, 1, 0)) /\ Len(SubSeq(v, 1, 0)) = 0
      BY <1>6, <3>1, Split
    <3> QED
      BY <3>2, SequenceFacts
  <2>2. EraseRange(v, 0, 0, -1) = <<>> \o one
    BY <1>6, <1>7, <2>1 DEF EraseRange
  <2> QED
    BY <1>1, <2>2, JoinNothing
<1> QED
  BY <1>2, <1>4, <1>5, <1>8, <1>9 DEF g, one

\* The stack and the bases when the operator returns
LEMMA OperatorReturns ==
    ASSUME NEW a, Good(a), NEW slot, NEW at, NEW pointer, NEW operator, NEW rest, NEW top,
           Operating(a, slot, at, pointer, operator, rest), stack = a.floor \o (rest \o top),
           IsSequence(rest), IsSequence(top), ReturnOperator
    PROVE  /\ Entered(a, slot, at, pointer)' /\ throwing' = FALSE
           /\ stack' = a.floor \o (rest \o <<Apply(operator.node, top)>>)
<1> DEFINE f == a.floor  on == On(a.program, a.args, slot, at)
<1>1. /\ Top = operator /\ Front(calls) = Append(a.calls, on)
      /\ bases # <<>> /\ Last(bases) = Len(f) /\ Front(bases) = a.bases
  BY OperatingTop
<1>2. IsSequence(f) /\ base = Len(f \o rest) /\ env = Append(a.env, Env(a.program, pointer))
  BY DEF Good, Above, Operating
<1>3. Frame = top
  <2> HIDE DEF f
  <2>1. SubSeq(f \o (rest \o top), Len(f \o rest) + 1, Len(f \o (rest \o top))) = top
    BY <1>2, ArgumentsAreFrame
  <2> QED
    BY <1>2, <2>1 DEF Frame, f
<1>4. stack' = f \o (rest \o <<Apply(operator.node, top)>>)
  <2> DEFINE result == Apply(operator.node, top)
  <2>1. stack' = EraseRange(Append(f \o (rest \o top), result), Len(f \o rest), 0, -1)
    BY <1>1, <1>2, <1>3 DEF ReturnOperator, Result
  <2> HIDE DEF f, result
  <2>2. IsSequence(f) /\ IsSequence(rest) /\ IsSequence(top)
    BY <1>2
  <2>3. EraseRange(Append(f \o (rest \o top), result), Len(f \o rest), 0, -1) = f \o (rest \o <<result>>)
    BY <2>2, OperatorInFrame
  <2> QED
    BY <2>1, <2>3 DEF result
<1>5. /\ calls' = Append(a.calls, on) /\ base' = Len(f) /\ bases' = a.bases
      /\ UNCHANGED <<env, throwing>> /\ ~throwing
  BY <1>1 DEF ReturnOperator, PopBase, Leaves, In
<1> QED
  BY <1>2, <1>4, <1>5 DEF Entered

LEMMA ReturnFromCast ==
    ASSUME NEW a, Good(a), NEW slot \in 1 .. Len(a.args), Casting(a, slot), ReturnOperator
    PROVE  Preparing(a, slot + 1)'
<1> DEFINE rest == a.args \o Ready(a, slot - 1)  x == Got(a, slot)  top == <<x>>
           cast == Operator("cast", FALSE)
<1>1. /\ IsSequence(rest)
      /\ rest \o <<Prepared(a.filters[slot], Inputs[a.program][slot], a.args[slot])>>
            = a.args \o Ready(a, slot)
  BY ReadyJoined
<1>2. /\ Operating(a, slot + 1, "preparing", 0, cast, rest)
      /\ stack = a.floor \o (rest \o top) /\ Inputs[a.program][slot].cast
  BY DEF Casting, Holds, ReturnOperator, In
<1>3. IsSequence(top)
  BY Single
<1>4. Apply(cast.node, top) = Prepared(a.filters[slot], Inputs[a.program][slot], a.args[slot])
  BY <1>2 DEF Prepared, Casted, Cast, Operator, Got
<1> HIDE DEF rest, top, cast
<1>5. /\ Entered(a, slot + 1, "preparing", 0)' /\ throwing' = FALSE
      /\ stack' = a.floor \o (rest \o <<Apply(cast.node, top)>>)
  BY <1>1, <1>2, <1>3, OperatorReturns
<1>6. stack' = a.floor \o (a.args \o Ready(a, slot))
  BY <1>1, <1>4, <1>5
<1>7. (slot + 1) - 1 = slot
  OBVIOUS
<1> QED
  BY <1>5, <1>6, <1>7 DEF Preparing, Holds, Entered

LEMMA ReturnFromCall ==
    ASSUME NEW a, Good(a), NEW k \in 1 .. Len(Code[a.program]), Calling(a, k), ReturnOperator
    PROVE  Executing(a, k)'
<1> DEFINE ins == Code[a.program][k]  cells == Frames(a)[k - 1]
           rest == SubSeq(cells, 1, Len(cells) - ins.nargs)
           top == TopCells(cells, ins.nargs)
           operator == Operator(ins.node, TRUE)
<1>1. /\ IsSequence(cells) /\ Accepts(ins, cells) /\ Frames(a)[k] = Effect(a.program, ins, cells)
  <2>1. k - 1 \in 0 .. Len(Code[a.program])
    BY FramesAccept
  <2> QED
    BY <2>1, FramesAccept
<1>2. /\ ins.op = "call" /\ stack = a.floor \o cells
      /\ Operating(a, Len(a.args) + 1, "running", k, operator, rest)
  BY Zenon DEF Calling, Holds, ReturnOperator, In
<1>3. ins.nargs \in 1 .. Len(cells)
  BY <1>1, <1>2 DEF Accepts
<1>4. IsSequence(rest) /\ IsSequence(top) /\ cells = rest \o top
  <2> DEFINE n == ins.nargs
  <2>1. n \in 1 .. Len(cells)
    BY <1>3
  <2> HIDE DEF n, cells
  <2>2. /\ IsSequence(SubSeq(cells, 1, Len(cells) - n)) /\ IsSequence(TopCells(cells, n))
        /\ cells = SubSeq(cells, 1, Len(cells) - n) \o TopCells(cells, n)
    <3>1. IsSequence(cells)
      BY <1>1
    <3> QED
      BY ONLY <2>1, <3>1, CallOnFrame, Zenon
  <2> QED
    BY <2>2, Zenon DEF n
<1>5. Frames(a)[k] = rest \o <<Apply(operator.node, top)>>
  BY <1>1, <1>2, Zenon DEF Effect, Operator
<1> HIDE DEF rest, top, operator, cells
<1>6. stack = a.floor \o (rest \o top)
  BY <1>2, <1>4
<1>7. /\ Entered(a, Len(a.args) + 1, "running", k)' /\ throwing' = FALSE
      /\ stack' = a.floor \o (rest \o <<Apply(operator.node, top)>>)
  BY <1>2, <1>4, <1>6, OperatorReturns
<1>8. stack' = a.floor \o Frames(a)[k]
  BY <1>5, <1>7
<1> QED
  BY <1>7, <1>8 DEF Executing, Holds, Entered

\* An operator that throws leaves the ground as it was.
LEMMA FailStep ==
    ASSUME NEW a, Good(a), NEW slot, NEW at, NEW pointer, NEW operator, NEW rest, NEW cells,
           Operating(a, slot, at, pointer, operator, rest), Holds(a, cells),
           IsSequence(cells), FailOperator
    PROVE  /\ Operating(a, slot, at, pointer, operator, rest)'
           /\ \A s : Holds(a, s)'
<1>1. Above(a.ground, stack)
  BY FrameAbove DEF Holds
<1>2. Above(a.ground, Append(stack, NoTensor))
  <2> DEFINE one == <<NoTensor>>
  <2>1. IsSequence(one) /\ IsSequence(stack) /\ IsSequence(a.ground)
    BY <1>1, Single DEF Above, Good
  <2>2. Append(stack, NoTensor) = stack \o one
    BY <2>1, Extended
  <2> HIDE DEF one
  <2> DEFINE g == a.ground  t == stack
  <2>3. IsSequence(one) /\ IsSequence(g) /\ Above(g, t)
    BY <1>1, <2>1
  <2> HIDE DEF g, t
  <2>4. Above(g, t \o one)
    BY <2>3, AboveJoined
  <2> QED
    BY <2>2, <2>4 DEF g, t
<1>3. throwing' = TRUE /\ Above(a.ground, stack')
  BY <1>1, <1>2 DEF FailOperator, Throws
<1> QED
  BY <1>3 DEF FailOperator, Throws, Operating, Holds

LEMMA ReturnOnlineStep ==
    ASSUME NEW a, Good(a), NEW k \in 0 .. Len(Code[a.program]), Executing(a, k), ReturnOnline
    PROVE  Executing(a, k)' \/ Gone(a)'
<1> DEFINE L == Len(Code[a.program])  f == a.floor  cells == Frames(a)[k]
<1>1. /\ Pointer = k /\ Running = a.program /\ Front(calls) = a.calls /\ Front(env) = a.env
      /\ Top.program = a.program
  BY EnteredTop DEF Executing, On
<1>2. k = L /\ ~throwing
  BY <1>1 DEF ReturnOnline, InOnline, In
<1>3. /\ stack = f \o cells /\ base = Len(f) /\ bases = a.bases /\ IsSequence(f)
      /\ IsSequence(cells)
  BY <1>2, FramesAccept DEF Executing, Entered, Holds, Good, Above
<1>4. FrameSize(stack, base) = Len(cells)
  <2> HIDE DEF f, cells
  <2>1. Len(f \o cells) = Len(f) + Len(cells) /\ Len(f) \in Nat /\ Len(cells) \in Nat
    BY <1>3, Joined, SequenceFacts
  <2> QED
    BY <1>3, <2>1 DEF FrameSize
<1>5. CASE Len(cells) # Outputs[a.program]
  <2>1. UNCHANGED stack /\ Throws
    BY <1>1, <1>4, <1>5 DEF ReturnOnline
  <2>2. Above(a.ground, stack)
    BY <1>3, FrameAbove
  <2>3. Executing(a, k)'
    BY <2>1, <2>2 DEF Throws, Executing, Entered, Holds
  <2> QED
    BY <2>3
<1>6. CASE Len(cells) = Outputs[a.program]
  <2>1. PopBase /\ env' = a.env /\ calls' = a.calls /\ UNCHANGED <<stack, throwing>>
    BY <1>1, <1>4, <1>6 DEF ReturnOnline, Leaves
  <2>2. a.bases # <<>>
    BY SequenceFacts DEF Good
  <2>3. base' = Last(a.bases) /\ bases' = Front(a.bases)
    BY <1>3, <2>1, <2>2 DEF PopBase
  <2>4. Gone(a)'
    BY <1>2, <1>3, <1>6, <2>1, <2>3 DEF Gone, Holds
  <2> QED
    BY <2>4
<1> QED
  BY <1>5, <1>6

LEMMA UnwindOperator ==
    ASSUME NEW a, Good(a), NEW slot, NEW at, NEW pointer, NEW operator, NEW rest,
           Operating(a, slot, at, pointer, operator, rest), operator.call = "operator", Unwind
    PROVE  Entered(a, slot, at, pointer)' /\ throwing' = TRUE /\ stack' = stack
<1> DEFINE on == On(a.program, a.args, slot, at)  below == Append(a.calls, on)
<1>1. /\ Top = operator /\ Front(calls) = below
      /\ bases # <<>> /\ Last(bases) = Len(a.floor) /\ Front(bases) = a.bases
  BY OperatingTop
<1>2. PopBase /\ UNCHANGED <<stack, env>> /\ Leaves
  BY <1>1 DEF Unwind
<1>3. Len(calls) > 1
  <2>1. calls = Append(below, operator) /\ IsSequence(a.calls)
    BY DEF Operating, Good
  <2> HIDE DEF on
  <2>2. IsSequence(below) /\ Len(below) = Len(a.calls) + 1 /\ Len(a.calls) \in Nat
    BY <2>1, Extended, SequenceFacts
  <2> HIDE DEF below
  <2>3. Len(Append(below, operator)) = Len(below) + 1
    BY <2>2, Extended
  <2> QED
    BY <2>1, <2>2, <2>3
<1>4. throwing' = TRUE
  BY <1>3 DEF Unwind
<1>5. calls' = below /\ base' = Len(a.floor) /\ bases' = a.bases
  BY <1>1, <1>2 DEF Leaves, PopBase
<1> QED
  BY <1>2, <1>4, <1>5 DEF Operating, Entered

LEMMA UnwindOnline ==
    ASSUME NEW a, Good(a), NEW slot, NEW at, NEW pointer, Entered(a, slot, at, pointer),
           Above(a.ground, stack), Unwind
    PROVE  Gone(a)'
<1> DEFINE on == On(a.program, a.args, slot, at)
<1>1. Top = on /\ Front(calls) = a.calls /\ Front(env) = a.env
  BY EnteredTop
<1>2. PopBase /\ env' = a.env /\ UNCHANGED stack /\ calls' = a.calls
  BY <1>1 DEF Unwind, Leaves, On
<1>3. Len(calls) > 1
  <2>1. calls = Append(a.calls, on) /\ IsSequence(a.calls) /\ a.calls # <<>>
    BY DEF Entered, Good
  <2> HIDE DEF on
  <2>2. Len(Append(a.calls, on)) = Len(a.calls) + 1
    BY <2>1, Extended
  <2>3. Len(a.calls) \in Nat /\ Len(a.calls) # 0
    BY <2>1, SequenceFacts
  <2> QED
    BY <2>1, <2>2, <2>3
<1>4. throwing' = TRUE
  BY <1>3 DEF Unwind
<1>5. base' = Last(a.bases) /\ bases' = Front(a.bases)
  <2>1. bases = a.bases /\ a.bases # <<>>
    BY SequenceFacts DEF Entered, Good
  <2> QED
    BY <1>2, <2>1 DEF PopBase
<1> QED
  BY <1>2, <1>4, <1>5 DEF Gone, Holds

-----------------------------------------------------------------------------
(***************************************************************************)
(* All the steps of an activation: it goes on, is left, or calls a filter. *)
(***************************************************************************)
LEMMA ActiveTop ==
    ASSUME NEW a, Good(a), Active(a)
    PROVE  /\ calls # <<>> /\ Top.call \in {"launch_online", "operator"}
           /\ InOnline("entering") => Entering(a)
           /\ InOnline("preparing") => \E slot \in 1 .. Len(a.args) + 1 : Preparing(a, slot)
           /\ InOnline("filtered") => \E slot \in 1 .. Len(a.args) : Taking(a, slot)
           /\ InOnline("running") => \E k \in 0 .. Len(Code[a.program]) : Executing(a, k)
           /\ Top.call = "operator" =>
                \/ \E slot \in 1 .. Len(a.args) : Casting(a, slot)
                \/ \E k \in 1 .. Len(Code[a.program]) : Calling(a, k)
           /\ Top.call = "launch_online" /\ throwing =>
                \E slot, at, pointer : Entered(a, slot, at, pointer) /\ Above(a.ground, stack)
<1>1. CASE Entering(a)
  <2> DEFINE on == On(a.program, a.args, 1, "entering")
  <2>1. calls = Append(a.calls, on) /\ IsSequence(a.calls) /\ ~throwing
    BY <1>1 DEF Entering, Good
  <2> HIDE DEF on
  <2>2. Top = on /\ calls # <<>>
    BY <2>1, LastExtended, Extended DEF Top
  <2> QED
    BY <1>1, <2>1, <2>2 DEF on, On, InOnline
<1>2. ASSUME NEW slot \in 1 .. Len(a.args) + 1, Preparing(a, slot)
      PROVE  /\ calls # <<>> /\ Top = On(a.program, a.args, slot, "preparing")
             /\ Entered(a, slot, "preparing", 0) /\ (throwing => Above(a.ground, stack))
  BY <1>2, EnteredTop DEF Preparing, Holds
<1>3. ASSUME NEW slot \in 1 .. Len(a.args), Taking(a, slot)
      PROVE  /\ calls # <<>> /\ Top = On(a.program, a.args, slot, "filtered")
             /\ Entered(a, slot, "filtered", 0) /\ (throwing => Above(a.ground, stack))
  BY <1>3, EnteredTop DEF Taking, Holds
<1>4. ASSUME NEW slot \in 1 .. Len(a.args), Casting(a, slot)
      PROVE  calls # <<>> /\ Top = Operator("cast", FALSE)
  BY <1>4, OperatingTop DEF Casting
<1>5. ASSUME NEW k \in 0 .. Len(Code[a.program]), Executing(a, k)
      PROVE  /\ calls # <<>> /\ Top = On(a.program, a.args, Len(a.args) + 1, "running")
             /\ Entered(a, Len(a.args) + 1, "running", k) /\ (throwing => Above(a.ground, stack))
  BY <1>5, EnteredTop DEF Executing, Holds
<1>6. ASSUME NEW k \in 1 .. Len(Code[a.program]), Calling(a, k)
      PROVE  calls # <<>> /\ Top = Operator(Code[a.program][k].node, TRUE)
  BY <1>6, OperatingTop DEF Calling
<1>7. CASE \E slot \in 1 .. Len(a.args) + 1 : Preparing(a, slot)
  <2>1. PICK m \in 1 .. Len(a.args) + 1 : Preparing(a, m)
    BY <1>7
  <2>2. calls # <<>> /\ Top.call = "launch_online" /\ Top.at = "preparing"
    BY <1>2, <2>1 DEF On
  <2>3. throwing => \E slot, at, pointer : Entered(a, slot, at, pointer) /\ Above(a.ground, stack)
    BY <1>2, <2>1, Zenon
  <2> QED
    BY <2>1, <2>2, <2>3 DEF InOnline
<1>8. CASE \E slot \in 1 .. Len(a.args) : Taking(a, slot)
  <2>1. PICK m \in 1 .. Len(a.args) : Taking(a, m)
    BY <1>8
  <2>2. calls # <<>> /\ Top.call = "launch_online" /\ Top.at = "filtered"
    BY <1>3, <2>1 DEF On
  <2>3. throwing => \E slot, at, pointer : Entered(a, slot, at, pointer) /\ Above(a.ground, stack)
    BY <1>3, <2>1, Zenon
  <2> QED
    BY <2>1, <2>2, <2>3 DEF InOnline
<1>9. CASE \E slot \in 1 .. Len(a.args) : Casting(a, slot)
  BY <1>4, <1>9 DEF Operator, InOnline, In
<1>10. CASE \E k \in 0 .. Len(Code[a.program]) : Executing(a, k)
  <2>1. PICK m \in 0 .. Len(Code[a.program]) : Executing(a, m)
    BY <1>10
  <2>2. calls # <<>> /\ Top.call = "launch_online" /\ Top.at = "running"
    BY <1>5, <2>1 DEF On
  <2>3. throwing => \E slot, at, pointer : Entered(a, slot, at, pointer) /\ Above(a.ground, stack)
    BY <1>5, <2>1, Zenon
  <2> QED
    BY <2>1, <2>2, <2>3 DEF InOnline
<1>11. CASE \E k \in 1 .. Len(Code[a.program]) : Calling(a, k)
  BY <1>6, <1>11 DEF Operator, InOnline, In
<1> QED
  BY <1>1, <1>7, <1>8, <1>9, <1>10, <1>11 DEF Active

\* What a call of launch_online, with what it calls, may do in a step
Continues(a) ==
    \/ Active(a)' \/ Gone(a)'
    \/ \E slot \in 1 .. Len(a.args) :
          a.filters[slot] \in Filters /\ Entering(Filtering(a, slot))'

LEMMA ActiveStep ==
    ASSUME NEW a, Good(a), Bound(a), Active(a), Next
    PROVE  Continues(a)
<1>0. Len(a.args) \in Nat /\ Len(Code[a.program]) \in Nat
  BY FramesAccept, SequenceFacts DEF Good
<1>1. ~Idle /\ ~In("run_hook") /\ ~In("launch_offline")
  BY ActiveTop DEF Idle, In
<1>2. CASE EnterOnline
  <2>1. Entering(a)
    BY <1>2, ActiveTop DEF EnterOnline
  <2>2. Preparing(a, 1)'
    BY <1>2, <2>1, EnterStep
  <2>3. 1 \in 1 .. Len(a.args) + 1
    BY <1>0
  <2> QED
    BY <2>2, <2>3 DEF Continues, Active
<1>3. CASE PushArgument
  <2>1. PICK slot \in 1 .. Len(a.args) + 1 : Preparing(a, slot)
    BY <1>3, ActiveTop DEF PushArgument
  <2>2. slot \in 1 .. Len(a.args) /\ Taking(a, slot)'
    BY <1>3, <2>1, PushStep
  <2> QED
    BY <2>2 DEF Continues, Active
<1>4. CASE FilterArgument
  <2>1. PICK slot \in 1 .. Len(a.args) + 1 : Preparing(a, slot)
    BY <1>4, ActiveTop DEF FilterArgument
  <2>2. /\ slot \in 1 .. Len(a.args) /\ a.filters[slot] \in Filters
        /\ Preparing(a, slot)' \/ Entering(Filtering(a, slot))'
    BY <1>4, <2>1, FilterStep
  <2> QED
    BY <2>1, <2>2 DEF Continues, Active
<1>5. CASE CastArgument
  <2>1. PICK slot \in 1 .. Len(a.args) : Taking(a, slot)
    BY <1>5, ActiveTop DEF CastArgument
  <2>2. Preparing(a, slot + 1)' \/ Casting(a, slot)'
    BY <1>5, <2>1, CastStep
  <2>3. slot + 1 \in 1 .. Len(a.args) + 1
    BY <1>0
  <2> QED
    BY <2>2, <2>3 DEF Continues, Active
<1>6. CASE BeginProgram
  <2>1. PICK slot \in 1 .. Len(a.args) + 1 : Preparing(a, slot)
    BY <1>6, ActiveTop DEF BeginProgram
  <2>2. Executing(a, 0)'
    BY <1>6, <2>1, BeginStep
  <2>3. 0 \in 0 .. Len(Code[a.program])
    BY <1>0
  <2> QED
    BY <2>2, <2>3 DEF Continues, Active
<1>7. CASE RunStackInstruction
  <2>1. PICK k \in 0 .. Len(Code[a.program]) : Executing(a, k)
    BY <1>7, ActiveTop DEF RunStackInstruction, Fetches
  <2>2. k + 1 \in 1 .. Len(Code[a.program]) /\ Executing(a, k + 1)'
    BY <1>7, <2>1, RunStep
  <2>3. k + 1 \in 0 .. Len(Code[a.program])
    BY <1>0, <2>2
  <2> QED
    BY <2>2, <2>3 DEF Continues, Active
<1>8. CASE EnterOperator
  <2>1. PICK k \in 0 .. Len(Code[a.program]) : Executing(a, k)
    BY <1>8, ActiveTop DEF EnterOperator, Fetches
  <2>2. k + 1 \in 1 .. Len(Code[a.program]) /\ Calling(a, k + 1)'
    BY <1>8, <2>1, EnterOperatorStep
  <2> QED
    BY <2>2 DEF Continues, Active
<1>9. CASE ReturnOnline
  <2>1. PICK k \in 0 .. Len(Code[a.program]) : Executing(a, k)
    BY <1>9, ActiveTop DEF ReturnOnline
  <2>2. Executing(a, k)' \/ Gone(a)'
    BY <1>9, <2>1, ReturnOnlineStep
  <2> QED
    BY <2>2 DEF Continues, Active
<1>10. ASSUME NEW slot \in 1 .. Len(a.args), Casting(a, slot),
              ReturnOperator \/ FailOperator \/ (Unwind /\ throwing)
       PROVE  Continues(a)
  <2> DEFINE rest == a.args \o Ready(a, slot - 1)  cells == rest \o <<Got(a, slot)>>
             operator == Operator("cast", FALSE)
  <2>1. slot + 1 \in 1 .. Len(a.args) + 1
    BY <1>0
  <2>2. CASE ReturnOperator
    BY <1>10, <2>1, <2>2, ReturnFromCast DEF Continues, Active
  <2>3. /\ Operating(a, slot + 1, "preparing", 0, operator, rest)
        /\ Holds(a, cells) /\ Inputs[a.program][slot].cast /\ operator.call = "operator"
    BY <1>10 DEF Casting, Operator
  <2>4. IsSequence(cells)
    <3>1. IsSequence(rest)
      BY ReadyJoined
    <3> HIDE DEF rest
    <3> QED
      BY <3>1, Single, Joined
  <2>5. CASE FailOperator
    <3> HIDE DEF rest, cells, operator
    <3>1. Operating(a, slot + 1, "preparing", 0, operator, rest)' /\ Holds(a, cells)'
      BY <2>3, <2>4, <2>5, FailStep
    <3>2. Casting(a, slot)'
      BY <2>3, <3>1 DEF Casting, rest, cells, operator
    <3> QED
      BY <3>2 DEF Continues, Active
  <2>6. CASE Unwind /\ throwing
    <3> HIDE DEF rest, cells, operator
    <3>1. Entered(a, slot + 1, "preparing", 0)' /\ throwing' = TRUE /\ stack' = stack
      BY <2>3, <2>6, UnwindOperator
    <3>2. Preparing(a, slot + 1)'
      BY <2>3, <2>6, <3>1 DEF Preparing, Holds
    <3> QED
      BY <2>1, <3>2 DEF Continues, Active
  <2> QED
    BY <1>10, <2>2, <2>5, <2>6
<1>11. ASSUME NEW k \in 1 .. Len(Code[a.program]), Calling(a, k),
              ReturnOperator \/ FailOperator \/ (Unwind /\ throwing)
       PROVE  Continues(a)
  <2> DEFINE ins == Code[a.program][k]  cells == Frames(a)[k - 1]
             rest == SubSeq(cells, 1, Len(cells) - ins.nargs)
             operator == Operator(ins.node, TRUE)
  <2>1. k \in 0 .. Len(Code[a.program]) /\ k - 1 \in 0 .. Len(Code[a.program])
    BY <1>0
  <2>2. CASE ReturnOperator
    BY <1>11, <2>1, <2>2, ReturnFromCall DEF Continues, Active
  <2>3. /\ Operating(a, Len(a.args) + 1, "running", k, operator, rest)
        /\ Holds(a, cells) /\ ins.op = "call" /\ operator.call = "operator"
    BY <1>11 DEF Calling, Operator
  <2>4. IsSequence(cells)
    BY <2>1, FramesAccept
  <2>5. CASE FailOperator
    <3> HIDE DEF rest, cells, operator
    <3>1. Operating(a, Len(a.args) + 1, "running", k, operator, rest)' /\ Holds(a, cells)'
      BY <2>3, <2>4, <2>5, FailStep
    <3>2. Calling(a, k)'
      BY <2>3, <3>1 DEF Calling, rest, cells, operator
    <3> QED
      BY <3>2 DEF Continues, Active
  <2>6. CASE Unwind /\ throwing
    <3> HIDE DEF rest, cells, operator
    <3>1. Entered(a, Len(a.args) + 1, "running", k)' /\ throwing' = TRUE /\ stack' = stack
      BY <2>3, <2>6, UnwindOperator
    <3>2. Executing(a, k)'
      BY <2>3, <2>6, <3>1 DEF Executing, Holds
    <3> QED
      BY <2>1, <3>2 DEF Continues, Active
  <2> QED
    BY <1>11, <2>2, <2>5, <2>6
<1>12. CASE ReturnOperator \/ FailOperator
  <2>1. Top.call = "operator"
    BY <1>12 DEF ReturnOperator, FailOperator, In
  <2> QED
    BY <1>10, <1>11, <1>12, <2>1, ActiveTop
<1>13. CASE Unwind
  <2>1. throwing
    BY <1>13 DEF Unwind
  <2>2. CASE Top.call = "operator"
    BY <1>10, <1>11, <1>13, <2>1, <2>2, ActiveTop
  <2>3. CASE Top.call = "launch_online"
    <3>1. PICK slot, at, pointer : Entered(a, slot, at, pointer) /\ Above(a.ground, stack)
      BY <2>1, <2>3, ActiveTop
    <3>2. Gone(a)'
      BY <1>13, <3>1, UnwindOnline
    <3> QED
      BY <3>2 DEF Continues
  <2> QED
    BY <2>2, <2>3, ActiveTop
<1>14. ~(\E p \in Programs \ Filters : setup(p))
  BY <1>1 DEF setup
<1>15. ~(\E slot \in DOMAIN inputs, t \in Tensors : input(slot, t))
  BY <1>1 DEF input
<1>16. ~(\E slot \in DOMAIN inputs, f \in Filters \union {NoFilter} : bind_filter(slot, f))
  BY <1>1 DEF bind_filter
<1>17. ~(\E names \in Hooks : run_hook(names)) /\ ~run /\ ~ReturnOffline /\ ~ReturnHook
  BY <1>1 DEF run_hook, run, ReturnOffline, ReturnHook
<1> QED
  BY <1>2, <1>3, <1>4, <1>5, <1>6, <1>7, <1>8, <1>9, <1>12, <1>13, <1>14, <1>15, <1>16, <1>17 DEF Next

-----------------------------------------------------------------------------
(***************************************************************************)
(* The steps of a run                                                      *)
(***************************************************************************)
LEMMA InputsAreSequence ==
    ASSUME UserOK
    PROVE  /\ IsSequence(inputs) /\ Len(inputs) = Len(Inputs[desktop]) /\ Len(inputs) \in Nat
           /\ DOMAIN inputs = 1 .. Len(inputs)
<1>1. Inputs[desktop] \in Seq([name : STRING, cast : BOOLEAN])
  BY CodeAssumption DEF UserOK
<1>2. Len(Inputs[desktop]) \in Nat
  BY <1>1, LenProperties
<1>3. DOMAIN inputs = 1 .. Len(Inputs[desktop]) /\ inputs = [i \in DOMAIN inputs |-> inputs[i]]
  BY DEF UserOK
<1>4. IsSequence(inputs) /\ Len(inputs) = Len(Inputs[desktop])
  BY <1>2, <1>3, FunctionIsSequence
<1> QED
  BY <1>2, <1>3, <1>4

LEMMA MainGood ==
    ASSUME UserOK, NEW ground, IsSequence(ground), NEW callers \in Callers
    PROVE  Good(Main(ground, callers)) /\ Bound(Main(ground, callers))
<1> DEFINE a == Main(ground, callers)
<1>1. /\ a.calls = Append(callers, Offline) /\ a.env = <<>> /\ a.ground = ground
      /\ a.bases = <<0, Len(ground)>> /\ a.floor = ground
      /\ a.program = desktop /\ a.args = inputs /\ a.filters = filters[desktop]
  BY DEF Main
<1> HIDE DEF a
<1>2. IsSequence(a.calls) /\ a.calls # <<>>
  <2>1. IsSequence(callers)
    BY Nothing, Single DEF Callers
  <2>2. IsSequence(Append(callers, Offline)) /\ Append(callers, Offline) # <<>>
    <3> DEFINE o == Offline
    <3> HIDE DEF o
    <3>1. IsSequence(Append(callers, o)) /\ Append(callers, o) # <<>>
      BY <2>1, Extended
    <3> QED
      BY <3>1 DEF o
  <2> QED
    BY <1>1, <2>2
<1>3. IsSequence(a.env)
  BY <1>1, Nothing
<1>4. IsSequence(a.bases) /\ Len(a.bases) >= 2 /\ a.bases[2] = Len(ground) /\ Last(a.bases) = Len(ground)
  <2> DEFINE l == Len(ground)  s == <<0, l>>
  <2>1. s \in Seq({0, l}) /\ Len(s) = 2 /\ s[2] = l
    OBVIOUS
  <2> HIDE DEF l, s
  <2>2. IsSequence(s) /\ Last(s) = l
    BY <2>1, InSeq DEF Last
  <2> QED
    BY <1>1, <2>1, <2>2 DEF l, s
<1>5. Above(ground, ground) /\ Len(ground) \in Nat
  BY AboveItself, SequenceFacts
<1>6. IsSequence(inputs) /\ Len(inputs) = Len(Inputs[desktop])
  BY InputsAreSequence
<1>7. /\ desktop \in Programs
      /\ \A k \in 1 .. Len(inputs) : filters[desktop][k] \in Filters \union {NoFilter}
  BY <1>6 DEF UserOK
<1>8. Good(a)
  BY <1>1, <1>2, <1>3, <1>4, <1>5, <1>6, <1>7 DEF Good
<1>9. Bound(a)
  BY <1>1 DEF Bound
<1> QED
  BY <1>8, <1>9 DEF a

LEMMA FilteringBound ==
    ASSUME UserOK, NEW a, NEW slot, a.filters[slot] \in Filters
    PROVE  Bound(Filtering(a, slot)) /\ Filtering(a, slot).filters[1] = NoFilter
                /\ Len(Filtering(a, slot).args) = 1
<1> DEFINE b == Filtering(a, slot)
<1>1. b.program = a.filters[slot] /\ b.args = <<Nhwc(a.args[slot])>> /\ b.filters = <<NoFilter>>
  BY DEF Filtering
<1>2. Len(b.args) = 1 /\ b.filters[1] = NoFilter
  BY <1>1, Single
<1>3. filters[b.program][1] = NoFilter
  BY <1>1 DEF UserOK
<1> HIDE DEF b
<1>4. Bound(b)
  BY <1>2, <1>3 DEF Bound
<1> QED
  BY <1>2, <1>4 DEF b

\* The filter has returned to the activation that called it.
LEMMA FilterReturns ==
    ASSUME NEW a, Good(a), NEW slot \in 1 .. Len(a.args), a.filters[slot] \in Filters,
           Gone(Filtering(a, slot))'
    PROVE  Taking(a, slot)'
<1> DEFINE b == Filtering(a, slot)  rest == a.args \o Ready(a, slot - 1)
           on == On(a.program, a.args, slot, "filtered")
           f == a.filters[slot]  x == Nhwc(a.args[slot])
           denoted == Frames(b)[Len(Code[f])]
<1>1. /\ b.calls = Append(a.calls, on) /\ b.env = Append(a.env, Env(a.program, 0))
      /\ b.bases = Append(a.bases, Len(a.floor)) /\ b.floor = a.floor \o rest /\ b.ground = a.ground
      /\ b.program = f /\ b.args = <<x>> /\ b.filters = <<NoFilter>>
  BY DEF Filtering
<1>2. Good(b) /\ f \in Programs /\ f # NoFilter /\ Outputs[f] = 1
  BY FilteringGood, WorkbenchAssumption
<1>3. /\ calls' = b.calls /\ env' = b.env /\ base' = Last(b.bases) /\ bases' = Front(b.bases)
      /\ IF throwing' THEN Above(b.ground, stack')
         ELSE stack' = b.floor \o denoted /\ Len(denoted) = Outputs[f]
  BY <1>1 DEF Gone, Holds
<1>4. Last(b.bases) = Len(a.floor) /\ Front(b.bases) = a.bases
  <2> DEFINE l == Len(a.floor)  s == a.bases
  <2>1. IsSequence(s)
    BY DEF Good
  <2> HIDE DEF l, s
  <2>2. Last(Append(s, l)) = l /\ Front(Append(s, l)) = s
    BY <2>1, LastExtended
  <2> QED
    BY <1>1, <2>2 DEF l, s
<1>5. Entered(a, slot, "filtered", 0)'
  BY <1>1, <1>3, <1>4 DEF Entered
<1>6. Got(a, slot) = denoted[1]
  <2>1. Ready(b, Len(b.args)) = <<Casted(Inputs[f][1], x)>>
    <3> DEFINE s == Ready(b, 1)  t == <<Casted(Inputs[f][1], x)>>
    <3>1. Len(b.args) = 1 /\ b.args[1] = x /\ b.filters[1] = NoFilter
      BY <1>1, Single
    <3>2. 1 \in 0 .. Len(b.args)
      BY <3>1
    <3>3. IsSequence(s) /\ Len(s) = 1
      BY <1>2, <3>2, ReadyGrows
    <3>4. s[1] = Prepared(b.filters[1], Inputs[b.program][1], b.args[1])
      BY DEF Ready
    <3>5. s[1] = Casted(Inputs[f][1], x)
      BY <1>1, <3>1, <3>4 DEF Prepared, Filtered
    <3>6. IsSequence(t) /\ Len(t) = 1 /\ t[1] = Casted(Inputs[f][1], x)
      BY Single
    <3> HIDE DEF s, t, b
    <3>7. s = t
      BY <3>3, <3>5, <3>6, SameSequence
    <3> QED
      BY <3>1, <3>7 DEF s, t
  <2>2. Frames(b) = Trace(f, <<Casted(Inputs[f][1], x)>>)
    BY <1>1, <2>1 DEF Frames
  <2> QED
    BY <1>2, <2>2 DEF Got, Filtered, Denoted
<1>7. CASE throwing'
  BY <1>1, <1>3, <1>5, <1>7 DEF Taking, Holds
<1>8. CASE ~throwing'
  <2>1. stack' = (a.floor \o rest) \o denoted /\ Len(denoted) = 1
    BY <1>1, <1>2, <1>3, <1>8
  <2>2. IsSequence(denoted)
    <3>1. Len(Code[f]) \in 0 .. Len(Code[f])
      BY <1>1, <1>2, FramesAccept
    <3> QED
      BY <1>1, <1>2, <3>1, FramesAccept
  <2>3. denoted = <<Got(a, slot)>>
    <3> DEFINE x1 == Got(a, slot)  t == <<x1>>  s == denoted
    <3>1. IsSequence(t) /\ Len(t) = 1 /\ t[1] = x1
      BY Single
    <3>2. IsSequence(s) /\ Len(s) = 1 /\ s[1] = x1
      BY <1>6, <2>1, <2>2
    <3> HIDE DEF s, t, x1
    <3>3. s = t
      BY <3>1, <3>2, SameSequence
    <3> QED
      BY <3>3 DEF s, t, x1
  <2>4. (a.floor \o rest) \o <<Got(a, slot)>> = a.floor \o (rest \o <<Got(a, slot)>>)
    <3> DEFINE t == <<Got(a, slot)>>  fl == a.floor
    <3>1. IsSequence(t) /\ IsSequence(rest) /\ IsSequence(fl)
      BY ReadyJoined, Single DEF Good, Above
    <3> HIDE DEF t, rest, fl
    <3>2. (fl \o rest) \o t = fl \o (rest \o t)
      BY <3>1, JoinAssociative
    <3> QED
      BY <3>2 DEF t, fl
  <2>5. stack' = a.floor \o (rest \o <<Got(a, slot)>>)
    BY <2>1, <2>3, <2>4
  <2> QED
    BY <1>5, <1>8, <2>5 DEF Taking, Holds
<1> QED
  BY <1>7, <1>8

LEMMA InRunStep ==
    ASSUME UserOK, NEW a, Good(a), Bound(a), InRun(a), ~Gone(a), Next
    PROVE  InRun(a)'
<1>1. CASE Active(a)
  <2>1. Continues(a)
    BY <1>1, ActiveStep
  <2>2. ASSUME NEW slot \in 1 .. Len(a.args), a.filters[slot] \in Filters, Entering(Filtering(a, slot))'
        PROVE  Active(Filtering(a, slot))'
    BY <2>2 DEF Active
  <2> QED
    BY <2>1, <2>2 DEF Continues, InRun
<1>2. ASSUME NEW slot \in 1 .. Len(a.args), a.filters[slot] \in Filters, Active(Filtering(a, slot))
      PROVE  InRun(a)'
  <2> DEFINE b == Filtering(a, slot)
  <2>1. Good(b) /\ Bound(b) /\ b.filters[1] = NoFilter /\ Len(b.args) = 1
    BY <1>2, FilteringGood, FilteringBound
  <2>2. Continues(b)
    BY <1>2, <2>1, ActiveStep
  <2>3. CASE Active(b)'
    BY <1>2, <2>3 DEF InRun
  <2>4. CASE Gone(b)'
    <3>1. Taking(a, slot)'
      BY <1>2, <2>4, FilterReturns
    <3> QED
      BY <1>2, <3>1 DEF InRun, Active
  <2>5. ~ \E s \in 1 .. Len(b.args) : b.filters[s] \in Filters
    <3>1. NoFilter \notin Filters
      BY WorkbenchAssumption
    <3> QED
      BY <2>1, <3>1
  <2> QED
    BY <2>2, <2>3, <2>4, <2>5 DEF Continues
<1> QED
  BY <1>1, <1>2 DEF InRun

\* launch_offline returns, or the exception leaves it: the ground is bare.
LEMMA GoneStep ==
    ASSUME UserOK, NEW ground, IsSequence(ground), NEW callers \in Callers,
           Gone(Main(ground, callers)), Next
    PROVE  AtRest(ground)'
<1> DEFINE a == Main(ground, callers)
<1>1. /\ a.calls = Append(callers, Offline) /\ a.env = <<>> /\ a.ground = ground
      /\ a.bases = <<0, Len(ground)>> /\ Good(a)
  BY MainGood DEF Main
<1> HIDE DEF a
<1>2. IsSequence(callers)
  BY Nothing, Single DEF Callers
<1>3. Last(a.bases) = Len(ground) /\ Front(a.bases) = <<0>>
  <2> DEFINE l == Len(ground)  s == <<0>>
  <2>1. <<0, l>> = Append(s, l) /\ IsSequence(s)
    BY Single
  <2> HIDE DEF l, s
  <2>2. Last(Append(s, l)) = l /\ Front(Append(s, l)) = s
    BY <2>1, LastExtended
  <2> QED
    BY <1>1, <2>1, <2>2 DEF l, s
<1>4. Above(ground, stack)
  <2>1. CASE throwing
    BY <1>1, <2>1 DEF Gone, Holds, a
  <2>2. CASE ~throwing
    <3> DEFINE cells == Frames(a)[Len(Code[a.program])]
    <3>1. stack = a.floor \o cells
      BY <2>2 DEF Gone, Holds, a
    <3>2. IsSequence(cells)
      <4>1. Len(Code[a.program]) \in 0 .. Len(Code[a.program])
        BY <1>1, FramesAccept
      <4> QED
        BY <1>1, <4>1, FramesAccept
    <3> HIDE DEF cells
    <3>3. Above(a.ground, stack)
      BY <1>1, <3>1, <3>2, FrameAbove
    <3> QED
      BY <1>1, <3>3
  <2> QED
    BY <2>1, <2>2
<1>5. /\ calls = Append(callers, Offline) /\ env = <<>> /\ base = Len(ground) /\ bases = <<0>>
  BY <1>1, <1>3 DEF Gone, a
<1>6. Top = Offline /\ Front(calls) = callers /\ calls # <<>> /\ Len(calls) = Len(callers) + 1
  <2> DEFINE o == Offline
  <2> HIDE DEF o
  <2>1. /\ Last(Append(callers, o)) = o /\ Front(Append(callers, o)) = callers
        /\ Append(callers, o) # <<>> /\ Len(Append(callers, o)) = Len(callers) + 1
    BY <1>2, LastExtended, Extended
  <2> QED
    BY <1>5, <2>1 DEF o, Top
<1>7. Clear(stack, base) = ground
  <2> DEFINE n == Len(ground)  m == Len(stack)
  <2>1. IsSequence(stack) /\ n \in Nat /\ m \in Nat /\ n <= m /\ SubSeq(stack, 1, n) = ground
    BY <1>4, SequenceFacts DEF Above
  <2>2. Absolute(stack, base, 0) = n /\ Absolute(stack, base, FrameSize(stack, base)) = m
    BY <1>5, <2>1 DEF Absolute, FrameSize
  <2>3. Clear(stack, base) = SubSeq(stack, 1, n) \o SubSeq(stack, m + 1, m)
    BY <2>2 DEF Clear, EraseRange
  <2>4. SubSeq(stack, m + 1, m) = <<>>
    <3> HIDE DEF m
    <3>1. m = Len(stack) /\ m \in 0 .. Len(stack)
      BY <2>1 DEF m
    <3>2. /\ IsSequence(SubSeq(stack, m + 1, Len(stack)))
          /\ Len(SubSeq(stack, m + 1, Len(stack))) = Len(stack) - m
      BY <2>1, <3>1, Split
    <3>3. Len(SubSeq(stack, m + 1, Len(stack))) = 0
      BY <2>1, <3>1, <3>2
    <3> QED
      BY <3>1, <3>2, <3>3, SequenceFacts
  <2> QED
    BY <2>1, <2>3, <2>4, JoinNothing
<1>8. PopBase => base' = 0 /\ bases' = <<>>
  <2> DEFINE s == <<>>
  <2>1. IsSequence(s) /\ <<0>> = Append(s, 0)
    BY Nothing
  <2> HIDE DEF s
  <2>2. Last(Append(s, 0)) = 0 /\ Front(Append(s, 0)) = s
    BY <2>1, LastExtended
  <2> QED
    BY <1>5, <2>1, <2>2 DEF PopBase, s
<1>9. callers = <<>> \/ (Len(callers) = 1 /\ \E names \in Hooks : callers = <<RunHookCall(names, "ran")>>)
  BY Single DEF Callers
<1>10. CASE ReturnOffline
  <2>1. ~throwing'
    BY <1>10 DEF ReturnOffline, In
  <2> QED
    BY <1>5, <1>6, <1>7, <1>8, <1>9, <1>10, <2>1 DEF ReturnOffline, Leaves, AtRest
<1>11. CASE Unwind
  <2>1. PopBase /\ stack' = Clear(stack, base) /\ UNCHANGED env /\ Leaves
    BY <1>6, <1>11 DEF Unwind, Offline
  <2>2. callers = <<>> => ~throwing'
    <3>1. callers = <<>> => ~(Len(calls) > 1)
      BY <1>6, Nothing
    <3>2. throwing' = (Len(calls) > 1)
      BY <1>11 DEF Unwind
    <3> QED
      BY <3>1, <3>2, Zenon
  <2> QED
    BY <1>5, <1>6, <1>7, <1>8, <1>9, <2>1, <2>2 DEF Leaves, AtRest
<1>12. ~Idle /\ Top.call = "launch_offline"
  BY <1>6 DEF Idle, Offline
<1> QED
  BY <1>10, <1>11, <1>12 DEF Next, setup, input, bind_filter, run_hook, run, ReturnHook,
     EnterOnline, PushArgument, FilterArgument, CastArgument, BeginProgram, RunStackInstruction,
     Fetches, EnterOperator, ReturnOnline, ReturnOperator, FailOperator, InOnline, In

\* Only between runs does the user change anything.
LEMMA UserStep ==
    ASSUME UserOK, Next
    PROVE  UserOK' /\ (calls # <<>> => UNCHANGED <<desktop, filters, inputs>>)
<1>0. /\ IsSequence(inputs) /\ Len(inputs) = Len(Inputs[desktop])
      /\ Len(inputs) \in Nat /\ DOMAIN inputs = 1 .. Len(inputs)
  BY InputsAreSequence
<1>1. ASSUME NEW p \in Programs \ Filters, setup(p)
      PROVE  UserOK' /\ calls = <<>>
  <2>1. desktop' = p /\ filters' = filters /\ inputs' = Resized(inputs, Len(Inputs[p])) /\ calls = <<>>
    BY <1>1 DEF setup, Idle
  <2> DEFINE n == Len(Inputs[p])  T == Tensors \union {NoTensor}
  <2>2. \A k \in DOMAIN inputs : inputs[k] \in T
    BY DEF UserOK
  <2> HIDE DEF n, T
  <2>3. Resized(inputs, n) \in [1 .. n -> T]
    BY <2>2 DEF Resized, T
  <2> QED
    BY <2>1, <2>3 DEF UserOK, n, T
<1>2. ASSUME NEW slot \in DOMAIN inputs, NEW t \in Tensors, input(slot, t)
      PROVE  UserOK' /\ calls = <<>>
  <2>1. UNCHANGED <<desktop, filters>> /\ inputs' = [inputs EXCEPT ![slot] = t] /\ calls = <<>>
    BY <1>2 DEF input, Idle
  <2> QED
    BY <2>1 DEF UserOK
<1>3. ASSUME NEW slot \in DOMAIN inputs, NEW f \in Filters \union {NoFilter}, bind_filter(slot, f)
      PROVE  UserOK' /\ calls = <<>>
  <2>1. /\ UNCHANGED <<desktop, inputs>> /\ calls = <<>>
        /\ filters' = [filters EXCEPT ![desktop][slot] = f]
    BY <1>3 DEF bind_filter, Idle
  <2>2. slot \in 1 .. Len(Inputs[desktop]) /\ desktop \in Programs /\ DOMAIN filters = Programs
    BY <1>0 DEF UserOK
  <2>3. DOMAIN filters' = Programs /\ \A p \in Programs :
            filters'[p] = IF p = desktop THEN [filters[desktop] EXCEPT ![slot] = f] ELSE filters[p]
    BY <2>1, <2>2
  <2>4. \A p \in Programs : filters[p] \in [1 .. Len(Inputs[p]) -> Filters \union {NoFilter}]
    BY DEF UserOK
  <2>5. \A p \in Programs : filters'[p] \in [1 .. Len(Inputs[p]) -> Filters \union {NoFilter}]
    BY <2>2, <2>3, <2>4
  <2>6. \A g \in Filters : filters'[g][1] = NoFilter
    <3>1. desktop \notin Filters
      BY DEF UserOK
    <3> QED
      BY <2>3, <3>1, WorkbenchAssumption DEF UserOK
  <2> QED
    BY <2>1, <2>2, <2>3, <2>5, <2>6 DEF UserOK
<1>4. CASE UNCHANGED <<desktop, filters, inputs>>
  BY <1>4 DEF UserOK
<1>5. ASSUME \/ \E names \in Hooks : run_hook(names)
             \/ run \/ ReturnOffline \/ ReturnHook
             \/ EnterOnline \/ PushArgument \/ FilterArgument \/ CastArgument
      PROVE  UNCHANGED <<desktop, filters, inputs>>
  BY <1>5 DEF userVars, run_hook, run, launch_offline, ReturnOffline, ReturnHook, EnterOnline,
     PushArgument, FilterArgument, CastArgument, Throws
<1>6. ASSUME \/ BeginProgram \/ RunStackInstruction \/ EnterOperator \/ ReturnOnline
             \/ ReturnOperator \/ FailOperator \/ Unwind
      PROVE  UNCHANGED <<desktop, filters, inputs>>
  BY <1>6 DEF userVars, BeginProgram, RunStackInstruction, EnterOperator, ReturnOnline,
     ReturnOperator, FailOperator, Unwind, Throws
<1> QED
  BY <1>1, <1>2, <1>3, <1>4, <1>5, <1>6 DEF Next

LEMMA MainUnchanged ==
    ASSUME NEW ground, NEW callers, UNCHANGED <<desktop, filters, inputs>>
    PROVE  Main(ground, callers)' = Main(ground, callers)
BY DEF Main

\* launch_offline is called with the ground of the run on the stack.
LEMMA LaunchStep ==
    ASSUME UserOK, NEW ground, IsSequence(ground), NEW callers \in Callers,
           NEW a, a = Main(ground, callers),
           base = 0, bases = <<>>, env = <<>>, stack = ground, ~throwing, launch_offline(callers)
    PROVE  a = Main(ground, callers)' /\ Entering(a)'
<1>1. /\ a.calls = Append(callers, Offline) /\ a.env = <<>> /\ a.bases = <<0, Len(ground)>>
      /\ a.floor = ground /\ a.program = desktop /\ a.args = inputs
  BY DEF Main
<1>2. UNCHANGED <<desktop, filters, inputs, env, throwing>>
  BY DEF launch_offline
<1>3. a = Main(ground, callers)'
  BY <1>2, MainUnchanged
<1>4. calls' = Append(a.calls, On(a.program, a.args, 1, "entering"))
  <2> DEFINE o == Offline  t == On(desktop, inputs, 1, "entering")
  <2>1. IsSequence(callers)
    BY Nothing, Single DEF Callers
  <2>2. calls' = callers \o <<o, t>>
    BY DEF launch_offline, Online, On
  <2> HIDE DEF o, t
  <2>3. callers \o <<o, t>> = Append(Append(callers, o), t)
    BY <2>1, TwoExtended
  <2> QED
    BY <1>1, <2>2, <2>3 DEF o, t
<1>5. base' = Len(ground) /\ bases' = <<0>>
  <2>1. Len(stack) \in Nat /\ FrameSize(stack, base) = Len(stack)
    BY SequenceFacts DEF FrameSize
  <2>2. Absolute(stack, base, FrameSize(stack, base)) = Len(ground)
    BY <2>1 DEF Absolute
  <2>3. Append(<<>>, 0) = <<0>>
    OBVIOUS
  <2> QED
    BY <2>2, <2>3 DEF launch_offline, PushBase
<1>6. Last(a.bases) = Len(ground) /\ Front(a.bases) = <<0>>
  <2> DEFINE l == Len(ground)  s == <<0>>
  <2>1. <<0, l>> = Append(s, l) /\ IsSequence(s)
    BY Single
  <2> HIDE DEF l, s
  <2>2. Last(Append(s, l)) = l /\ Front(Append(s, l)) = s
    BY <2>1, LastExtended
  <2> QED
    BY <1>1, <2>1, <2>2 DEF l, s
<1>7. stack' = a.floor \o a.args
  BY <1>1 DEF launch_offline
<1>8. Entering(a)'
  BY <1>1, <1>2, <1>4, <1>5, <1>6, <1>7 DEF Entering
<1> QED
  BY <1>3, <1>8

\* The workbench stays at rest, or a program is launched.
Rests(ground) == AtRest(ground) /\ \A names : calls # <<RunHookCall(names, "ran")>>
Launches(ground) ==
    \E callers \in Callers : \E a \in {Main(ground, callers)} : Entering(a)

LEMMA RestStep ==
    ASSUME UserOK, NEW ground, IsSequence(ground), AtRest(ground), Next
    PROVE  Rests(ground)' \/ Launches(ground)'
<1>1. base = 0 /\ bases = <<>> /\ env = <<>> /\ stack = ground
  BY DEF AtRest
<1>2. \A names, at : /\ Last(<<RunHookCall(names, at)>>) = RunHookCall(names, at)
                     /\ Front(<<RunHookCall(names, at)>>) = <<>>
                     /\ Len(<<RunHookCall(names, at)>>) = 1
  <2> SUFFICES ASSUME NEW names, NEW at
               PROVE  /\ Last(<<RunHookCall(names, at)>>) = RunHookCall(names, at)
                      /\ Front(<<RunHookCall(names, at)>>) = <<>>
                      /\ Len(<<RunHookCall(names, at)>>) = 1
    OBVIOUS
  <2> DEFINE x == RunHookCall(names, at)  s == <<>>
  <2> HIDE DEF x
  <2>1. <<x>> = Append(s, x) /\ IsSequence(s) /\ Len(<<x>>) = 1
    BY Nothing, Single
  <2> HIDE DEF s
  <2>2. Last(Append(s, x)) = x /\ Front(Append(s, x)) = s
    BY <2>1, LastExtended
  <2> QED
    BY <2>1, <2>2 DEF s, x
<1>3. ASSUME NEW callers \in Callers, launch_offline(callers), ~throwing
      PROVE  Launches(ground)'
  <2>1. PICK a : a = Main(ground, callers)
    OBVIOUS
  <2>2. a = Main(ground, callers)' /\ Entering(a)'
    BY <1>1, <1>3, <2>1, LaunchStep
  <2> QED
    BY <2>2 DEF Launches
<1>6. \A names, other : /\ <<>> # <<RunHookCall(other, "ran")>>
                        /\ <<RunHookCall(names, "saved")>> # <<RunHookCall(other, "ran")>>
  <2> SUFFICES ASSUME NEW names, NEW other
               PROVE  /\ <<>> # <<RunHookCall(other, "ran")>>
                      /\ <<RunHookCall(names, "saved")>> # <<RunHookCall(other, "ran")>>
    OBVIOUS
  <2> DEFINE x == RunHookCall(names, "saved")  y == RunHookCall(other, "ran")
  <2>1. x.at = "saved" /\ y.at = "ran"
    BY DEF RunHookCall
  <2> HIDE DEF x, y
  <2>2. Len(<<y>>) = 1 /\ <<y>>[1] = y /\ <<x>>[1] = x /\ Len(<<>>) = 0
    BY Single, Nothing
  <2>3. x # y
    BY <2>1
  <2> QED
    BY <2>2, <2>3 DEF x, y
<1>4. CASE calls = <<>> /\ ~throwing
  <2>1. ASSUME NEW p \in Programs \ Filters, setup(p)  PROVE Rests(ground)'
    BY <1>1, <1>4, <1>6, <2>1 DEF Rests, setup, stackVars, AtRest
  <2>2. ASSUME NEW slot \in DOMAIN inputs, NEW t \in Tensors, input(slot, t)
        PROVE  Rests(ground)'
    BY <1>1, <1>4, <1>6, <2>2 DEF Rests, input, stackVars, AtRest
  <2>3. ASSUME NEW slot \in DOMAIN inputs, NEW f \in Filters \union {NoFilter}, bind_filter(slot, f)
        PROVE  Rests(ground)'
    BY <1>1, <1>4, <1>6, <2>3 DEF Rests, bind_filter, stackVars, AtRest
  <2>4. ASSUME NEW names \in Hooks, run_hook(names)  PROVE Rests(ground)'
    BY <1>1, <1>4, <1>6, <2>4 DEF Rests, run_hook, stackVars, AtRest
  <2>5. CASE run
    <3>1. launch_offline(<<>>)
      BY <1>4, <2>5 DEF run, In
    <3>2. <<>> \in Callers
      BY DEF Callers
    <3> QED
      BY <1>3, <1>4, <3>1, <3>2
  <2>6. ~(calls # <<>>) /\ \A function : ~In(function)
    BY <1>4 DEF In
  <2> QED
    BY <2>1, <2>2, <2>3, <2>4, <2>5, <2>6 DEF Next, ReturnOffline, ReturnHook,
       EnterOnline, PushArgument, FilterArgument, CastArgument, BeginProgram, RunStackInstruction,
       Fetches, EnterOperator, ReturnOnline, ReturnOperator, FailOperator, Unwind, InOnline
<1>5. ASSUME NEW names \in Hooks, NEW at \in {"saved", "ran"}, calls = <<RunHookCall(names, at)>>
      PROVE  Rests(ground)' \/ Launches(ground)'
  <2>1. /\ Top = RunHookCall(names, at) /\ Front(calls) = <<>> /\ Len(calls) = 1
        /\ calls # <<>> /\ Top.call = "run_hook" /\ Top.names = names
    <3>1. Top = RunHookCall(names, at) /\ Front(calls) = <<>> /\ Len(calls) = 1
      BY <1>2, <1>5 DEF Top
    <3> QED
      BY <1>5, <3>1 DEF RunHookCall
  <2>2. CASE run
    <3>1. launch_offline(<<RunHookCall(names, "ran")>>) /\ ~throwing
      BY <2>1, <2>2 DEF run, Idle, In
    <3>2. <<RunHookCall(names, "ran")>> \in Callers
      BY DEF Callers
    <3> QED
      BY <1>3, <3>1, <3>2
  <2>3. CASE ReturnHook
    BY <1>1, <1>6, <2>1, <2>3 DEF ReturnHook, In, Leaves, stackVars, AtRest, Rests
  <2>4. CASE Unwind
    <3>1. throwing' = (Len(calls) > 1) /\ calls' = <<>> /\ UNCHANGED <<stackVars, env>>
      BY <2>1, <2>4 DEF Unwind, Leaves
    <3>2. ~(Len(calls) > 1)
      BY <2>1
    <3>3. ~throwing'
      BY <3>1, <3>2, Zenon
    <3> QED
      BY <1>1, <1>6, <3>1, <3>3 DEF stackVars, AtRest, Rests
  <2>5. ~Idle /\ Top.call = "run_hook"
    BY <2>1 DEF Idle
  <2> QED
    BY <2>2, <2>3, <2>4, <2>5 DEF Next, setup, input, bind_filter, run_hook, ReturnOffline,
       EnterOnline, PushArgument, FilterArgument, CastArgument, BeginProgram, RunStackInstruction,
       Fetches, EnterOperator, ReturnOnline, ReturnOperator, FailOperator, InOnline, In
<1> QED
  BY <1>4, <1>5 DEF AtRest

\* Whatever the step, the ground is the same after it.
LEMMA ShapeStep ==
    ASSUME UserOK, NEW ground, IsSequence(ground), Shape(ground), [Next]_vars
    PROVE  UserOK' /\ Shape(ground)'
<1>1. CASE UNCHANGED vars
  <2>1. /\ UNCHANGED <<stack, base, bases, env, desktop, filters, inputs, calls, throwing>>
        /\ \A callers : Main(ground, callers)' = Main(ground, callers)
    BY <1>1 DEF vars, stackVars, userVars, Main
  <2>2. UserOK'
    BY <2>1 DEF UserOK
  <2>3. ASSUME AtRest(ground)  PROVE AtRest(ground)'
    BY <2>1, <2>3 DEF AtRest
  <2>4. ASSUME NEW a  PROVE (Active(a) => Active(a)') /\ (Gone(a) => Gone(a)')
    BY <2>1 DEF Active, Gone, Entering, Preparing, Taking, Casting, Executing, Calling, Entered,
       Operating, Holds
  <2>5. ASSUME NEW a, InRun(a)  PROVE InRun(a)'
    BY <2>4, <2>5 DEF InRun
  <2> QED
    BY <2>1, <2>2, <2>3, <2>5 DEF Shape
<1>2. CASE Next
  <2>1. UserOK'
    BY <1>2, UserStep
  <2>2. CASE AtRest(ground)
    <3>1. Rests(ground)' \/ Launches(ground)'
      BY <1>2, <2>2, RestStep
    <3>2. Launches(ground)' => Shape(ground)'
      <4>1. \A a : Entering(a)' => InRun(a)'
        BY DEF InRun, Active
      <4> QED
        BY <4>1 DEF Launches, Shape
    <3>3. Rests(ground)' => Shape(ground)'
      BY DEF Rests, Shape
    <3> QED
      BY <2>1, <3>1, <3>2, <3>3
  <2>3. ASSUME NEW callers \in Callers, NEW a, a = Main(ground, callers), InRun(a)
        PROVE  Shape(ground)'
    <3>1. Good(a) /\ Bound(a)
      BY <2>3, MainGood
    <3>2. CASE Gone(a)
      <4>1. AtRest(ground)'
        BY <1>2, <2>3, <3>2, GoneStep
      <4> QED
        BY <4>1 DEF Shape
    <3>3. CASE ~Gone(a)
      <4>1. InRun(a)'
        BY <1>2, <2>3, <3>1, <3>3, InRunStep
      <4>2. calls # <<>>
        <5>1. CASE Active(a)
          BY <3>1, <5>1, ActiveTop
        <5>2. ASSUME NEW slot \in 1 .. Len(a.args), a.filters[slot] \in Filters,
                     Active(Filtering(a, slot))
              PROVE  calls # <<>>
          BY <3>1, <5>2, FilteringGood, ActiveTop
        <5> QED
          BY <2>3, <3>3, <5>1, <5>2 DEF InRun
      <4>3. a = Main(ground, callers)'
        BY <1>2, <2>3, <4>2, UserStep, MainUnchanged
      <4> QED
        BY <4>1, <4>3 DEF Shape
    <3> QED
      BY <3>2, <3>3
  <2> QED
    BY <2>1, <2>2, <2>3 DEF Shape
<1> QED
  BY <1>1, <1>2

-----------------------------------------------------------------------------
(***************************************************************************)
(* The theorems                                                            *)
(***************************************************************************)
LEMMA InitShape ==
    ASSUME Init
    PROVE  Inductive
<1>1. IsSequence(stack)
  BY InSeq, WorkbenchAssumption DEF Init
<1>2. AtRest(stack)
  BY DEF Init, AtRest
<1>3. \A p \in Programs : Len(Inputs[p]) \in Nat /\ DOMAIN Inputs[p] = 1 .. Len(Inputs[p])
  <2> SUFFICES ASSUME NEW p \in Programs
               PROVE  Len(Inputs[p]) \in Nat /\ DOMAIN Inputs[p] = 1 .. Len(Inputs[p])
    OBVIOUS
  <2>1. Inputs[p] \in Seq([name : STRING, cast : BOOLEAN])
    BY CodeAssumption
  <2> QED
    BY <2>1, LenProperties
<1>4. /\ desktop \in Programs \ Filters
      /\ inputs \in [1 .. Len(Inputs[desktop]) -> Tensors \union {NoTensor}]
  BY <1>3 DEF Init
<1>5. /\ DOMAIN filters = Programs
      /\ \A p \in Programs : filters[p] = [k \in 1 .. Len(Inputs[p]) |-> NoFilter]
  BY <1>3 DEF Init
<1>6. \A f \in Filters : filters[f][1] = NoFilter
  <2>1. \A f \in Filters : f \in Programs /\ 1 \in 1 .. Len(Inputs[f])
    BY WorkbenchAssumption
  <2> QED
    BY <1>5, <2>1
<1>7. UserOK
  BY <1>4, <1>5, <1>6 DEF UserOK
<1> QED
  BY <1>1, <1>2, <1>7 DEF Inductive, Shape

LEMMA InductiveStep ==
    ASSUME Inductive, [Next]_vars
    PROVE  Inductive'
<1>1. PICK ground : IsSequence(ground) /\ Shape(ground)
  BY DEF Inductive
<1>2. UserOK' /\ Shape(ground)'
  BY <1>1, ShapeStep DEF Inductive
<1> QED
  BY <1>1, <1>2 DEF Inductive

\* In every state of Workbench, the stack, the bases and the call stack are those
\* of a program at a point of its execution, on top of what was there before:
\* launch_offline, launch_online and the ts::need destructors of workbench.cpp
\* undo on every way out exactly what they did.
THEOREM RunsInFrames == Spec => []Inductive
<1>1. Init => Inductive
  BY InitShape
<1>2. Inductive /\ [Next]_vars => Inductive'
  BY InductiveStep
<1> QED
  BY <1>1, <1>2, PTL DEF Spec

\* The ground lies under the second base that is saved, or under the base if
\* only the caller's is.
OnGround(ground) ==
    /\ Above(ground, stack) /\ Len(bases) \in Nat \ {0}
    /\ IF Len(bases) = 1 THEN base = Len(ground) ELSE bases[2] = Len(ground)

LEMMA CallersGround ==
    ASSUME NEW a, Good(a), base = Last(a.bases), bases = Front(a.bases), Above(a.ground, stack)
    PROVE  OnGround(a.ground)
<1> DEFINE l == Last(a.bases)  s == Front(a.bases)
<1>1. /\ IsSequence(a.bases) /\ Len(a.bases) \in Nat /\ Len(a.bases) >= 2
      /\ a.bases[2] = Len(a.ground) /\ a.bases # <<>>
  BY SequenceFacts DEF Good
<1>2. a.bases = Append(s, l) /\ IsSequence(s) /\ Len(s) = Len(a.bases) - 1
  BY <1>1, FrontAndLast
<1>3. bases = s /\ base = l
  OBVIOUS
<1> HIDE DEF l, s
<1> DEFINE t == Append(s, l)
<1>4. a.bases = t /\ (\A i \in 1 .. Len(s) : t[i] = s[i]) /\ t[Len(s) + 1] = l
  BY <1>2, Extended
<1> HIDE DEF t
<1>0. Len(s) \in Nat \ {0} /\ Len(s) \in Nat /\ Len(s) >= 1
  BY <1>1, <1>2
<1>5. CASE Len(s) = 1
  <2>0. Len(s) + 1 = 2
    BY <1>5
  <2>1. a.bases[2] = l
    BY <1>4, <2>0
  <2>2. base = Len(a.ground) /\ Len(bases) = 1
    BY <1>1, <1>3, <1>5, <2>1
  <2> QED
    BY <2>2 DEF OnGround
<1>6. CASE Len(s) # 1
  <2>1. 2 \in 1 .. Len(s)
    <3> DEFINE n == Len(s)
    <3>1. n \in Nat /\ n >= 1 /\ n # 1
      BY <1>0, <1>6
    <3> HIDE DEF n
    <3>2. 2 \in 1 .. n
      BY <3>1
    <3> QED
      BY <3>2 DEF n
  <2>2. a.bases[2] = s[2]
    BY <1>4, <2>1
  <2>3. bases[2] = Len(a.ground) /\ Len(bases) \in Nat \ {0} /\ Len(bases) # 1
    BY <1>0, <1>1, <1>3, <1>6, <2>2
  <2> QED
    BY <2>3 DEF OnGround
<1> QED
  BY <1>5, <1>6

LEMMA ActiveOnGround ==
    ASSUME NEW a, Good(a), Active(a)
    PROVE  OnGround(a.ground)
<1>0. /\ Len(a.args) \in Nat /\ IsSequence(a.args) /\ Len(Code[a.program]) \in Nat
      /\ IsSequence(a.bases) /\ Len(a.bases) \in Nat /\ Len(a.bases) >= 2
      /\ a.bases[2] = Len(a.ground)
  BY FramesAccept, SequenceFacts DEF Good
<1>1. ASSUME NEW cells, IsSequence(cells), Holds(a, cells)
      PROVE  Above(a.ground, stack)
  BY <1>1, FrameAbove DEF Holds
<1>2. ASSUME NEW slot, NEW at, NEW pointer, Entered(a, slot, at, pointer), Above(a.ground, stack)
      PROVE  OnGround(a.ground)
  <2>1. bases = a.bases
    BY <1>2 DEF Entered
  <2> QED
    BY <1>0, <1>2, <2>1 DEF OnGround
<1>3. ASSUME NEW slot, NEW at, NEW pointer, NEW operator, NEW rest,
             Operating(a, slot, at, pointer, operator, rest), Above(a.ground, stack)
      PROVE  OnGround(a.ground)
  <2> DEFINE l == Len(a.floor)
  <2>1. bases = Append(a.bases, l)
    BY <1>3 DEF Operating
  <2> HIDE DEF l
  <2>2. /\ Len(Append(a.bases, l)) = Len(a.bases) + 1
        /\ \A i \in 1 .. Len(a.bases) : Append(a.bases, l)[i] = a.bases[i]
    BY <1>0, Extended
  <2>3. 2 \in 1 .. Len(a.bases) /\ Len(a.bases) + 1 \in Nat \ {0} /\ Len(a.bases) + 1 # 1
    BY <1>0
  <2> QED
    BY <1>0, <1>3, <2>1, <2>2, <2>3 DEF OnGround
<1>4. \A k \in 0 .. Len(a.args) : IsSequence(a.args \o Ready(a, k))
  BY <1>0, ReadyGrows, Joined
<1>5. CASE Entering(a)
  <2>1. Above(a.ground, stack)
    BY <1>0, <1>5, FrameAbove DEF Entering
  <2> QED
    BY <1>5, <2>1, CallersGround DEF Entering
<1>6. ASSUME NEW slot \in 1 .. Len(a.args) + 1, Preparing(a, slot)
      PROVE  OnGround(a.ground)
  <2>1. slot - 1 \in 0 .. Len(a.args)
    BY <1>0
  <2> QED
    BY <1>1, <1>2, <1>4, <1>6, <2>1 DEF Preparing
<1>7. ASSUME NEW slot \in 1 .. Len(a.args), Taking(a, slot) \/ Casting(a, slot)
      PROVE  OnGround(a.ground)
  <2> DEFINE rest == a.args \o Ready(a, slot - 1)  cells == rest \o <<Got(a, slot)>>
  <2>1. IsSequence(cells)
    <3>1. IsSequence(rest)
      BY ReadyJoined
    <3> HIDE DEF rest
    <3> QED
      BY <3>1, Single, Joined
  <2>2. Above(a.ground, stack)
    BY <1>1, <1>7, <2>1 DEF Taking, Casting
  <2> QED
    BY <1>2, <1>3, <1>7, <2>2 DEF Taking, Casting
<1>8. ASSUME NEW k \in 0 .. Len(Code[a.program]), Executing(a, k)
      PROVE  OnGround(a.ground)
  <2>1. IsSequence(Frames(a)[k])
    BY FramesAccept
  <2> QED
    BY <1>1, <1>2, <1>8, <2>1 DEF Executing
<1>9. ASSUME NEW k \in 1 .. Len(Code[a.program]), Calling(a, k)
      PROVE  OnGround(a.ground)
  <2>1. k - 1 \in 0 .. Len(Code[a.program])
    BY <1>0
  <2>2. IsSequence(Frames(a)[k - 1])
    BY <2>1, FramesAccept
  <2>3. Above(a.ground, stack)
    BY <1>1, <1>9, <2>2 DEF Calling
  <2> QED
    BY <1>3, <1>9, <2>3 DEF Calling
<1> QED
  BY <1>5, <1>6, <1>7, <1>8, <1>9 DEF Active

\* The stack of a run has its ground under the first base it saved of its own.
LEMMA BelowIsGround ==
    ASSUME NEW ground, IsSequence(ground)
    PROVE  UserOK /\ Shape(ground) => Below = ground
<1> SUFFICES ASSUME UserOK, Shape(ground)
             PROVE  Below = ground
  OBVIOUS
<1>1. CASE AtRest(ground)
  <2>1. Below = SubSeq(stack, 1, Len(stack)) /\ stack = ground
    BY <1>1 DEF AtRest, Below
  <2> QED
    BY <2>1, SubSeqFull DEF IsSequence
<1>2. ASSUME NEW callers \in Callers, NEW a, a = Main(ground, callers), InRun(a)
      PROVE  Below = ground
  <2>1. Good(a) /\ a.ground = ground
    BY <1>2, MainGood DEF Main
  <2>2. OnGround(ground)
    <3>1. CASE Active(a)
      BY <2>1, <3>1, ActiveOnGround
    <3>2. ASSUME NEW slot \in 1 .. Len(a.args), a.filters[slot] \in Filters,
                 Active(Filtering(a, slot))
          PROVE  OnGround(ground)
      <4> DEFINE b == Filtering(a, slot)
      <4>1. Good(b) /\ b.ground = ground
        BY <2>1, <3>2, FilteringGood DEF Filtering
      <4> HIDE DEF b
      <4>2. Active(b)
        BY <3>2 DEF b
      <4> QED
        BY <4>1, <4>2, ActiveOnGround
    <3>3. CASE Gone(a)
      <4> DEFINE cells == Frames(a)[Len(Code[a.program])]
      <4>1. IsSequence(cells)
        <5>1. Len(Code[a.program]) \in 0 .. Len(Code[a.program])
          BY <2>1, FramesAccept
        <5> QED
          BY <2>1, <5>1, FramesAccept
      <4>2. Above(a.ground, stack)
        BY <2>1, <3>3, <4>1, FrameAbove DEF Gone, Holds
      <4> QED
        BY <2>1, <3>3, <4>2, CallersGround DEF Gone
    <3> QED
      BY <1>2, <3>1, <3>2, <3>3 DEF InRun
  <2>3. CASE Len(bases) = 1
    <3>1. bases # <<>>
      BY <2>3, Nothing
    <3>2. Below = SubSeq(stack, 1, base)
      BY <2>3, <3>1 DEF Below
    <3> QED
      BY <2>2, <2>3, <3>2 DEF OnGround, Above
  <2>4. CASE Len(bases) # 1
    <3>1. bases # <<>>
      BY <2>2, <2>4, Nothing DEF OnGround
    <3>2. Below = SubSeq(stack, 1, bases[2])
      BY <2>4, <3>1 DEF Below
    <3> QED
      BY <2>2, <2>4, <3>2 DEF OnGround, Above
  <2> QED
    BY <2>3, <2>4
<1> QED
  BY <1>1, <1>2 DEF Shape

LEMMA GroundKept ==
    ASSUME NEW ground, IsSequence(ground)
    PROVE  UserOK /\ Shape(ground) /\ [Next]_vars => Below' = Below
<1>1. UserOK /\ Shape(ground) => Below = ground
  BY BelowIsGround
<1>2. (UserOK /\ Shape(ground) => Below = ground)'
  BY <1>1, PTL
<1>3. UserOK /\ Shape(ground) /\ [Next]_vars => UserOK' /\ Shape(ground)'
  BY ShapeStep
<1> QED
  BY <1>1, <1>2, <1>3

\* A run, failed or not, leaves the tensors that were on the stack before it
\* where they were, and none of its own (clear_stack, workbench.cpp:517), for any
\* programs, filters and hooks, and whichever operator throws.
THEOREM GroundIsKept == Spec => CallersTensorsKept
<1>1. Inductive /\ [Next]_vars => [Below' = Below]_vars
  <2> SUFFICES ASSUME Inductive, [Next]_vars
               PROVE  Below' = Below
    OBVIOUS
  <2>1. PICK ground : IsSequence(ground) /\ Shape(ground)
    BY DEF Inductive
  <2> QED
    BY <2>1, GroundKept DEF Inductive
<1> QED
  BY <1>1, RunsInFrames, PTL DEF Spec, CallersTensorsKept

LEMMA OneCall ==
    ASSUME NEW names, NEW at, calls = <<RunHookCall(names, at)>>
    PROVE  calls # <<>> /\ Top = RunHookCall(names, at)
<1> DEFINE call == RunHookCall(names, at)
<1> HIDE DEF call
<1>1. IsSequence(<<call>>) /\ Len(<<call>>) = 1 /\ <<call>>[1] = call
  BY Single
<1>2. calls = <<call>>
  BY DEF call
<1>3. Last(calls) = call /\ calls # <<>>
  BY <1>1, <1>2, Nothing DEF Last
<1> QED
  BY <1>3 DEF Top, call

\* In launch_offline, launch_online has returned.
LEMMA OfflineIsGone ==
    ASSUME UserOK, NEW ground, IsSequence(ground), Shape(ground), In("launch_offline")
    PROVE  \E callers \in Callers : Gone(Main(ground, callers))
<1>1. ~AtRest(ground)
  BY OneCall DEF AtRest, In, RunHookCall
<1>2. PICK callers \in Callers : InRun(Main(ground, callers))
  BY <1>1 DEF Shape
<1> DEFINE a == Main(ground, callers)
<1>3. Good(a)
  BY MainGood
<1> HIDE DEF a
<1>4. InRun(a) /\ ~Active(a)
  BY <1>2, <1>3, ActiveTop DEF a, In
<1>5. ASSUME NEW slot \in 1 .. Len(a.args), a.filters[slot] \in Filters,
             Active(Filtering(a, slot))
      PROVE  FALSE
  <2> DEFINE b == Filtering(a, slot)
  <2>1. Good(b)
    BY <1>3, <1>5, FilteringGood
  <2> HIDE DEF b
  <2>2. Active(b)
    BY <1>5 DEF b
  <2> QED
    BY <2>1, <2>2, ActiveTop DEF In
<1>6. Gone(a)
  BY <1>4, <1>5 DEF InRun
<1> QED
  BY <1>6 DEF a

LEMMA FrameIsDenoted ==
    ASSUME UserOK, NEW ground, IsSequence(ground), Shape(ground), In("launch_offline")
    PROVE  Frame = Denoted(desktop, PreparedArguments(desktop, inputs))
<1>1. PICK callers \in Callers : Gone(Main(ground, callers))
  BY OfflineIsGone
<1> DEFINE a == Main(ground, callers)
<1>2. /\ Good(a) /\ a.floor = ground /\ a.bases = <<0, Len(ground)>>
      /\ a.program = desktop /\ a.args = inputs /\ a.filters = filters[desktop]
  BY MainGood DEF Main
<1> HIDE DEF a
<1>3. Ready(a, Len(a.args)) = PreparedArguments(desktop, inputs)
  BY <1>2, InputsAreSequence DEF Ready, PreparedArguments
<1> DEFINE L == Len(Code[desktop])  cells == Frames(a)[L]
<1>4. cells = Denoted(desktop, PreparedArguments(desktop, inputs))
  BY <1>2, <1>3 DEF Frames, Denoted
<1>5. IsSequence(cells)
  <2>1. L \in 0 .. L
    BY <1>2, FramesAccept
  <2> QED
    BY <1>2, <2>1, FramesAccept
<1>6. stack = ground \o cells /\ base = Last(a.bases)
  BY <1>1, <1>2 DEF Gone, Holds, In, a
<1>7. Last(a.bases) = Len(ground)
  <2> DEFINE l == Len(ground)
  <2>1. a.bases = <<0, l>> /\ Len(a.bases) = 2
    BY <1>2
  <2> QED
    BY <2>1 DEF Last
<1> HIDE DEF L, cells
<1>8. SubSeq(ground \o cells, Len(ground) + 1, Len(ground \o cells)) = cells
  BY <1>5, PartsOfJoined
<1>9. Frame = cells
  BY <1>6, <1>7, <1>8 DEF Frame
<1> QED
  BY <1>4, <1>9

\* What Workbench::run stores as its outputs when it returns is what the program
\* computes from the prepared inputs, for any programs the compiler may emit,
\* and nothing else stores outputs while the API runs (Workbench::run,
\* workbench.cpp:153, launch_offline, 511).
THEOREM RunReturnsDenoted == Spec => ReturnsDenoted
<1> DEFINE Stored == outputs' = IF In("launch_offline")
                                THEN Denoted(desktop, PreparedArguments(desktop, inputs))
                                ELSE outputs
<1>1. Inductive /\ [Next]_vars => [Idle \/ Stored]_vars
  <2> SUFFICES ASSUME Inductive, Next, ~Idle
               PROVE  Stored
    BY DEF Stored
  <2>1. CASE ReturnOffline
    <3>1. PICK ground : IsSequence(ground) /\ Shape(ground)
      BY DEF Inductive
    <3>2. outputs' = Frame /\ In("launch_offline")
      BY <2>1 DEF ReturnOffline
    <3> QED
      BY <3>1, <3>2, FrameIsDenoted DEF Inductive
  <2>2. CASE ReturnHook \/ run
    <3>1. ~In("launch_offline")
      BY <2>2 DEF ReturnHook, run, In, Idle
    <3>2. outputs' = outputs
      BY <2>2 DEF ReturnHook, run, launch_offline
    <3> QED
      BY <3>1, <3>2
  <2>3. CASE EnterOnline \/ PushArgument \/ FilterArgument \/ CastArgument
    <3>1. ~In("launch_offline")
      BY <2>3 DEF EnterOnline, PushArgument, FilterArgument, CastArgument, InOnline, In
    <3>2. outputs' = outputs
      BY <2>3 DEF EnterOnline, PushArgument, FilterArgument, CastArgument, Throws
    <3> QED
      BY <3>1, <3>2
  <2>4. CASE BeginProgram \/ RunStackInstruction \/ EnterOperator \/ ReturnOnline
    <3>1. ~In("launch_offline")
      BY <2>4 DEF BeginProgram, RunStackInstruction, EnterOperator, ReturnOnline, Fetches,
                  InOnline, In
    <3>2. outputs' = outputs
      BY <2>4 DEF BeginProgram, RunStackInstruction, EnterOperator, ReturnOnline, Throws
    <3> QED
      BY <3>1, <3>2
  <2>5. CASE ReturnOperator \/ FailOperator \/ Unwind
    <3>1. ~In("launch_offline")
      BY <2>5 DEF ReturnOperator, FailOperator, Unwind, In
    <3>2. outputs' = outputs
      BY <2>5 DEF ReturnOperator, FailOperator, Unwind, Throws
    <3> QED
      BY <3>1, <3>2
  <2>6. ~(\E p \in Programs \ Filters : setup(p))
    BY DEF setup
  <2>7. ~(\E slot \in DOMAIN inputs, t \in Tensors : input(slot, t))
    BY DEF input
  <2>8. ~(\E slot \in DOMAIN inputs, f \in Filters \union {NoFilter} : bind_filter(slot, f))
    BY DEF bind_filter
  <2>9. ~(\E names \in Hooks : run_hook(names))
    BY DEF run_hook
  <2> QED
    BY <2>1, <2>2, <2>3, <2>4, <2>5, <2>6, <2>7, <2>8, <2>9 DEF Next
<1> QED
  BY <1>1, RunsInFrames, PTL DEF Spec, ReturnsDenoted


-----------------------------------------------------------------------------
(***************************************************************************)
(* What is hooked: of each name, the value of the last call that has been  *)
(* returned from                                                           *)
(***************************************************************************)
\* The j-th instruction calls node n, and no later one of the first k does.
LastCall(p, n, j, k) ==
    /\ Code[p][j].op = "call" /\ Code[p][j].node = n
    /\ \A l \in j + 1 .. k : Code[p][l].op = "call" => Code[p][l].node # n

KeptIn(h, a, names, k) ==
    \A n \in names, j \in 1 .. k :
        LastCall(a.program, n, j, k) => n \in DOMAIN h /\ h[n] = Last(Frames(a)[j])

Kept(a, names, k) == KeptIn(hooked, a, names, k)

\* Nothing is known of `hooked' before the program of the run is executed: the
\* filters have operators too.
HooksKept(a, names) ==
    \/ throwing
    \/ /\ \A k \in 0 .. Len(Code[a.program]) : Executing(a, k) => Kept(a, names, k)
       /\ \A k \in 1 .. Len(Code[a.program]) : Calling(a, k) => Kept(a, names, k - 1)
       /\ Gone(a) => Kept(a, names, Len(Code[a.program]))

LEMMA KeptWithoutCall ==
    ASSUME NEW h, NEW a, NEW names, NEW k \in Nat, KeptIn(h, a, names, k),
           Code[a.program][k + 1].op # "call"
    PROVE  KeptIn(h, a, names, k + 1)
<1> SUFFICES ASSUME NEW n \in names, NEW j \in 1 .. k + 1, LastCall(a.program, n, j, k + 1)
             PROVE  n \in DOMAIN h /\ h[n] = Last(Frames(a)[j])
  BY DEF KeptIn
<1>1. j # k + 1
  BY DEF LastCall
<1>2. j \in 1 .. k /\ (\A l \in j + 1 .. k : l \in j + 1 .. k + 1)
  BY <1>1
<1>3. LastCall(a.program, n, j, k)
  BY <1>2 DEF LastCall
<1> QED
  BY <1>2, <1>3 DEF KeptIn

LEMMA KeptByCall ==
    ASSUME NEW h, NEW new, NEW a, NEW names, NEW k \in Nat \ {0}, KeptIn(h, a, names, k - 1),
           NEW node, Code[a.program][k].op = "call", Code[a.program][k].node = node,
           new = IF node \in names
                 THEN [n \in DOMAIN h \union {node} |->
                        IF n = node THEN Last(Frames(a)[k]) ELSE h[n]]
                 ELSE h
    PROVE  KeptIn(new, a, names, k)
<1> SUFFICES ASSUME NEW n \in names, NEW j \in 1 .. k, LastCall(a.program, n, j, k)
             PROVE  n \in DOMAIN new /\ new[n] = Last(Frames(a)[j])
  BY DEF KeptIn
<1>1. CASE j = k
  <2>1. n = node
    BY <1>1 DEF LastCall
  <2> QED
    BY <1>1, <2>1
<1>2. CASE j # k
  <2>1. j \in 1 .. k - 1 /\ k \in j + 1 .. k /\ (\A l \in j + 1 .. k - 1 : l \in j + 1 .. k)
    BY <1>2
  <2>2. n # node /\ LastCall(a.program, n, j, k - 1)
    BY <2>1 DEF LastCall
  <2>3. n \in DOMAIN h /\ h[n] = Last(Frames(a)[j])
    BY <2>1, <2>2 DEF KeptIn
  <2> QED
    BY <2>2, <2>3
<1> QED
  BY <1>1, <1>2

-----------------------------------------------------------------------------
(***************************************************************************)
(* The points of an activation exclude each other.                         *)
(***************************************************************************)
LEMMA OnTop ==
    ASSUME NEW a, Good(a)
    PROVE  /\ Len(a.calls) \in Nat \ {0}
           /\ \A slot, at, pointer : Entered(a, slot, at, pointer) =>
                /\ IsSequence(calls)
                /\ Len(calls) = Len(a.calls) + 1 /\ calls[Len(a.calls) + 1].at = at
                /\ Pointer = pointer
                /\ \A i \in 1 .. Len(a.calls) : calls[i] = a.calls[i]
           /\ \A slot, at, pointer, operator, rest : Operating(a, slot, at, pointer, operator, rest) =>
                /\ IsSequence(calls)
                /\ Len(calls) = Len(a.calls) + 2 /\ calls[Len(a.calls) + 1].at = at
                /\ Pointer = pointer
                /\ \A i \in 1 .. Len(a.calls) : calls[i] = a.calls[i]
<1>1. IsSequence(a.calls) /\ Len(a.calls) \in Nat \ {0} /\ IsSequence(a.env)
  BY SequenceFacts DEF Good
<1>2. ASSUME NEW slot, NEW at, NEW pointer, Entered(a, slot, at, pointer)
      PROVE  /\ IsSequence(calls)
             /\ Len(calls) = Len(a.calls) + 1 /\ calls[Len(a.calls) + 1].at = at
             /\ Pointer = pointer
             /\ \A i \in 1 .. Len(a.calls) : calls[i] = a.calls[i]
  <2> DEFINE on == On(a.program, a.args, slot, at)
  <2>1. calls = Append(a.calls, on) /\ on.at = at /\ Pointer = pointer
    BY <1>2, EnteredTop DEF Entered, On
  <2> HIDE DEF on
  <2> DEFINE below == a.calls
  <2>2. calls = Append(below, on) /\ IsSequence(below)
    BY <1>1, <2>1
  <2> HIDE DEF below
  <2>3. /\ IsSequence(calls) /\ Len(calls) = Len(below) + 1 /\ calls[Len(below) + 1] = on
        /\ \A i \in 1 .. Len(below) : calls[i] = below[i]
    BY ONLY <2>2, Extended
  <2> QED
    BY <2>1, <2>3 DEF below
<1>3. ASSUME NEW slot, NEW at, NEW pointer, NEW operator, NEW rest,
             Operating(a, slot, at, pointer, operator, rest)
      PROVE  /\ IsSequence(calls)
             /\ Len(calls) = Len(a.calls) + 2 /\ calls[Len(a.calls) + 1].at = at
             /\ Pointer = pointer
             /\ \A i \in 1 .. Len(a.calls) : calls[i] = a.calls[i]
  <2> DEFINE on == On(a.program, a.args, slot, at)  e == Env(a.program, pointer)
             below == Append(a.calls, on)
  <2>1. calls = Append(below, operator) /\ on.at = at /\ env = Append(a.env, e)
    BY <1>3 DEF Operating, On
  <2>2. e.pointer = pointer
    BY DEF Env
  <2> HIDE DEF on, e
  <2>3. /\ IsSequence(below) /\ Len(below) = Len(a.calls) + 1 /\ below[Len(a.calls) + 1] = on
        /\ \A i \in 1 .. Len(a.calls) : below[i] = a.calls[i]
    <3>1. IsSequence(a.calls)
      BY <1>1
    <3> QED
      BY ONLY <3>1, Extended
  <2> HIDE DEF below
  <2>4. /\ IsSequence(calls) /\ Len(calls) = Len(below) + 1
        /\ \A i \in 1 .. Len(below) : calls[i] = below[i]
    <3>1. calls = Append(below, operator) /\ IsSequence(below)
      BY <2>1, <2>3
    <3> QED
      BY ONLY <3>1, Extended
  <2>5. Pointer = pointer
    BY <1>1, <2>1, <2>2, LastExtended DEF Pointer
  <2>6. Len(a.calls) + 1 \in 1 .. Len(below) /\ \A i \in 1 .. Len(a.calls) : i \in 1 .. Len(below)
    BY <1>1, <2>3
  <2>7. Len(calls) = Len(a.calls) + 2
    BY <1>1, <2>3, <2>4
  <2>8. calls[Len(a.calls) + 1].at = at
    BY <2>1, <2>3, <2>4, <2>6
  <2>9. \A i \in 1 .. Len(a.calls) : calls[i] = a.calls[i]
    BY <2>3, <2>4, <2>6
  <2> QED
    BY <2>4, <2>5, <2>7, <2>8, <2>9
<1> QED
  BY <1>1, <1>2, <1>3

\* The calls under those of an activation stay as they are.
LEMMA ActiveAbove ==
    ASSUME NEW a, Good(a), Active(a)
    PROVE  /\ IsSequence(calls) /\ Len(calls) > Len(a.calls)
           /\ \A i \in 1 .. Len(a.calls) : calls[i] = a.calls[i]
<1>1. CASE Entering(a)
  <2> DEFINE on == On(a.program, a.args, 1, "entering")
  <2>1. calls = Append(a.calls, on) /\ IsSequence(a.calls) /\ Len(a.calls) \in Nat
    BY <1>1, OnTop DEF Entering, Good
  <2> HIDE DEF on
  <2>2. /\ IsSequence(calls) /\ Len(calls) = Len(a.calls) + 1
        /\ \A i \in 1 .. Len(a.calls) : calls[i] = a.calls[i]
    BY <2>1, Extended
  <2> QED
    BY <2>1, <2>2
<1>2. CASE ~Entering(a)
  <2>1. \/ \E slot, at, pointer : Entered(a, slot, at, pointer)
        \/ \E slot, at, pointer, operator, rest : Operating(a, slot, at, pointer, operator, rest)
    BY <1>2, Zenon DEF Active, Preparing, Taking, Casting, Executing, Calling
  <2> QED
    BY <2>1, OnTop
<1> QED
  BY <1>1, <1>2

Elsewhere(a) == (\A k : ~Executing(a, k) /\ ~Calling(a, k)) /\ ~Gone(a)

LEMMA PointsApart ==
    ASSUME NEW a, Good(a)
    PROVE  /\ \A k, m : Executing(a, k) /\ Executing(a, m) => k = m
           /\ \A k, m : Calling(a, k) /\ Calling(a, m) => k = m
           /\ \A k, m : ~(Executing(a, k) /\ Calling(a, m))
           /\ \A k : ~(Executing(a, k) /\ Gone(a)) /\ ~(Calling(a, k) /\ Gone(a))
           /\ \A slot : Preparing(a, slot) \/ Taking(a, slot) \/ Casting(a, slot) => Elsewhere(a)
<1> DEFINE n == Len(a.calls)
<1>1. \A k : Executing(a, k) => Len(calls) = n + 1 /\ calls[n + 1].at = "running" /\ Pointer = k
  BY OnTop DEF Executing
<1>2. \A k : Calling(a, k) => Len(calls) = n + 2 /\ calls[n + 1].at = "running" /\ Pointer = k
  <2> SUFFICES ASSUME NEW k, Calling(a, k)
               PROVE  Len(calls) = n + 2 /\ calls[n + 1].at = "running" /\ Pointer = k
    OBVIOUS
  <2>1. PICK slot, operator, rest : Operating(a, slot, "running", k, operator, rest)
    BY DEF Calling
  <2> QED
    BY <2>1, OnTop
<1>3. Gone(a) => Len(calls) = n
  BY DEF Gone
<1>4. \A slot : Preparing(a, slot) => Len(calls) = n + 1 /\ calls[n + 1].at = "preparing"
  BY OnTop DEF Preparing
<1>5. \A slot : Taking(a, slot) => Len(calls) = n + 1 /\ calls[n + 1].at = "filtered"
  BY OnTop DEF Taking
<1>6. \A slot : Casting(a, slot) => Len(calls) = n + 2 /\ calls[n + 1].at = "preparing"
  BY OnTop DEF Casting
<1>7. n \in Nat
  BY OnTop
<1> HIDE DEF n
<1> QED
  BY <1>1, <1>2, <1>3, <1>4, <1>5, <1>6, <1>7 DEF Elsewhere

LEMMA FilteringApart ==
    ASSUME NEW a, Good(a), NEW slot \in 1 .. Len(a.args), a.filters[slot] \in Filters,
           Active(Filtering(a, slot))
    PROVE  Elsewhere(a)
<1> DEFINE b == Filtering(a, slot)  on == On(a.program, a.args, slot, "filtered")  n == Len(a.calls)
<1>1. b.calls = Append(a.calls, on) /\ on.at = "filtered" /\ IsSequence(a.calls)
  BY DEF Filtering, On, Good
<1>2. Good(b) /\ Active(b)
  BY FilteringGood
<1> HIDE DEF b, on
<1>3. Len(b.calls) = n + 1 /\ b.calls[n + 1] = on
  BY <1>1, Extended
<1>4. Len(calls) > Len(b.calls) /\ \A i \in 1 .. Len(b.calls) : calls[i] = b.calls[i]
  BY <1>2, ActiveAbove
<1>5. n \in Nat
  BY OnTop
<1>6. n + 1 \in 1 .. Len(b.calls)
  BY <1>3, <1>5
<1>7. Len(calls) > n + 1 /\ calls[n + 1].at = "filtered"
  BY <1>1, <1>3, <1>4, <1>6
<1>8. \A k : Executing(a, k) \/ Calling(a, k) => calls[n + 1].at = "running"
  BY OnTop DEF Executing, Calling
<1>9. Gone(a) => Len(calls) = n
  BY DEF Gone
<1> QED
  BY <1>5, <1>7, <1>8, <1>9 DEF Elsewhere

-----------------------------------------------------------------------------
(***************************************************************************)
(* The steps of the activation that is hooked                              *)
(***************************************************************************)
LEMMA PreparingKept ==
    ASSUME NEW a, Good(a), NEW names, NEW slot
    PROVE  Preparing(a, slot)' \/ Taking(a, slot)' \/ Casting(a, slot)' => HooksKept(a, names)'
<1>1. Preparing(a, slot) \/ Taking(a, slot) \/ Casting(a, slot) => HooksKept(a, names)
  BY PointsApart DEF Elsewhere, HooksKept
<1> QED
  BY <1>1, PTL

LEMMA FilteringKept ==
    ASSUME NEW a, Good(a), NEW names, NEW slot \in 1 .. Len(a.args), a.filters[slot] \in Filters
    PROVE  Active(Filtering(a, slot))' => HooksKept(a, names)'
<1>1. Active(Filtering(a, slot)) => HooksKept(a, names)
  BY FilteringApart DEF Elsewhere, HooksKept
<1> QED
  BY <1>1, PTL

LEMMA ExecutingKept ==
    ASSUME NEW a, Good(a), NEW names, NEW k \in 0 .. Len(Code[a.program])
    PROVE  Executing(a, k)' /\ Kept(a, names, k)' => HooksKept(a, names)'
<1>1. Executing(a, k) /\ Kept(a, names, k) => HooksKept(a, names)
  BY PointsApart DEF HooksKept
<1> QED
  BY <1>1, PTL

LEMMA CallingKept ==
    ASSUME NEW a, Good(a), NEW names, NEW k \in 1 .. Len(Code[a.program])
    PROVE  Calling(a, k)' /\ Kept(a, names, k - 1)' => HooksKept(a, names)'
<1>1. Calling(a, k) /\ Kept(a, names, k - 1) => HooksKept(a, names)
  BY PointsApart DEF HooksKept
<1> QED
  BY <1>1, PTL

LEMMA GoneKept ==
    ASSUME NEW a, Good(a), NEW names
    PROVE  Gone(a)' /\ Kept(a, names, Len(Code[a.program]))' => HooksKept(a, names)'
<1>1. Gone(a) /\ Kept(a, names, Len(Code[a.program])) => HooksKept(a, names)
  BY PointsApart DEF HooksKept
<1> QED
  BY <1>1, PTL

\* What the operator of a call returns is what the frame has on top after it.
LEMMA ResultOfCall ==
    ASSUME NEW a, Good(a), NEW k \in 1 .. Len(Code[a.program]), Calling(a, k), ~throwing
    PROVE  /\ Top = Operator(Code[a.program][k].node, TRUE) /\ Code[a.program][k].op = "call"
           /\ Result = Last(Frames(a)[k])
<1> DEFINE ins == Code[a.program][k]  cells == Frames(a)[k - 1]
           rest == SubSeq(cells, 1, Len(cells) - ins.nargs)
           top == TopCells(cells, ins.nargs)
           operator == Operator(ins.node, TRUE)
           f == a.floor
<1>1. /\ IsSequence(cells) /\ Accepts(ins, cells) /\ Frames(a)[k] = Effect(a.program, ins, cells)
  <2>1. k - 1 \in 0 .. Len(Code[a.program])
    BY FramesAccept
  <2> QED
    BY <2>1, FramesAccept
<1>2. /\ ins.op = "call" /\ stack = f \o cells
      /\ Operating(a, Len(a.args) + 1, "running", k, operator, rest)
  BY DEF Calling, Holds
<1>3. Top = operator /\ base = Len(f \o rest) /\ IsSequence(f) /\ operator.node = ins.node
  BY <1>2, OperatingTop, Zenon DEF Operating, Good, Above, Operator
<1>4. IsSequence(rest) /\ IsSequence(top) /\ cells = rest \o top
  <2> DEFINE n == ins.nargs
  <2>1. n \in 1 .. Len(cells)
    BY <1>1, <1>2 DEF Accepts
  <2> HIDE DEF n, cells
  <2>2. /\ IsSequence(SubSeq(cells, 1, Len(cells) - n)) /\ IsSequence(TopCells(cells, n))
        /\ cells = SubSeq(cells, 1, Len(cells) - n) \o TopCells(cells, n)
    <3>1. IsSequence(cells)
      BY <1>1
    <3> QED
      BY ONLY <2>1, <3>1, CallOnFrame, Zenon
  <2> QED
    BY <2>2, Zenon DEF n
<1>5. Frames(a)[k] = rest \o <<Apply(ins.node, top)>>
  BY <1>1, <1>2, Zenon DEF Effect
<1> HIDE DEF rest, top, operator, cells, f
<1>6. Frame = top
  <2>1. SubSeq(f \o (rest \o top), Len(f \o rest) + 1, Len(f \o (rest \o top))) = top
    BY <1>3, <1>4, ArgumentsAreFrame
  <2> QED
    BY <1>2, <1>3, <1>4, <2>1 DEF Frame
<1>7. Result = Apply(ins.node, top)
  BY <1>3, <1>6 DEF Result
<1>8. Last(rest \o <<Apply(ins.node, top)>>) = Apply(ins.node, top)
  <2> DEFINE x == Apply(ins.node, top)
  <2> HIDE DEF x
  <2>1. Append(rest, x) = rest \o <<x>> /\ Last(Append(rest, x)) = x
    BY <1>4, Extended, LastExtended
  <2> QED
    BY <2>1 DEF x
<1> QED
  BY <1>2, <1>3, <1>5, <1>7, <1>8 DEF operator

LEMMA ActiveHooks ==
    ASSUME NEW a, Good(a), Bound(a), Active(a), Next, NEW names,
           a.calls[1] = RunHookCall(names, "ran"), HooksKept(a, names)
    PROVE  HooksKept(a, names)'
<1>0. Len(a.args) \in Nat /\ Len(Code[a.program]) \in Nat
  BY FramesAccept, SequenceFacts DEF Good
<1>1. ~Idle /\ ~In("run_hook") /\ ~In("launch_offline")
  BY ActiveTop DEF Idle, In
<1>2. Head(calls) = RunHookCall(names, "ran") /\ Len(calls) > 1
  <2>1. 1 \in 1 .. Len(a.calls) /\ Len(a.calls) >= 1 /\ Len(a.calls) \in Nat
    BY OnTop
  <2>2. calls[1] = a.calls[1] /\ Len(calls) > Len(a.calls) /\ IsSequence(calls)
    BY <2>1, ActiveAbove
  <2>3. Len(calls) > 1
    BY <2>1, <2>2, SequenceFacts
  <2> QED
    BY <2>2, <2>3 DEF Head
<1>3. throwing' => HooksKept(a, names)'
  BY DEF HooksKept
<1>5. ASSUME NEW k \in 0 .. Len(Code[a.program]), Executing(a, k)', Kept(a, names, k)'
      PROVE  HooksKept(a, names)'
  BY <1>5, ExecutingKept
<1>6. CASE EnterOnline \/ PushArgument \/ FilterArgument \/ CastArgument
  <2>1. \/ throwing'
        \/ \E slot : Preparing(a, slot)' \/ Taking(a, slot)' \/ Casting(a, slot)'
        \/ \E slot \in 1 .. Len(a.args) :
              a.filters[slot] \in Filters /\ Active(Filtering(a, slot))'
    <3>1. CASE EnterOnline
      BY <3>1, ActiveTop, EnterStep DEF EnterOnline
    <3>2. CASE PushArgument
      BY <3>2, ActiveTop, PushStep DEF PushArgument
    <3>3. CASE FilterArgument
      <4>1. PICK slot \in 1 .. Len(a.args) + 1 : Preparing(a, slot)
        BY <3>3, ActiveTop DEF FilterArgument
      <4>2. /\ slot \in 1 .. Len(a.args) /\ a.filters[slot] \in Filters
            /\ Preparing(a, slot)' \/ Entering(Filtering(a, slot))'
        BY <3>3, <4>1, FilterStep
      <4> QED
        BY <4>2 DEF Active
    <3>4. CASE CastArgument
      BY <3>4, ActiveTop, CastStep DEF CastArgument
    <3> QED
      BY <1>6, <3>1, <3>2, <3>3, <3>4
  <2>2. ASSUME NEW slot, Preparing(a, slot)' \/ Taking(a, slot)' \/ Casting(a, slot)'
        PROVE  HooksKept(a, names)'
    BY <2>2, PreparingKept
  <2>3. ASSUME NEW slot \in 1 .. Len(a.args), a.filters[slot] \in Filters, Active(Filtering(a, slot))'
        PROVE  HooksKept(a, names)'
    BY <2>3, FilteringKept
  <2> QED
    BY <1>3, <2>1, <2>2, <2>3
<1>7. CASE BeginProgram
  <2>1. PICK slot \in 1 .. Len(a.args) + 1 : Preparing(a, slot)
    BY <1>7, ActiveTop DEF BeginProgram
  <2>2. Executing(a, 0)'
    BY <1>7, <2>1, BeginStep
  <2>3. Kept(a, names, 0)' /\ 0 \in 0 .. Len(Code[a.program])
    BY <1>0 DEF Kept, KeptIn
  <2> QED
    BY <1>5, <2>2, <2>3
<1>8. CASE RunStackInstruction
  <2>1. PICK k \in 0 .. Len(Code[a.program]) : Executing(a, k)
    BY <1>8, ActiveTop DEF RunStackInstruction, Fetches
  <2>2. k + 1 \in 1 .. Len(Code[a.program]) /\ Executing(a, k + 1)'
    BY <1>8, <2>1, RunStep
  <2>3. PICK op \in {"push", "swap", "erase", "data"} : Fetches(op)
    BY <1>8 DEF RunStackInstruction
  <2>4. Code[a.program][k + 1].op # "call" /\ ~throwing
    BY <2>1, <2>3, Fetched
  <2>5. KeptIn(hooked, a, names, k) /\ hooked' = hooked /\ k \in Nat
    BY <1>0, <1>8, <2>1, <2>4 DEF HooksKept, Kept, RunStackInstruction
  <2>6. Kept(a, names, k + 1)'
    BY <2>4, <2>5, KeptWithoutCall DEF Kept
  <2>7. k + 1 \in 0 .. Len(Code[a.program])
    BY <1>0, <2>2
  <2> QED
    BY <1>5, <2>2, <2>6, <2>7
<1>9. CASE EnterOperator
  <2>1. PICK k \in 0 .. Len(Code[a.program]) : Executing(a, k)
    BY <1>9, ActiveTop DEF EnterOperator, Fetches
  <2>2. k + 1 \in 1 .. Len(Code[a.program]) /\ Calling(a, k + 1)'
    BY <1>9, <2>1, EnterOperatorStep
  <2>3. KeptIn(hooked, a, names, k) /\ hooked' = hooked /\ (k + 1) - 1 = k
    BY <1>0, <1>9, <2>1 DEF HooksKept, Kept, EnterOperator, Fetches, InOnline, In
  <2> DEFINE m == k + 1
  <2>4. m \in 1 .. Len(Code[a.program]) /\ Calling(a, m)' /\ m - 1 = k
    BY <2>2, <2>3
  <2> HIDE DEF m
  <2>5. Kept(a, names, m - 1)'
    BY <2>3, <2>4 DEF Kept
  <2> QED
    BY <2>4, <2>5, CallingKept
<1>10. CASE ReturnOnline
  <2> DEFINE L == Len(Code[a.program])
  <2>1. PICK k \in 0 .. L : Executing(a, k)
    BY <1>10, ActiveTop DEF ReturnOnline
  <2>2. Executing(a, k)' \/ Gone(a)'
    BY <1>10, <2>1, ReturnOnlineStep
  <2>3. k = L /\ ~throwing
    <3>1. Pointer = k /\ Running = a.program
      BY <2>1, EnteredTop DEF Executing
    <3> QED
      BY <1>10, <3>1 DEF ReturnOnline, InOnline, In
  <2>4. KeptIn(hooked, a, names, L) /\ hooked' = hooked
    BY <1>10, <2>1, <2>3 DEF HooksKept, Kept, ReturnOnline, Throws
  <2>5. Kept(a, names, L)'
    BY <2>4 DEF Kept
  <2> QED
    BY <1>5, <2>1, <2>2, <2>3, <2>5, GoneKept
<1>11. CASE ReturnOperator
  <2>1. ~throwing /\ Top.call = "operator"
    BY <1>11 DEF ReturnOperator, In
  <2>2. ASSUME NEW slot \in 1 .. Len(a.args), Casting(a, slot)
        PROVE  HooksKept(a, names)'
    <3>1. Preparing(a, slot + 1)'
      BY <1>11, <2>2, ReturnFromCast
    <3> QED
      BY <3>1, PreparingKept
  <2>3. ASSUME NEW k \in 1 .. Len(Code[a.program]), Calling(a, k)
        PROVE  HooksKept(a, names)'
    <3> DEFINE node == Code[a.program][k].node
    <3>1. Executing(a, k)'
      BY <1>11, <2>3, ReturnFromCall
    <3>2. /\ Top = Operator(node, TRUE) /\ Code[a.program][k].op = "call"
          /\ Result = Last(Frames(a)[k])
      BY <2>1, <2>3, ResultOfCall
    <3>3. KeptIn(hooked, a, names, k - 1) /\ k \in Nat \ {0} /\ k \in 0 .. Len(Code[a.program])
      BY <1>0, <2>1, <2>3 DEF HooksKept, Kept
    <3>4. hooked' = IF node \in names
                    THEN [n \in DOMAIN hooked \union {node} |->
                            IF n = node THEN Last(Frames(a)[k]) ELSE hooked[n]]
                    ELSE hooked
      <4> DEFINE r == Last(Frames(a)[k])
      <4>1. Top.hooks = TRUE /\ Top.node = node /\ Result = r
        BY <3>2 DEF Operator
      <4>2. Head(calls).call = "run_hook" /\ Head(calls).names = names
        BY <1>2 DEF RunHookCall
      <4> HIDE DEF node, r
      <4>3. hooked' = HookedAfter(r)
        BY <1>11, <4>1 DEF ReturnOperator
      <4> QED
        BY <4>1, <4>2, <4>3 DEF HookedAfter, r
    <3>5. KeptIn(hooked', a, names, k)
      BY <3>2, <3>3, <3>4, KeptByCall
    <3>6. Kept(a, names, k)'
      BY <3>5 DEF Kept
    <3> QED
      BY <1>5, <3>1, <3>3, <3>6
  <2> QED
    BY <2>1, <2>2, <2>3, ActiveTop
<1>12. CASE FailOperator \/ Unwind
  <2>1. throwing'
    <3>1. CASE FailOperator
      BY <3>1 DEF FailOperator, Throws
    <3>2. CASE Unwind
      BY <1>2, <3>2 DEF Unwind
    <3> QED
      BY <1>12, <3>1, <3>2
  <2> QED
    BY <1>3, <2>1
<1>14. ~(\E p \in Programs \ Filters : setup(p))
  BY <1>1 DEF setup
<1>15. ~(\E slot \in DOMAIN inputs, t \in Tensors : input(slot, t))
  BY <1>1 DEF input
<1>16. ~(\E slot \in DOMAIN inputs, f \in Filters \union {NoFilter} : bind_filter(slot, f))
  BY <1>1 DEF bind_filter
<1>17. ~(\E other \in Hooks : run_hook(other)) /\ ~run /\ ~ReturnOffline /\ ~ReturnHook
  BY <1>1 DEF run_hook, run, ReturnOffline, ReturnHook
<1> QED
  BY <1>6, <1>7, <1>8, <1>9, <1>10, <1>11, <1>12, <1>14, <1>15, <1>16, <1>17 DEF Next

-----------------------------------------------------------------------------
(***************************************************************************)
(* The invariant with what is hooked                                       *)
(***************************************************************************)
\* run_hook has what the program computed once `run' has returned.
RestHooked(ground) ==
    \A names \in Hooks : calls = <<RunHookCall(names, "ran")>> =>
        \/ throwing
        \/ \A a \in {Main(ground, <<RunHookCall(names, "ran")>>)} :
              Kept(a, names, Len(Code[a.program]))

MainHooked(a, callers) ==
    \A names \in Hooks : callers = <<RunHookCall(names, "ran")>> => HooksKept(a, names)

Hooked(ground) ==
    \/ AtRest(ground) /\ RestHooked(ground)
    \/ \E callers \in Callers : \E a \in {Main(ground, callers)} :
          InRun(a) /\ MainHooked(a, callers)

HooksInductive == UserOK /\ \E ground : IsSequence(ground) /\ Hooked(ground)

LEMMA InRunHooks ==
    ASSUME UserOK, NEW a, Good(a), Bound(a), InRun(a), ~Gone(a), Next, NEW names,
           a.calls[1] = RunHookCall(names, "ran"), HooksKept(a, names)
    PROVE  HooksKept(a, names)'
<1>1. CASE Active(a)
  BY <1>1, ActiveHooks
<1>2. ASSUME NEW slot \in 1 .. Len(a.args), a.filters[slot] \in Filters, Active(Filtering(a, slot))
      PROVE  HooksKept(a, names)'
  <2> DEFINE b == Filtering(a, slot)
  <2>1. Good(b) /\ Bound(b) /\ b.filters[1] = NoFilter /\ Len(b.args) = 1
    BY <1>2, FilteringGood, FilteringBound
  <2>2. Continues(b)
    BY <1>2, <2>1, ActiveStep
  <2>3. CASE Active(b)'
    BY <1>2, <2>3, FilteringKept
  <2>4. CASE Gone(b)'
    <3>1. Taking(a, slot)'
      BY <1>2, <2>4, FilterReturns
    <3> QED
      BY <3>1, PreparingKept
  <2>5. ~ \E s \in 1 .. Len(b.args) : b.filters[s] \in Filters
    <3>1. NoFilter \notin Filters
      BY WorkbenchAssumption
    <3> QED
      BY <2>1, <3>1
  <2> QED
    BY <2>2, <2>3, <2>4, <2>5 DEF Continues
<1> QED
  BY <1>1, <1>2 DEF InRun

LEMMA GoneHooks ==
    ASSUME UserOK, NEW ground, IsSequence(ground), NEW callers \in Callers,
           Gone(Main(ground, callers)), MainHooked(Main(ground, callers), callers), Next
    PROVE  RestHooked(ground)'
<1> DEFINE a == Main(ground, callers)
<1>1. a.calls = Append(callers, Offline) /\ IsSequence(callers)
  BY Nothing, Single DEF Main, Callers
<1>2. calls = Append(callers, Offline)
  BY <1>1 DEF Gone
<1>3. Top = Offline /\ Front(calls) = callers /\ calls # <<>>
  <2> DEFINE o == Offline
  <2> HIDE DEF o
  <2>1. /\ Last(Append(callers, o)) = o /\ Front(Append(callers, o)) = callers
        /\ Append(callers, o) # <<>>
    BY <1>1, LastExtended, Extended
  <2> QED
    BY <1>2, <2>1 DEF o, Top
<1>4. ReturnOffline \/ Unwind
  <2>1. ~Idle /\ Top.call = "launch_offline"
    BY <1>3 DEF Idle, Offline
  <2> QED
    BY <2>1 DEF Next, setup, input, bind_filter, run_hook, run, ReturnHook,
     EnterOnline, PushArgument, FilterArgument, CastArgument, BeginProgram, RunStackInstruction,
     Fetches, EnterOperator, ReturnOnline, ReturnOperator, FailOperator, InOnline, In
<1>5. calls' = callers /\ hooked' = hooked
  BY <1>3, <1>4 DEF ReturnOffline, Unwind, Leaves
<1>6. Main(ground, callers)' = a
  BY <1>3, UserStep, MainUnchanged
<1> SUFFICES ASSUME NEW names \in Hooks, calls' = <<RunHookCall(names, "ran")>>, ~throwing'
             PROVE  \A b \in {Main(ground, <<RunHookCall(names, "ran")>>)'} :
                        Kept(b, names, Len(Code[b.program]))'
  BY DEF RestHooked
<1>7. callers = <<RunHookCall(names, "ran")>> /\ HooksKept(a, names)
  BY <1>5 DEF MainHooked
<1>8. ~throwing
  <2>1. ASSUME Unwind  PROVE FALSE
    <3>1. Len(calls) > 1
      <4> DEFINE o == Offline  x == RunHookCall(names, "ran")
      <4>1. calls = Append(<<x>>, o)
        BY <1>2, <1>7
      <4> HIDE DEF o, x
      <4>2. Len(calls) = 1 + 1
        BY <4>1, Single, Extended
      <4> QED
        BY <4>2
    <3> QED
      BY <2>1, <3>1 DEF Unwind
  <2> QED
    BY <1>4, <2>1 DEF ReturnOffline, In
<1>9. Kept(a, names, Len(Code[a.program]))
  BY <1>7, <1>8 DEF HooksKept
<1>10. Kept(a, names, Len(Code[a.program]))'
  <2>1. a.program' = a.program
    BY <1>6
  <2> QED
    BY <1>5, <1>6, <1>9 DEF Kept
<1> QED
  BY <1>6, <1>7, <1>10

LEMMA EnteringKept ==
    ASSUME NEW a, Good(a), NEW names
    PROVE  Entering(a)' => HooksKept(a, names)'
<1>1. Entering(a) => HooksKept(a, names)
  <2> SUFFICES ASSUME Entering(a)
               PROVE  HooksKept(a, names)
    OBVIOUS
  <2> DEFINE on == On(a.program, a.args, 1, "entering")  n == Len(a.calls)
  <2>1. calls = Append(a.calls, on) /\ IsSequence(a.calls) /\ n \in Nat /\ on.at = "entering"
    BY OnTop DEF Entering, Good, On
  <2> HIDE DEF on
  <2>2. Len(calls) = n + 1 /\ calls[n + 1] = on
    BY <2>1, Extended
  <2>3. \A k : Executing(a, k) \/ Calling(a, k) => calls[n + 1].at = "running"
    BY OnTop DEF Executing, Calling
  <2>4. Gone(a) => Len(calls) = n
    BY DEF Gone
  <2> HIDE DEF n
  <2> QED
    BY <2>1, <2>2, <2>3, <2>4 DEF HooksKept
<1> QED
  BY <1>1, PTL

LEMMA MainFirst ==
    ASSUME NEW ground, NEW names
    PROVE  Main(ground, <<RunHookCall(names, "ran")>>).calls[1] = RunHookCall(names, "ran")
<1> DEFINE x == RunHookCall(names, "ran")  o == Offline
<1> HIDE DEF x, o
<1>1. IsSequence(<<x>>) /\ Len(<<x>>) = 1 /\ <<x>>[1] = x
  BY Single
<1>2. 1 \in 1 .. Len(<<x>>)
  BY <1>1
<1>3. Append(<<x>>, o)[1] = x
  BY <1>1, <1>2, Extended
<1> QED
  BY <1>3 DEF Main, x, o

LEMMA MainGoodNext ==
    ASSUME NEW ground, IsSequence(ground), NEW callers \in Callers
    PROVE  UserOK' => (\A a \in {Main(ground, callers)} : Good(a))'
<1>1. UserOK => \A a \in {Main(ground, callers)} : Good(a)
  BY MainGood
<1> QED
  BY <1>1, PTL

LEMMA HookedStep ==
    ASSUME UserOK, NEW ground, IsSequence(ground), Hooked(ground), [Next]_vars
    PROVE  UserOK' /\ Hooked(ground)'
<1>1. CASE UNCHANGED vars
  <2>1. /\ UNCHANGED <<stack, base, bases, env, desktop, filters, inputs, calls, throwing, hooked>>
        /\ \A callers : Main(ground, callers)' = Main(ground, callers)
    BY <1>1 DEF vars, stackVars, userVars, Main
  <2>2. UserOK'
    BY <2>1 DEF UserOK
  <2>3. ASSUME AtRest(ground), RestHooked(ground)  PROVE AtRest(ground)' /\ RestHooked(ground)'
    <3>1. \A a, names, k : Kept(a, names, k) => Kept(a, names, k)'
      BY <2>1 DEF Kept
    <3> QED
      BY <2>1, <2>3, <3>1 DEF AtRest, RestHooked
  <2>4. ASSUME NEW a
        PROVE  /\ (Active(a) <=> Active(a)') /\ (Gone(a) <=> Gone(a)')
               /\ \A k : (Executing(a, k) <=> Executing(a, k)') /\ (Calling(a, k) <=> Calling(a, k)')
               /\ \A names, k : Kept(a, names, k) <=> Kept(a, names, k)'
    BY <2>1 DEF Active, Gone, Entering, Preparing, Taking, Casting, Executing, Calling, Entered,
       Operating, Holds, Kept
  <2>5. ASSUME NEW a, InRun(a)  PROVE InRun(a)'
    BY <2>4, <2>5 DEF InRun
  <2>6. ASSUME NEW a, NEW callers, MainHooked(a, callers)  PROVE MainHooked(a, callers)'
    BY <2>1, <2>4, <2>6 DEF MainHooked, HooksKept
  <2> QED
    BY <2>1, <2>2, <2>3, <2>5, <2>6 DEF Hooked
<1>2. CASE Next
  <2>1. UserOK'
    BY <1>2, UserStep
  <2>2. CASE AtRest(ground)
    <3>1. CASE Rests(ground)'
      BY <2>1, <3>1 DEF Rests, RestHooked, Hooked
    <3>2. CASE Launches(ground)'
      <4>0. PICK callers \in Callers : \E a \in {Main(ground, callers)'} : Entering(a)'
        BY <3>2 DEF Launches
      <4>1. PICK a : a = Main(ground, callers)' /\ Entering(a)'
        BY <4>0
      <4>2. Good(a)
        BY <2>1, <4>1, MainGoodNext
      <4>3. InRun(a)'
        BY <4>1 DEF InRun, Active
      <4>4. MainHooked(a, callers)'
        BY <4>1, <4>2, EnteringKept DEF MainHooked
      <4> QED
        BY <2>1, <4>1, <4>3, <4>4 DEF Hooked
    <3> QED
      BY <1>2, <2>2, <3>1, <3>2, RestStep
  <2>3. ASSUME NEW callers \in Callers, NEW a, a = Main(ground, callers), InRun(a),
               MainHooked(a, callers)
        PROVE  Hooked(ground)'
    <3>1. Good(a) /\ Bound(a)
      BY <2>3, MainGood
    <3>2. CASE Gone(a)
      <4>1. AtRest(ground)' /\ RestHooked(ground)'
        BY <1>2, <2>3, <3>2, GoneStep, GoneHooks
      <4> QED
        BY <4>1 DEF Hooked
    <3>3. CASE ~Gone(a)
      <4>1. InRun(a)'
        BY <1>2, <2>3, <3>1, <3>3, InRunStep
      <4>2. MainHooked(a, callers)'
        <5> SUFFICES ASSUME NEW names \in Hooks, callers = <<RunHookCall(names, "ran")>>
                     PROVE  HooksKept(a, names)'
          BY DEF MainHooked
        <5>1. a.calls[1] = RunHookCall(names, "ran") /\ HooksKept(a, names)
          BY <2>3, MainFirst DEF MainHooked
        <5> QED
          BY <1>2, <2>3, <3>1, <3>3, <5>1, InRunHooks
      <4>3. calls # <<>>
        <5>1. CASE Active(a)
          BY <3>1, <5>1, ActiveTop
        <5>2. ASSUME NEW slot \in 1 .. Len(a.args), a.filters[slot] \in Filters,
                     Active(Filtering(a, slot))
              PROVE  calls # <<>>
          BY <3>1, <5>2, FilteringGood, ActiveTop
        <5> QED
          BY <2>3, <3>3, <5>1, <5>2 DEF InRun
      <4>4. a = Main(ground, callers)'
        BY <1>2, <2>3, <4>3, UserStep, MainUnchanged
      <4> QED
        BY <4>1, <4>2, <4>4 DEF Hooked
    <3> QED
      BY <3>2, <3>3
  <2> QED
    BY <2>1, <2>2, <2>3 DEF Hooked
<1> QED
  BY <1>1, <1>2

LEMMA InitHooked ==
    ASSUME Init
    PROVE  HooksInductive
<1>1. IsSequence(stack)
  BY InSeq, WorkbenchAssumption DEF Init
<1>2. AtRest(stack) /\ calls = <<>>
  BY DEF Init, AtRest
<1>3. UserOK
  BY InitShape DEF Inductive
<1>4. \A names : <<>> # <<RunHookCall(names, "ran")>>
  <2> SUFFICES ASSUME NEW names  PROVE <<>> # <<RunHookCall(names, "ran")>>
    OBVIOUS
  <2> DEFINE y == RunHookCall(names, "ran")
  <2> HIDE DEF y
  <2>1. Len(<<y>>) = 1 /\ Len(<<>>) = 0
    BY Single, Nothing
  <2> QED
    BY <2>1 DEF y
<1>5. RestHooked(stack)
  BY <1>2, <1>4 DEF RestHooked
<1> QED
  BY <1>1, <1>2, <1>3, <1>5 DEF HooksInductive, Hooked

-----------------------------------------------------------------------------
(***************************************************************************)
(* The last call of a node                                                 *)
(***************************************************************************)
LEMMA LastCallExists ==
    ASSUME NEW p \in Programs, NEW n \in Nodes(p)
    PROVE  \E j \in DOMAIN Code[p] : LastCall(p, n, j, Len(Code[p]))
<1> DEFINE L == Len(Code[p])  S == {L - k : k \in {j \in 1 .. L : Code[p][j].op = "call" /\ Code[p][j].node = n}}
<1>1. L \in Nat /\ DOMAIN Code[p] = 1 .. L
  BY CodeAssumption, LenProperties
<1>2. PICK k \in 1 .. L : Code[p][k].op = "call" /\ Code[p][k].node = n
  BY <1>1 DEF Nodes, Range
<1>3. S \subseteq Nat /\ L - k \in S
  BY <1>1, <1>2
<1>4. PICK m \in S : \A i \in S : m <= i
  <2> HIDE DEF S
  <2> QED
    BY <1>3, LeastOf
<1>5. PICK j \in 1 .. L : m = L - j /\ Code[p][j].op = "call" /\ Code[p][j].node = n
  BY <1>4
<1>6. ASSUME NEW l \in j + 1 .. L, Code[p][l].op = "call", Code[p][l].node = n
      PROVE  FALSE
  <2>1. l \in 1 .. L /\ l > j
    BY <1>1
  <2>2. L - l \in S
    BY <1>6, <2>1
  <2>3. L - j <= L - l
    BY <1>4, <1>5, <2>2
  <2> QED
    BY <1>1, <2>1, <2>3
<1> QED
  BY <1>1, <1>5, <1>6 DEF LastCall

LEMMA NodeValueKept ==
    ASSUME NEW a, NEW names, Kept(a, names, Len(Code[a.program])), a.program \in Programs,
           Frames(a) = Trace(a.program, PreparedArguments(a.program, inputs)),
           NEW n, n \in names, n \in Nodes(a.program)
    PROVE  n \in DOMAIN hooked /\ hooked[n] = NodeValue(a.program, inputs, n)
<1> DEFINE p == a.program  L == Len(Code[p])
           Final(k) == /\ Code[p][k].op = "call" /\ Code[p][k].node = n
                       /\ \A l \in k + 1 .. Len(Code[p]) :
                            Code[p][l].op = "call" => Code[p][l].node # n
           last == CHOOSE k \in DOMAIN Code[p] : Final(k)
<1>1. \E k \in DOMAIN Code[p] : Final(k)
  BY LastCallExists DEF LastCall
<1>2. last \in DOMAIN Code[p] /\ Final(last)
  BY <1>1
<1>3. LastCall(p, n, last, L)
  BY <1>2 DEF LastCall
<1>4. last \in 1 .. L
  BY <1>2, CodeAssumption, LenProperties
<1>5. NodeValue(p, inputs, n) = Last(Frames(a)[last])
  BY DEF NodeValue
<1> HIDE DEF last
<1> QED
  BY <1>3, <1>4, <1>5 DEF Kept, KeptIn

\* After run_hook, output(name) is the value that the last operator of the program with
\* that name computed in this run, whatever was hooked in an earlier run or by
\* an operator of a filter, for any programs and names (run_hook, workbench.cpp:585).
THEOREM HookedAreTheNodes == Spec => []HookedAreDenoted
<1>1. Init => HooksInductive
  BY InitHooked
<1>2. HooksInductive /\ [Next]_vars => HooksInductive'
  <2> SUFFICES ASSUME HooksInductive, [Next]_vars
               PROVE  HooksInductive'
    OBVIOUS
  <2>1. PICK ground : IsSequence(ground) /\ Hooked(ground)
    BY DEF HooksInductive
  <2>2. UserOK' /\ Hooked(ground)'
    BY <2>1, HookedStep DEF HooksInductive
  <2> QED
    BY <2>1, <2>2 DEF HooksInductive
<1>3. HooksInductive => HookedAreDenoted
  <2> SUFFICES ASSUME HooksInductive, In("run_hook"), Top.at = "ran",
                      NEW n \in Top.names \intersect Nodes(desktop)
               PROVE  n \in DOMAIN hooked /\ hooked[n] = NodeValue(desktop, inputs, n)
    BY DEF HookedAreDenoted
  <2>1. PICK ground : IsSequence(ground) /\ Hooked(ground)
    BY DEF HooksInductive
  <2>2. UserOK /\ ~throwing
    BY DEF HooksInductive, In
  <2>3. AtRest(ground) /\ RestHooked(ground)
    <3> SUFFICES ASSUME NEW callers \in Callers, NEW a, a = Main(ground, callers), InRun(a)
                 PROVE  FALSE
      BY <2>1 DEF Hooked
    <3>1. Good(a)
      BY <2>1, <2>2, MainGood
    <3>2. ~Active(a)
      BY <3>1, ActiveTop DEF In
    <3>3. ASSUME NEW slot \in 1 .. Len(a.args), a.filters[slot] \in Filters,
                 Active(Filtering(a, slot))
          PROVE  FALSE
      <4> DEFINE b == Filtering(a, slot)
      <4>1. Good(b)
        BY <3>1, <3>3, FilteringGood
      <4> HIDE DEF b
      <4>2. Active(b)
        BY <3>3 DEF b
      <4> QED
        BY <4>1, <4>2, ActiveTop DEF In
    <3>4. ~Gone(a)
      <4> SUFFICES ASSUME Gone(a)  PROVE FALSE
        OBVIOUS
      <4> DEFINE o == Offline
      <4>1. calls = Append(callers, o) /\ IsSequence(callers) /\ o.call = "launch_offline"
        BY Nothing, Single DEF Gone, Main, Callers, Offline
      <4> HIDE DEF o
      <4>2. Top = o
        BY <4>1, LastExtended DEF Top
      <4> QED
        BY <4>1, <4>2 DEF In
    <3> QED
      BY <3>2, <3>3, <3>4 DEF InRun
  <2>4. PICK names \in Hooks : calls = <<RunHookCall(names, "ran")>> /\ Top.names = names
    <3>1. PICK names \in Hooks, at \in {"saved", "ran"} : calls = <<RunHookCall(names, at)>>
      BY <2>3 DEF AtRest, In
    <3>2. Top.at = at /\ Top.names = names
      BY <3>1, OneCall DEF RunHookCall
    <3> QED
      BY <3>1, <3>2
  <2> DEFINE callers == <<RunHookCall(names, "ran")>>  a == Main(ground, callers)
  <2>5. Kept(a, names, Len(Code[a.program]))
    BY <2>2, <2>3, <2>4 DEF RestHooked
  <2>6. a.program = desktop /\ a.args = inputs /\ a.filters = filters[desktop] /\ desktop \in Programs
    BY <2>2 DEF Main, UserOK
  <2> HIDE DEF a
  <2>7. Ready(a, Len(a.args)) = PreparedArguments(desktop, inputs)
    BY <2>2, <2>6, InputsAreSequence DEF Ready, PreparedArguments
  <2>8. Frames(a) = Trace(a.program, PreparedArguments(a.program, inputs))
    BY <2>6, <2>7 DEF Frames
  <2>9. /\ Kept(a, names, Len(Code[a.program])) /\ a.program \in Programs
        /\ n \in names /\ n \in Nodes(a.program)
    BY <2>4, <2>5, <2>6
  <2>10. n \in DOMAIN hooked /\ hooked[n] = NodeValue(a.program, inputs, n)
    BY <2>8, <2>9, NodeValueKept
  <2> QED
    BY <2>6, <2>10
<1> QED
  BY <1>1, <1>2, <1>3, PTL DEF Spec
=============================================================================
