------------------------ MODULE CompiledProgram_proof ------------------------
(***************************************************************************)
(* Proofs about CompiledProgram: its invariant is inductive, so whatever   *)
(* the graph, the compiled code computes the outputs, each operator once,  *)
(* and compiling and running implements Dataflow.  The first sections are  *)
(* lemmas about the bookkeeping of Compiler::compile: what simulator_push, *)
(* simulator_pop and simulator_swap do to working_nodes and to             *)
(* unsolved_node_count.                                                    *)
(***************************************************************************)
EXTENDS CompiledProgram, FiniteSetTheorems, FunctionTheorems, SequenceTheorems,
        WellFoundedInduction, TLAPS

-----------------------------------------------------------------------------
(***************************************************************************)
(* What the stack operators return, for a frame that starts at the bottom  *)
(* of the stack (base 0), where every compiled program of Workbench::run   *)
(* runs.                                                                   *)
(***************************************************************************)
\* push(i) leaves the cells and adds a copy of cell i.
LEMMA PushIndexCells ==
    ASSUME NEW S, NEW s \in Seq(S), NEW i \in 0 .. Len(s) - 1
    PROVE  PushIndex(s, 0, i) = Append(s, s[i + 1])
BY DEF PushIndex, Cell, Absolute

\* swap(i, j) exchanges two cells and leaves the others.
LEMMA SwapCells ==
    ASSUME NEW S, NEW s \in Seq(S), NEW i \in 0 .. Len(s) - 1, NEW j \in 0 .. Len(s) - 1
    PROVE  /\ Swap(s, 0, i, j) \in Seq(S)
           /\ Len(Swap(s, 0, i, j)) = Len(s)
           /\ \A p \in 1 .. Len(s) : Swap(s, 0, i, j)[p] =
                IF p = j + 1 THEN s[i + 1] ELSE IF p = i + 1 THEN s[j + 1] ELSE s[p]
<1>1. Len(s) \in Nat /\ DOMAIN s = 1 .. Len(s) /\ s \in [1 .. Len(s) -> S]
  BY LenProperties
<1>2. Swap(s, 0, i, j) = [[s EXCEPT ![i + 1] = s[j + 1]] EXCEPT ![j + 1] = s[i + 1]]
  <2>1. Absolute(s, 0, i) = i /\ Absolute(s, 0, j) = j
    BY <1>1 DEF Absolute
  <2>2. Swap(s, 0, i, j) = [s EXCEPT ![i + 1] = s[j + 1], ![j + 1] = s[i + 1]]
    BY <2>1, Zenon DEF Swap, Cell
  <2> QED
    BY <2>2, Zenon
<1> DEFINE t == [s EXCEPT ![i + 1] = s[j + 1]]
<1>3. i + 1 \in 1 .. Len(s) /\ j + 1 \in 1 .. Len(s)
  BY <1>1
<1>4. s[i + 1] \in S /\ s[j + 1] \in S
  BY <1>1, <1>3
<1>5. /\ t \in Seq(S)
      /\ Len(t) = Len(s)
      /\ \A p \in 1 .. Len(s) : t[p] = IF p = i + 1 THEN s[j + 1] ELSE s[p]
  BY <1>3, <1>4, ExceptSeq
<1> HIDE DEF t
<1>6. /\ [t EXCEPT ![j + 1] = s[i + 1]] \in Seq(S)
      /\ Len([t EXCEPT ![j + 1] = s[i + 1]]) = Len(t)
      /\ \A p \in 1 .. Len(t) : [t EXCEPT ![j + 1] = s[i + 1]][p] =
            IF p = j + 1 THEN s[i + 1] ELSE t[p]
  BY <1>3, <1>4, <1>5, ExceptSeq
<1>7. Swap(s, 0, i, j) = [t EXCEPT ![j + 1] = s[i + 1]]
  BY <1>2 DEF t
<1> QED
  BY <1>5, <1>6, <1>7

\* swap undoes itself: the compiler runs it on its simulator, the workbench
\* runs it again on the stack.
LEMMA SwapTwice ==
    ASSUME NEW S, NEW s \in Seq(S), NEW i \in 0 .. Len(s) - 1, NEW j \in 0 .. Len(s) - 1
    PROVE  Swap(Swap(s, 0, i, j), 0, i, j) = s
<1> DEFINE t == Swap(s, 0, i, j)
           u == Swap(t, 0, i, j)
<1>1. Len(s) \in Nat
  BY LenProperties
<1>2. /\ t \in Seq(S) /\ Len(t) = Len(s)
      /\ \A p \in 1 .. Len(s) : t[p] =
            IF p = j + 1 THEN s[i + 1] ELSE IF p = i + 1 THEN s[j + 1] ELSE s[p]
  BY SwapCells
<1> HIDE DEF t
<1>3. /\ u \in Seq(S) /\ Len(u) = Len(s)
      /\ \A p \in 1 .. Len(s) : u[p] =
            IF p = j + 1 THEN t[i + 1] ELSE IF p = i + 1 THEN t[j + 1] ELSE t[p]
  <2>1. t \in Seq(S) /\ i \in 0 .. Len(t) - 1 /\ j \in 0 .. Len(t) - 1
    BY <1>2
  <2> QED
    BY <1>2, <2>1, SwapCells
<1> HIDE DEF u
<1>4. \A p \in 1 .. Len(s) : u[p] = s[p]
  BY <1>1, <1>2, <1>3
<1>5. u = s
  BY <1>3, <1>4, SeqEqual
<1> QED
  BY <1>5 DEF u, t

\* An operator with its nargs arguments on top of the frame replaces them by
\* its result and leaves the cells below alone.
LEMMA ReplaceArgumentsCells ==
    ASSUME NEW S, NEW s \in Seq(S), NEW t \in Seq(S), NEW r \in S, t # <<>>
    PROVE  ReplaceArguments(s \o t, 0, Len(t), r) = Append(s, r)
<1> DEFINE whole == Append(s \o t, r)
           result == ReplaceArguments(s \o t, 0, Len(t), r)
<1>1. Len(s) \in Nat /\ Len(t) \in Nat /\ Len(t) > 0
  BY LenProperties, EmptySeq
<1>2. /\ s \o t \in Seq(S)
      /\ Len(s \o t) = Len(s) + Len(t)
      /\ \A p \in 1 .. Len(s) + Len(t) :
            (s \o t)[p] = IF p <= Len(s) THEN s[p] ELSE t[p - Len(s)]
  BY ConcatProperties
<1>3. /\ whole \in Seq(S)
      /\ Len(whole) = Len(s) + Len(t) + 1
      /\ \A p \in 1 .. Len(s) + Len(t) : whole[p] = (s \o t)[p]
      /\ whole[Len(s) + Len(t) + 1] = r
  BY <1>2, AppendProperties
<1> HIDE DEF whole
<1>4. Absolute(s \o t, 0, -Len(t)) = Len(s)
  BY <1>1, <1>2 DEF Absolute
<1>5. result = SubSeq(whole, 1, Len(s)) \o SubSeq(whole, Len(whole), Len(whole))
  <2>1. result = EraseRange(whole, Len(s), 0, -1)
    BY <1>4, Zenon DEF ReplaceArguments, whole
  <2>2. Absolute(whole, Len(s), 0) = Len(s)
    BY <1>1 DEF Absolute
  <2>3. Absolute(whole, Len(s), -1) + 1 = Len(whole)
    BY <1>1, <1>3 DEF Absolute
  <2> HIDE DEF result
  <2> QED
    BY <2>1, <2>2, <2>3, Zenon DEF EraseRange
<1>6. \A p \in 1 .. Len(whole) : whole[p] \in S
  BY <1>3, ElementOfSeq
<1>7. SubSeq(whole, 1, Len(s)) = s
  <2>1. /\ SubSeq(whole, 1, Len(s)) \in Seq(S)
        /\ Len(SubSeq(whole, 1, Len(s))) = Len(s)
        /\ \A p \in 1 .. Len(s) : SubSeq(whole, 1, Len(s))[p] = whole[p]
    <3>1. \A p \in 1 .. Len(s) : whole[p] \in S
      BY <1>1, <1>3, <1>6
    <3>2. /\ SubSeq(whole, 1, Len(s)) \in Seq(S)
          /\ Len(SubSeq(whole, 1, Len(s))) = IF 1 <= Len(s) THEN Len(s) - 1 + 1 ELSE 0
          /\ \A p \in 1 .. Len(s) - 1 + 1 : SubSeq(whole, 1, Len(s))[p] = whole[1 + p - 1]
      BY <1>1, <3>1, SubSeqProperties
    <3> QED
      BY <1>1, <3>2
  <2>2. \A p \in 1 .. Len(s) : whole[p] = s[p]
    BY <1>1, <1>2, <1>3
  <2> QED
    BY <2>1, <2>2, SeqEqual
<1>8. SubSeq(whole, Len(whole), Len(whole)) = <<r>>
  <2>1. /\ SubSeq(whole, Len(whole), Len(whole)) \in Seq(S)
        /\ Len(SubSeq(whole, Len(whole), Len(whole))) = 1
        /\ SubSeq(whole, Len(whole), Len(whole))[1] = r
    <3> DEFINE n == Len(whole)
    <3>1. n \in Nat /\ n > 0 /\ whole[n] = r
      BY <1>1, <1>3
    <3>2. \A p \in n .. n : whole[p] \in S
      BY <3>1
    <3> HIDE DEF n
    <3>3. /\ SubSeq(whole, n, n) \in Seq(S)
          /\ Len(SubSeq(whole, n, n)) = IF n <= n THEN n - n + 1 ELSE 0
          /\ \A p \in 1 .. n - n + 1 : SubSeq(whole, n, n)[p] = whole[n + p - 1]
      BY <3>1, <3>2, SubSeqProperties
    <3>4. SubSeq(whole, n, n)[1] = whole[n]
      BY <3>1, <3>3
    <3>5. Len(SubSeq(whole, n, n)) = 1
      BY <3>1, <3>3
    <3> QED
      BY <3>1, <3>3, <3>4, <3>5 DEF n
  <2>2. <<r>> \in Seq(S) /\ Len(<<r>>) = 1 /\ <<r>>[1] = r
    OBVIOUS
  <2> HIDE DEF result
  <2>3. Len(SubSeq(whole, Len(whole), Len(whole))) = Len(<<r>>)
    BY <2>1, <2>2
  <2>4. \A p \in 1 .. 1 : SubSeq(whole, Len(whole), Len(whole))[p] = <<r>>[p]
    BY <2>1, <2>2
  <2> QED
    BY <2>1, <2>2, <2>3, <2>4, SeqEqual
<1>9. s \o <<r>> = Append(s, r)
  BY AppendIsConcat
<1> QED
  BY <1>5, <1>7, <1>8, <1>9

\* erase(0, -n) with n > 0 leaves the n cells on top.
LEMMA EraseAllBut ==
    ASSUME NEW S, NEW s \in Seq(S), NEW t \in Seq(S), t # <<>>
    PROVE  EraseRange(s \o t, 0, 0, -Len(t)) = t
<1>1. Len(s) \in Nat /\ Len(t) \in Nat /\ Len(t) > 0
  BY LenProperties, EmptySeq
<1>2. s \o t \in Seq(S) /\ Len(s \o t) = Len(s) + Len(t)
  BY ConcatProperties
<1>3. EraseRange(s \o t, 0, 0, -Len(t)) =
        SubSeq(s \o t, 1, 0) \o SubSeq(s \o t, Len(s) + 1, Len(s) + Len(t))
  <2>1. Absolute(s \o t, 0, 0) = 0 /\ Absolute(s \o t, 0, -Len(t)) = Len(s)
    BY <1>1, <1>2 DEF Absolute
  <2> QED
    BY <1>2, <2>1, Zenon DEF EraseRange
<1>4. SubSeq(s \o t, 1, 0) = <<>>
  BY SubSeqEmpty
<1>5. SubSeq(s \o t, Len(s) + 1, Len(s) + Len(t)) = SubSeq(t, 1, Len(t))
  BY <1>1, SubSeqOfConcat2
<1>6. SubSeq(t, 1, Len(t)) = t
  BY SubSeqFull
<1> QED
  BY <1>3, <1>4, <1>5, <1>6, ConcatEmptySeq

-----------------------------------------------------------------------------
(***************************************************************************)
(* Indices                                                                 *)
(***************************************************************************)

\* A chain of bounds on indices
LEMMA LeastBound ==
    ASSUME NEW i \in Nat, NEW j \in Nat, NEW p \in Nat, i <= j, j + 1 <= p
    PROVE  i + 1 <= p
OBVIOUS

\* A non-empty set of naturals has a least element, and Min finds it.
LEMMA LeastIndex ==
    ASSUME NEW S, S \subseteq Nat, S # {}
    PROVE  Min(S) \in S /\ \A y \in S : Min(S) <= y
<1>1. PICK x \in S : \A y \in S : <<y, x>> \notin OpToRel(<, Nat)
  BY NatLessThanWellFounded, WFMin, Zenon
<1>2. \A y \in S : ~(y < x)
  BY <1>1, Zenon DEF OpToRel
<1>3. \A y \in S : x <= y
  BY <1>2
<1> QED
  BY <1>3 DEF Min

-----------------------------------------------------------------------------
(***************************************************************************)
(* Tracked, read for one node at a time: either the node does not occur    *)
(* and is not tracked, or it is tracked at the first of its occurrences.   *)
(***************************************************************************)
TrackedAt(track, nodes, n) ==
    \/ track[n] = Untracked /\ \A p \in 1 .. Len(nodes) : nodes[p] # n
    \/ /\ track[n] \in 0 .. Len(nodes) - 1
       /\ nodes[track[n] + 1] = n
       /\ \A p \in 1 .. Len(nodes) : nodes[p] = n => track[n] + 1 <= p

\* Tracked, node by node
LEMMA TrackedPointwise ==
    ASSUME NEW track, NEW nodes \in Seq(Nodes)
    PROVE  Tracked(track, nodes) <=> \A n \in Nodes : TrackedAt(track, nodes, n)
<1>1. Len(nodes) \in Nat /\ DOMAIN nodes = 1 .. Len(nodes)
  BY LenProperties
<1>2. ASSUME NEW n \in Nodes
      PROVE  LET at == {p \in DOMAIN nodes : nodes[p] = n}
             IN  (track[n] = IF at = {} THEN Untracked ELSE Min(at) - 1)
                    <=> TrackedAt(track, nodes, n)
  <2> DEFINE at == {p \in DOMAIN nodes : nodes[p] = n}
  <2>1. CASE at = {}
    <3>1. \A p \in 1 .. Len(nodes) : nodes[p] # n
      BY <1>1, <2>1
    <3>2. track[n] \in 0 .. Len(nodes) - 1 => track[n] + 1 \in 1 .. Len(nodes)
      BY <1>1
    <3> QED
      BY <2>1, <3>1, <3>2 DEF TrackedAt
  <2>2. CASE at # {}
    <3>0. at \subseteq Nat
      BY <1>1
    <3>1. Min(at) \in at /\ \A y \in at : Min(at) <= y
      <4> HIDE DEF at
      <4> QED
        BY <2>2, <3>0, LeastIndex
    <3>2. /\ Min(at) \in 1 .. Len(nodes) /\ nodes[Min(at)] = n
          /\ \A p \in 1 .. Len(nodes) : nodes[p] = n => Min(at) <= p
      BY <1>1, <3>1
    <3> HIDE DEF at
    <3>3. ASSUME track[n] = Min(at) - 1  PROVE TrackedAt(track, nodes, n)
      BY <1>1, <3>2, <3>3 DEF TrackedAt
    <3>4. ASSUME TrackedAt(track, nodes, n)  PROVE track[n] = Min(at) - 1
      <4>1. /\ track[n] \in 0 .. Len(nodes) - 1
            /\ nodes[track[n] + 1] = n
            /\ \A p \in 1 .. Len(nodes) : nodes[p] = n => track[n] + 1 <= p
        BY <3>2, <3>4 DEF TrackedAt
      <4>2. Min(at) <= track[n] + 1 /\ track[n] + 1 <= Min(at)
        BY <1>1, <3>2, <4>1
      <4> QED
        BY <1>1, <3>2, <4>1, <4>2
    <3> QED
      BY <2>2, <3>3, <3>4 DEF at
  <2> QED
    BY <2>1, <2>2
<1> QED
  BY <1>2, Zenon DEF Tracked

-----------------------------------------------------------------------------
\* The nodes below the top of a non-empty simulator
LEMMA BelowCells ==
    ASSUME NEW S, NEW s \in Seq(S), s # <<>>
    PROVE  /\ Len(s) \in Nat /\ Len(s) > 0 /\ s[Len(s)] \in S
           /\ SubSeq(s, 1, Len(s) - 1) \in Seq(S)
           /\ Len(SubSeq(s, 1, Len(s) - 1)) = Len(s) - 1
           /\ \A p \in 1 .. Len(s) - 1 : SubSeq(s, 1, Len(s) - 1)[p] = s[p]
           /\ s = Append(SubSeq(s, 1, Len(s) - 1), s[Len(s)])
<1> DEFINE b == SubSeq(s, 1, Len(s) - 1)
<1>1. Len(s) \in Nat /\ Len(s) > 0
  BY EmptySeq
<1>2. \A p \in 1 .. Len(s) : s[p] \in S
  BY ElementOfSeq
<1>3. s[Len(s)] \in S
  BY <1>1, <1>2
<1>4. /\ b \in Seq(S)
      /\ Len(b) = IF 1 <= Len(s) - 1 THEN Len(s) - 1 - 1 + 1 ELSE 0
      /\ \A p \in 1 .. Len(s) - 1 - 1 + 1 : b[p] = s[1 + p - 1]
  <2>1. \A p \in 1 .. Len(s) - 1 : s[p] \in S
    BY <1>1, <1>2
  <2> QED
    BY <1>1, <2>1, SubSeqProperties
<1> HIDE DEF b
<1>5. Len(b) = Len(s) - 1
  <2> DEFINE n == Len(s)
             m == Len(b)
  <2>1. n \in Nat /\ n > 0 /\ m = IF 1 <= n - 1 THEN n - 1 - 1 + 1 ELSE 0
    BY <1>1, <1>4
  <2> HIDE DEF n, m
  <2>2. m = n - 1
    BY <2>1
  <2> QED
    BY <2>2 DEF n, m
<1>6. \A p \in 1 .. Len(s) - 1 : b[p] = s[p]
  BY <1>1, <1>4
<1>7. s = Append(b, s[Len(s)])
  <2>1. /\ Append(b, s[Len(s)]) \in Seq(S)
        /\ Len(Append(b, s[Len(s)])) = Len(b) + 1
        /\ \A i \in 1 .. Len(b) : Append(b, s[Len(s)])[i] = b[i]
        /\ Append(b, s[Len(s)])[Len(b) + 1] = s[Len(s)]
    BY <1>3, <1>4, AppendProperties
  <2>2. \A i \in 1 .. Len(s) : s[i] = Append(b, s[Len(s)])[i]
    BY <1>1, <1>5, <1>6, <2>1
  <2>3. Len(s) = Len(Append(b, s[Len(s)]))
    BY <1>1, <1>5, <2>1
  <2> QED
    BY <2>1, <2>2, <2>3, SeqEqual
<1> QED
  BY <1>1, <1>3, <1>4, <1>5, <1>6, <1>7 DEF b

\* simulator_pop keeps working_nodes right.
LEMMA TrackedAfterPop ==
    ASSUME NEW track \in [Nodes -> Int], NEW nodes \in Seq(Nodes), nodes # <<>>,
           Tracked(track, nodes)
    PROVE  /\ Untrack(track, nodes[Len(nodes)], Len(nodes) - 1) \in [Nodes -> Int]
           /\ Tracked(Untrack(track, nodes[Len(nodes)], Len(nodes) - 1),
                      SubSeq(nodes, 1, Len(nodes) - 1))
<1> DEFINE top   == nodes[Len(nodes)]
           below == SubSeq(nodes, 1, Len(nodes) - 1)
           after == Untrack(track, top, Len(nodes) - 1)
<1>1. /\ Len(nodes) \in Nat /\ Len(nodes) > 0 /\ top \in Nodes
      /\ below \in Seq(Nodes) /\ Len(below) = Len(nodes) - 1
      /\ \A p \in 1 .. Len(nodes) - 1 : below[p] = nodes[p]
  BY BelowCells
<1>2. after \in [Nodes -> Int]
  BY <1>1 DEF Untrack, Untracked
<1>3. \A n \in Nodes : TrackedAt(track, nodes, n)
  BY TrackedPointwise
<1> HIDE DEF below
<1>4. ASSUME NEW n \in Nodes  PROVE TrackedAt(after, below, n)
  <2>1. TrackedAt(track, nodes, n)
    BY <1>3
  <2>2. CASE n = top /\ track[n] = Len(nodes) - 1
    <3>1. after[n] = Untracked
      BY <1>1, <2>2 DEF Untrack
    <3>2. \A p \in 1 .. Len(below) : below[p] # n
      BY <1>1, <2>1, <2>2, SMTT(30) DEF TrackedAt, Untracked
    <3> QED
      BY <3>1, <3>2 DEF TrackedAt
  <2>3. CASE ~(n = top /\ track[n] = Len(nodes) - 1)
    <3>1. after[n] = track[n]
      BY <1>1, <2>3 DEF Untrack
    <3> HIDE DEF after
    <3>2. CASE track[n] = Untracked
      BY <1>1, <2>1, <3>1, <3>2 DEF TrackedAt, Untracked
    <3>3. CASE track[n] # Untracked
      <4>1. /\ track[n] \in 0 .. Len(nodes) - 1
            /\ nodes[track[n] + 1] = n
            /\ \A p \in 1 .. Len(nodes) : nodes[p] = n => track[n] + 1 <= p
        BY <2>1, <3>3 DEF TrackedAt
      <4>2. track[n] # Len(nodes) - 1
        BY <1>1, <2>3, <4>1
      <4>3. track[n] \in 0 .. Len(below) - 1 /\ track[n] + 1 \in 1 .. Len(nodes) - 1
        BY <1>1, <4>1, <4>2
      <4>4. below[track[n] + 1] = n
        BY <1>1, <4>1, <4>3
      <4>5. ASSUME NEW p \in 1 .. Len(below), below[p] = n  PROVE track[n] + 1 <= p
        <5>1. p \in 1 .. Len(nodes) - 1
          BY <1>1
        <5>2. p \in 1 .. Len(nodes) /\ nodes[p] = n
          BY <1>1, <4>5, <5>1
        <5> QED
          BY <4>1, <5>2
      <4> QED
        BY <3>1, <4>3, <4>4, <4>5 DEF TrackedAt
    <3> QED
      BY <3>2, <3>3
  <2> QED
    BY <2>2, <2>3
<1> HIDE DEF after
<1>5. Tracked(after, below)
  BY <1>1, <1>4, TrackedPointwise
<1> QED
  BY <1>2, <1>5 DEF after, below

\* simulator_push of a sequence of nodes keeps working_nodes right.
LEMMA TrackedAfterPush ==
    ASSUME NEW track \in [Nodes -> Int], NEW nodes \in Seq(Nodes), NEW pushed \in Seq(Nodes),
           Tracked(track, nodes)
    PROVE  /\ Track(track, Len(nodes), pushed) \in [Nodes -> Int]
           /\ Tracked(Track(track, Len(nodes), pushed), nodes \o pushed)
<1> DEFINE after == Track(track, Len(nodes), pushed)
           whole == nodes \o pushed
           indices(n) == NewIndices(Len(nodes), pushed, n) \union ({track[n]} \ {Untracked})
<1>1. /\ Len(nodes) \in Nat /\ Len(pushed) \in Nat
      /\ DOMAIN pushed = 1 .. Len(pushed)
  BY LenProperties
<1>2. /\ whole \in Seq(Nodes)
      /\ Len(whole) = Len(nodes) + Len(pushed)
      /\ \A p \in 1 .. Len(nodes) + Len(pushed) :
            whole[p] = IF p <= Len(nodes) THEN nodes[p] ELSE pushed[p - Len(nodes)]
  BY ConcatProperties
<1> HIDE DEF whole
<1>a. Len(whole) \in Nat /\ \A p \in 1 .. Len(whole) : p \in Nat /\ p > 0
  BY <1>1, <1>2
<1>3. \A n \in Nodes : TrackedAt(track, nodes, n)
  BY TrackedPointwise
<1>4. \A n \in Nodes : after[n] = IF indices(n) = {} THEN Untracked ELSE Min(indices(n))
  BY DEF Track
<1>5. after = [n \in Nodes |-> after[n]]
  BY DEF Track
<1> HIDE DEF after
<1>6. ASSUME NEW n \in Nodes  PROVE TrackedAt(after, whole, n) /\ after[n] \in Int
  <2> DEFINE at == indices(n)
  <2>1. TrackedAt(track, nodes, n)
    BY <1>3
  <2>2. at \subseteq Nat
    BY <1>1, <2>1 DEF NewIndices, TrackedAt, Untracked
  <2>3. \A i \in at : \/ i = track[n] /\ i # Untracked
                      \/ \E k \in 1 .. Len(pushed) : pushed[k] = n /\ i = Len(nodes) + k - 1
    BY <1>1 DEF NewIndices
  <2>4. \A k \in 1 .. Len(pushed) : pushed[k] = n => Len(nodes) + k - 1 \in at
    BY <1>1 DEF NewIndices
  <2>5. track[n] # Untracked => track[n] \in at
    OBVIOUS
  <2>6. after[n] = IF at = {} THEN Untracked ELSE Min(at)
    BY <1>4
  <2> HIDE DEF at
  <2>7. CASE at = {}
    <3>1. after[n] = Untracked /\ track[n] = Untracked
      BY <2>5, <2>6, <2>7
    <3>2. \A p \in 1 .. Len(nodes) : nodes[p] # n
      BY <2>1, <3>1 DEF TrackedAt, Untracked
    <3>3. \A k \in 1 .. Len(pushed) : pushed[k] # n
      BY <2>4, <2>7
    <3>4. ASSUME NEW p \in 1 .. Len(whole)  PROVE whole[p] # n
      <4>1. CASE p <= Len(nodes)
        <5>1. p \in 1 .. Len(nodes) /\ whole[p] = nodes[p]
          BY <1>1, <1>2, <1>a, <4>1
        <5> QED
          BY <3>2, <5>1
      <4>2. CASE p > Len(nodes)
        <5>1. p - Len(nodes) \in 1 .. Len(pushed) /\ whole[p] = pushed[p - Len(nodes)]
          BY <1>1, <1>2, <4>2
        <5> QED
          BY <3>3, <5>1
      <4> QED
        BY <1>1, <1>2, <4>1, <4>2
    <3> QED
      BY <3>1, <3>4 DEF TrackedAt, Untracked
  <2>8. CASE at # {}
    <3>1. after[n] \in at /\ \A i \in at : after[n] <= i
      BY <2>2, <2>6, <2>8, LeastIndex
    <3>2. /\ after[n] \in 0 .. Len(whole) - 1
          /\ whole[after[n] + 1] = n
      <4>1. CASE after[n] = track[n] /\ after[n] # Untracked
        <5> DEFINE q == track[n] + 1
        <5>1. track[n] \in 0 .. Len(nodes) - 1 /\ nodes[q] = n
          BY <2>1, <4>1 DEF TrackedAt
        <5>2. after[n] \in 0 .. Len(whole) - 1 /\ after[n] + 1 = q
          BY <1>1, <1>2, <4>1, <5>1
        <5>3. q \in 1 .. Len(nodes) + Len(pushed) /\ q <= Len(nodes)
          BY <1>1, <5>1
        <5> HIDE DEF q
        <5>4. whole[q] = n
          BY <1>2, <5>1, <5>3
        <5> QED
          BY <5>2, <5>4
      <4>2. CASE \E k \in 1 .. Len(pushed) : pushed[k] = n /\ after[n] = Len(nodes) + k - 1
        <5>1. PICK k \in 1 .. Len(pushed) : pushed[k] = n /\ after[n] = Len(nodes) + k - 1
          BY <4>2
        <5>2. after[n] + 1 = Len(nodes) + k /\ Len(nodes) + k \in 1 .. Len(nodes) + Len(pushed)
          BY <1>1, <5>1
        <5>3. whole[Len(nodes) + k] = pushed[k]
          <6> DEFINE q == Len(nodes) + k
          <6>1. /\ q \in 1 .. Len(nodes) + Len(pushed)
                /\ ~(q <= Len(nodes)) /\ q - Len(nodes) = k
            BY <1>1, <5>2
          <6> HIDE DEF q
          <6>2. whole[q] = pushed[k]
            BY <1>2, <6>1
          <6> QED
            BY <6>2 DEF q
        <5> QED
          BY <1>1, <1>2, <5>1, <5>2, <5>3
      <4> QED
        BY <2>3, <3>1, <4>1, <4>2
    <3>p. after[n] \in Nat /\ \A p \in 1 .. Len(whole) : p \in Nat
      BY <1>a, <2>2, <3>1
    <3>3. ASSUME NEW p \in 1 .. Len(whole), whole[p] = n  PROVE after[n] + 1 <= p
      <4>1. CASE p <= Len(nodes)
        <5>1. nodes[p] = n
          BY <1>1, <1>2, <3>3, <4>1
        <5>2. track[n] # Untracked /\ track[n] \in Nat /\ track[n] + 1 <= p
          BY <1>1, <2>1, <4>1, <5>1 DEF TrackedAt, Untracked
        <5>3. after[n] <= track[n]
          BY <2>5, <3>1, <5>2
        <5> QED
          BY <2>2, <3>1, <3>p, <5>2, <5>3, LeastBound
      <4>2. CASE p > Len(nodes)
        <5>1. p - Len(nodes) \in 1 .. Len(pushed) /\ pushed[p - Len(nodes)] = n
          BY <1>1, <1>2, <3>3, <4>2
        <5>2. Len(nodes) + (p - Len(nodes)) - 1 \in at
          BY <2>4, <5>1
        <5>3. p - 1 \in at
          BY <1>1, <5>1, <5>2
        <5>4. after[n] <= p - 1 /\ p - 1 + 1 <= p /\ p - 1 \in Nat
          BY <1>a, <3>1, <5>3
        <5> QED
          BY <2>2, <3>1, <3>p, <5>4, LeastBound
      <4> QED
        BY <1>1, <4>1, <4>2
    <3> QED
      BY <1>1, <1>2, <3>2, <3>3 DEF TrackedAt
  <2> QED
    BY <2>7, <2>8
<1>7. after \in [Nodes -> Int]
  BY <1>5, <1>6
<1>8. Tracked(after, whole)
  BY <1>2, <1>6, TrackedPointwise
<1> QED
  BY <1>7, <1>8 DEF after, whole

\* simulator_swap of the top, tracked there, with the last node that is equal
\* to the one at position p keeps working_nodes right.
LEMMA TrackedAfterSwap ==
    ASSUME NEW track \in [Nodes -> Int], NEW nodes \in Seq(Nodes), nodes # <<>>,
           Tracked(track, nodes),
           track[nodes[Len(nodes)]] = Len(nodes) - 1,
           NEW p \in 1 .. Len(nodes), nodes[p] # nodes[Len(nodes)],
           \A q \in 1 .. Len(nodes) : nodes[q] = nodes[p] => q <= p
    PROVE  /\ Retrack(track, nodes[Len(nodes)], Len(nodes) - 1, nodes[p], p - 1)
                    \in [Nodes -> Int]
           /\ Tracked(Retrack(track, nodes[Len(nodes)], Len(nodes) - 1, nodes[p], p - 1),
                      Swap(nodes, 0, Len(nodes) - 1, p - 1))
<1> DEFINE size  == Len(nodes)
           top   == nodes[size]
           other == nodes[p]
           after == Retrack(track, top, size - 1, other, p - 1)
           cells == Swap(nodes, 0, size - 1, p - 1)
<1>1. size \in Nat /\ size > 0 /\ top \in Nodes /\ other \in Nodes
  BY BelowCells, ElementOfSeq
<1>2. p \in Nat /\ 1 <= p /\ p < size
  BY <1>1
<1>3. \A n \in Nodes : TrackedAt(track, nodes, n)
  BY TrackedPointwise
<1>4. /\ cells \in Seq(Nodes)
      /\ Len(cells) = size
      /\ \A q \in 1 .. size : cells[q] =
            IF q = p - 1 + 1 THEN nodes[size - 1 + 1]
            ELSE IF q = size - 1 + 1 THEN nodes[p - 1 + 1] ELSE nodes[q]
  <2>1. size - 1 \in 0 .. Len(nodes) - 1 /\ p - 1 \in 0 .. Len(nodes) - 1
    BY <1>1, <1>2
  <2> QED
    BY <2>1, SwapCells, SMTT(30)
<1>5. \A q \in 1 .. size : cells[q] = IF q = p THEN top ELSE IF q = size THEN other ELSE nodes[q]
  <2>1. p - 1 + 1 = p /\ size - 1 + 1 = size
    BY <1>1, <1>2
  <2> QED
    BY <1>4, <2>1
<1>6. /\ after \in [Nodes -> Int]
      /\ \A n \in Nodes : after[n] = IF n = top THEN p - 1
            ELSE IF n = other /\ track[other] = p - 1 THEN size - 1 ELSE track[n]
  BY <1>1, <1>2 DEF Retrack
<1>7. other # top /\ track[top] = size - 1 /\ \A q \in 1 .. size : nodes[q] = other => q <= p
  OBVIOUS
<1> HIDE DEF cells, after, top, other, size
<1>8. top = nodes[size] /\ other = nodes[p] /\ size = Len(nodes)
  BY DEF top, other, size
<1>9. ASSUME NEW n \in Nodes  PROVE TrackedAt(after, cells, n)
  <2>1. TrackedAt(track, nodes, n)
    BY <1>3
  <2>2. CASE n = top
    \* the top was tracked where it stood, so it occurs nowhere else
    <3>1. \A q \in 1 .. size : nodes[q] = top => size <= q
      <4>1. \A q \in 1 .. size : nodes[q] = top => track[top] + 1 <= q
        BY <1>1, <1>7, <1>8, <2>1, <2>2 DEF TrackedAt, Untracked
      <4> QED
        BY <1>1, <1>7, <4>1
    <3>2. \A q \in 1 .. size : cells[q] = top => p <= q
      <4> SUFFICES ASSUME NEW q \in 1 .. size, cells[q] = top  PROVE q = p
        BY <1>2
      <4>1. CASE q = size
        BY <1>5, <1>7, <4>1
      <4>2. CASE q # p /\ q # size
        <5>1. nodes[q] = top
          BY <1>5, <4>2
        <5> QED
          BY <1>1, <3>1, <4>2, <5>1
      <4> QED
        BY <4>1, <4>2
    <3>3. cells[p] = top /\ after[n] = p - 1
      BY <1>1, <1>2, <1>5, <1>6, <2>2
    <3> QED
      BY <1>1, <1>2, <1>4, <2>2, <3>2, <3>3 DEF TrackedAt
  <2>3. CASE n = other
    <3>1. /\ track[other] \in 0 .. p - 1
          /\ nodes[track[other] + 1] = other
          /\ \A q \in 1 .. size : nodes[q] = other => track[other] + 1 <= q
      BY <1>1, <1>2, <1>8, <2>1, <2>3 DEF TrackedAt
    <3>2. CASE track[other] = p - 1
      <4>1. \A q \in 1 .. size : cells[q] = other => size <= q
        <5> SUFFICES ASSUME NEW q \in 1 .. size, cells[q] = other  PROVE q = size
          BY <1>1
        <5>1. CASE q = p
          BY <1>5, <1>7, <5>1
        <5>2. CASE q # p /\ q # size
          <6>1. nodes[q] = other
            BY <1>5, <5>2
          <6>2. q <= p /\ p <= q
            BY <1>2, <1>7, <3>1, <3>2, <6>1
          <6> QED
            BY <1>2, <5>2, <6>2
        <5> QED
          BY <5>1, <5>2
      <4>2. after[n] = size - 1 /\ cells[size] = other
        BY <1>1, <1>2, <1>5, <1>6, <1>7, <2>3, <3>2
      <4> QED
        BY <1>1, <1>4, <2>3, <4>1, <4>2 DEF TrackedAt
    <3>3. CASE track[other] # p - 1
      <4>1. after[n] = track[other]
        BY <1>6, <1>7, <2>3, <3>3
      <4> DEFINE t == track[other]
      <4>2. /\ t \in Nat /\ t + 1 < p /\ nodes[t + 1] = other
            /\ \A q \in 1 .. size : nodes[q] = other => t + 1 <= q
        BY <1>2, <3>1, <3>3
      <4> HIDE DEF t
      <4>3. cells[t + 1] = other
        BY <1>1, <1>2, <1>5, <4>2
      <4>4. ASSUME NEW q \in 1 .. size, cells[q] = other  PROVE t + 1 <= q
        <5>1. q # p
          BY <1>5, <1>7, <4>4
        <5>2. CASE q = size
          BY <1>1, <1>2, <4>2, <5>2
        <5>3. CASE q # size
          <6>1. nodes[q] = other
            BY <1>5, <4>4, <5>1, <5>3
          <6> QED
            BY <4>2, <6>1
        <5> QED
          BY <5>2, <5>3
      <4>5. after[n] = t /\ t \in 0 .. Len(cells) - 1
        BY <1>1, <1>2, <1>4, <4>1, <4>2 DEF t
      <4> QED
        BY <1>4, <2>3, <4>3, <4>4, <4>5 DEF TrackedAt
    <3> QED
      BY <3>2, <3>3
  <2>4. CASE n # top /\ n # other
    <3>1. after[n] = track[n]
      BY <1>6, <2>4
    <3>2. \A q \in 1 .. size : cells[q] = n <=> nodes[q] = n
      BY <1>1, <1>2, <1>5, <1>8, <2>4
    <3>3. track[n] \in 0 .. size - 1 => track[n] + 1 \in 1 .. size
      BY <1>1
    <3> QED
      BY <1>4, <1>8, <2>1, <3>1, <3>2, <3>3 DEF TrackedAt
  <2> QED
    BY <2>2, <2>3, <2>4
<1>10. Tracked(after, cells)
  BY <1>4, <1>9, TrackedPointwise
<1> QED
  BY <1>6, <1>10 DEF after, cells, top, other, size

\* An empty simulator and an empty map
LEMMA TrackedEmpty ==
    /\ [n \in Nodes |-> Untracked] \in [Nodes -> Int]
    /\ Tracked([n \in Nodes |-> Untracked], <<>>)
<1> DEFINE none == [n \in Nodes |-> Untracked]
<1>1. <<>> \in Seq(Nodes) /\ Len(<<>>) = 0
  BY EmptySeq
<1>2. none \in [Nodes -> Int] /\ \A n \in Nodes : none[n] = Untracked
  BY DEF Untracked
<1> HIDE DEF none
<1>3. \A n \in Nodes : TrackedAt(none, <<>>, n)
  BY <1>1, <1>2 DEF TrackedAt
<1>4. Tracked(none, <<>>)
  BY <1>1, <1>3, TrackedPointwise
<1> QED
  BY <1>2, <1>4 DEF none

-----------------------------------------------------------------------------
(***************************************************************************)
(* unsolved_node_count                                                     *)
(***************************************************************************)
Unsolved(s) == {k \in DOMAIN s : s[k] \notin Parameters}

\* The positions that are counted are finitely many.
LEMMA UnsolvedFinite ==
    ASSUME NEW s \in Seq(Nodes)
    PROVE  /\ IsFiniteSet(Unsolved(s)) /\ UnsolvedIn(s) = Cardinality(Unsolved(s))
           /\ UnsolvedIn(s) \in Nat
           /\ UnsolvedIn(s) = 0 <=> \A p \in 1 .. Len(s) : s[p] \in Parameters
<1>1. Len(s) \in Nat /\ DOMAIN s = 1 .. Len(s)
  BY LenProperties
<1>2. IsFiniteSet(1 .. Len(s))
  BY <1>1, FS_Interval
<1>3. Unsolved(s) \in SUBSET (1 .. Len(s))
  BY <1>1 DEF Unsolved
<1>4. IsFiniteSet(Unsolved(s))
  BY <1>2, <1>3, FS_Subset
<1>5. UnsolvedIn(s) = Cardinality(Unsolved(s))
  BY DEF UnsolvedIn, Unsolved
<1>6. Cardinality(Unsolved(s)) \in Nat
  BY <1>4, FS_CardinalityType
<1>7. Cardinality(Unsolved(s)) = 0 <=> Unsolved(s) = {}
  BY <1>4, FS_EmptySet
<1>8. Unsolved(s) = {} <=> \A p \in 1 .. Len(s) : s[p] \in Parameters
  BY <1>1 DEF Unsolved
<1> QED
  BY <1>4, <1>5, <1>6, <1>7, <1>8

\* Pushing adds what is pushed.
LEMMA UnsolvedConcat ==
    ASSUME NEW s \in Seq(Nodes), NEW t \in Seq(Nodes)
    PROVE  UnsolvedIn(s \o t) = UnsolvedIn(s) + UnsolvedIn(t)
<1> DEFINE w == s \o t
           shift == [k \in Unsolved(t) |-> Len(s) + k]
           moved == {k \in 1 .. Len(w) : k > Len(s) /\ w[k] \notin Parameters}
<1>1. /\ Len(s) \in Nat /\ DOMAIN s = 1 .. Len(s)
      /\ Len(t) \in Nat /\ DOMAIN t = 1 .. Len(t)
  BY LenProperties
<1>2. /\ w \in Seq(Nodes) /\ Len(w) = Len(s) + Len(t) /\ DOMAIN w = 1 .. Len(w)
      /\ \A p \in 1 .. Len(s) + Len(t) : w[p] = IF p <= Len(s) THEN s[p] ELSE t[p - Len(s)]
  BY ConcatProperties, LenProperties
<1> HIDE DEF w
<1>3. \A k \in 1 .. Len(w) : k \in Int
  BY <1>1, <1>2
<1>4. \A k \in 1 .. Len(s) : k \in 1 .. Len(w) /\ w[k] = s[k]
  BY <1>1, <1>2
<1>5. ASSUME NEW k \in 1 .. Len(w), k > Len(s)
      PROVE  k - Len(s) \in 1 .. Len(t) /\ Len(s) + (k - Len(s)) = k /\ w[k] = t[k - Len(s)]
  BY <1>1, <1>2, <1>5
<1>6. ASSUME NEW k \in 1 .. Len(t)
      PROVE  Len(s) + k \in 1 .. Len(w) /\ Len(s) + k > Len(s) /\ w[Len(s) + k] = t[k]
  <2> DEFINE q == Len(s) + k
  <2>1. q \in 1 .. Len(w) /\ q > Len(s) /\ q - Len(s) = k
    BY <1>1, <1>2
  <2> HIDE DEF q
  <2>2. w[q] = t[k]
    BY <1>5, <2>1
  <2> QED
    BY <2>1, <2>2 DEF q
<1>7. Unsolved(w) = Unsolved(s) \union moved
  <2>1. ASSUME NEW k \in Unsolved(w)  PROVE k \in Unsolved(s) \union moved
    <3>1. k \in 1 .. Len(w) /\ w[k] \notin Parameters
      BY <1>2 DEF Unsolved
    <3>2. CASE k > Len(s)
      BY <3>1, <3>2
    <3>3. CASE k \in 1 .. Len(s)
      BY <1>1, <1>4, <3>1, <3>3 DEF Unsolved
    <3>4. k > Len(s) \/ k \in 1 .. Len(s)
      BY <1>1, <1>2, <3>1
    <3> QED
      BY <3>2, <3>3, <3>4
  <2>2. Unsolved(s) \subseteq Unsolved(w)
    BY <1>1, <1>2, <1>4 DEF Unsolved
  <2>3. moved \subseteq Unsolved(w)
    BY <1>2 DEF Unsolved
  <2> QED
    BY <2>1, <2>2, <2>3
<1>8. Unsolved(s) \intersect moved = {}
  <2>1. \A k \in Unsolved(s) : k \in Int /\ k <= Len(s)
    BY <1>1 DEF Unsolved
  <2>2. \A k \in moved : k > Len(s)
    OBVIOUS
  <2> QED
    BY <1>1, <2>1, <2>2
<1>9. shift \in Bijection(Unsolved(t), moved)
  <2>1. \A k \in Unsolved(t) : k \in 1 .. Len(t) /\ t[k] \notin Parameters /\ k \in Int
    BY <1>1 DEF Unsolved
  <2>2. shift \in [Unsolved(t) -> moved]
    BY <1>6, <2>1
  <2>3. \A a, b \in Unsolved(t) : shift[a] = shift[b] => a = b
    BY <1>1, <2>1
  <2>4. ASSUME NEW k \in moved  PROVE \E a \in Unsolved(t) : shift[a] = k
    <3>1. k - Len(s) \in 1 .. Len(t) /\ Len(s) + (k - Len(s)) = k /\ w[k] = t[k - Len(s)]
      BY <1>5
    <3>2. k - Len(s) \in Unsolved(t)
      BY <1>1, <3>1 DEF Unsolved
    <3>3. shift[k - Len(s)] = k
      BY <3>1, <3>2
    <3> QED
      BY <3>2, <3>3
  <2> QED
    BY <2>2, <2>3, <2>4, Fun_IsBij
<1>10. IsFiniteSet(moved) /\ Cardinality(moved) = Cardinality(Unsolved(t))
  BY <1>9, UnsolvedFinite, FS_Bijection, Fun_ExistsBij
<1> HIDE DEF moved
<1>11. Cardinality(Unsolved(s) \union moved)
          = Cardinality(Unsolved(s)) + Cardinality(moved) - Cardinality(Unsolved(s) \intersect moved)
  BY <1>10, UnsolvedFinite, FS_Union
<1>12. Cardinality(Unsolved(s) \intersect moved) = 0
  BY <1>8, FS_EmptySet
<1>13. /\ UnsolvedIn(w) = Cardinality(Unsolved(w))
       /\ UnsolvedIn(s) = Cardinality(Unsolved(s)) /\ UnsolvedIn(s) \in Nat
       /\ UnsolvedIn(t) = Cardinality(Unsolved(t)) /\ UnsolvedIn(t) \in Nat
  BY <1>2, UnsolvedFinite
<1>14. UnsolvedIn(w) = UnsolvedIn(s) + UnsolvedIn(t) - 0
  BY <1>7, <1>10, <1>11, <1>12, <1>13
<1> QED
  BY <1>13, <1>14 DEF w

\* Swapping keeps the number.
LEMMA UnsolvedSwap ==
    ASSUME NEW s \in Seq(Nodes), NEW i \in 0 .. Len(s) - 1, NEW j \in 0 .. Len(s) - 1
    PROVE  UnsolvedIn(Swap(s, 0, i, j)) = UnsolvedIn(s)
<1> DEFINE t == Swap(s, 0, i, j)
           other(k) == IF k = j + 1 THEN i + 1 ELSE IF k = i + 1 THEN j + 1 ELSE k
           move == [k \in Unsolved(s) |-> other(k)]
<1>1. Len(s) \in Nat /\ DOMAIN s = 1 .. Len(s) /\ i + 1 \in 1 .. Len(s) /\ j + 1 \in 1 .. Len(s)
  BY LenProperties
<1>2. /\ t \in Seq(Nodes) /\ Len(t) = Len(s) /\ DOMAIN t = 1 .. Len(s)
      /\ \A p \in 1 .. Len(s) : t[p] =
            IF p = j + 1 THEN s[i + 1] ELSE IF p = i + 1 THEN s[j + 1] ELSE s[p]
  BY SwapCells, LenProperties
<1> HIDE DEF t
<1>3. \A p \in 1 .. Len(s) : other(p) \in 1 .. Len(s) /\ other(other(p)) = p
  BY <1>1
<1>4. \A p \in 1 .. Len(s) : t[p] = s[other(p)]
  BY <1>2
<1>5. \A p \in 1 .. Len(s) : t[other(p)] = s[p]
  BY <1>1, <1>2
<1>6. \A k \in Unsolved(s) : k \in 1 .. Len(s) /\ other(k) \in Unsolved(t)
  BY <1>1, <1>2, <1>3, <1>5, Zenon DEF Unsolved
<1>7. \A k \in Unsolved(t) : k \in 1 .. Len(s) /\ other(k) \in Unsolved(s)
  BY <1>1, <1>2, <1>3, <1>4, Zenon DEF Unsolved
<1>8. move \in Bijection(Unsolved(s), Unsolved(t))
  <2>1. move \in [Unsolved(s) -> Unsolved(t)]
    BY <1>6, Zenon
  <2>2. \A a, b \in Unsolved(s) : move[a] = move[b] => a = b
    BY <1>3, <1>6, Zenon
  <2>3. \A b \in Unsolved(t) : \E a \in Unsolved(s) : move[a] = b
    BY <1>3, <1>7, Zenon
  <2> QED
    BY <2>1, <2>2, <2>3, Fun_IsBij
<1>9. Cardinality(Unsolved(t)) = Cardinality(Unsolved(s))
  BY <1>8, UnsolvedFinite, FS_Bijection, Fun_ExistsBij
<1> QED
  BY <1>2, <1>9, UnsolvedFinite DEF t

-----------------------------------------------------------------------------
(***************************************************************************)
(* The nodes in a sequence                                                 *)
(***************************************************************************)
\* What Range holds, element by element
LEMMA RangeElements ==
    ASSUME NEW S, NEW s \in Seq(S)
    PROVE  /\ \A x \in Range(s) : x \in S /\ \E p \in 1 .. Len(s) : x = s[p]
           /\ \A p \in 1 .. Len(s) : s[p] \in Range(s)
<1>1. DOMAIN s = 1 .. Len(s) /\ \A p \in 1 .. Len(s) : s[p] \in S
  BY LenProperties, ElementOfSeq
<1> QED
  BY <1>1 DEF Range

\* No elements
LEMMA RangeOfEmpty == Range(<<>>) = {}
BY DEF Range

\* One more element
LEMMA RangeOfAppend ==
    ASSUME NEW S, NEW s \in Seq(S), NEW e \in S
    PROVE  Range(Append(s, e)) = Range(s) \union {e}
<1>1. Append(s, e) = s \o <<e>> /\ <<e>> \in Seq(S)
  BY AppendIsConcat
<1>2. Range(<<e>>) = {e}
  BY DEF Range
<1>3. Range(s \o <<e>>) = Range(s) \union Range(<<e>>)
  BY <1>1, RangeConcatenation, Zenon
<1> QED
  BY <1>1, <1>2, <1>3

\* A swap keeps the elements.
LEMMA RangeOfSwap ==
    ASSUME NEW S, NEW s \in Seq(S), NEW i \in 0 .. Len(s) - 1, NEW j \in 0 .. Len(s) - 1
    PROVE  Range(Swap(s, 0, i, j)) = Range(s)
<1> DEFINE t == Swap(s, 0, i, j)
<1>1. Len(s) \in Nat /\ i + 1 \in 1 .. Len(s) /\ j + 1 \in 1 .. Len(s)
  BY LenProperties
<1>2. /\ t \in Seq(S) /\ Len(t) = Len(s)
      /\ \A p \in 1 .. Len(s) : t[p] =
            IF p = j + 1 THEN s[i + 1] ELSE IF p = i + 1 THEN s[j + 1] ELSE s[p]
  BY SwapCells
<1> HIDE DEF t
<1>3. /\ \A x \in Range(t) : \E p \in 1 .. Len(s) : x = t[p]
      /\ \A p \in 1 .. Len(s) : t[p] \in Range(t)
      /\ \A x \in Range(s) : \E p \in 1 .. Len(s) : x = s[p]
      /\ \A p \in 1 .. Len(s) : s[p] \in Range(s)
  <2>5. t \in Seq(S) /\ Len(t) = Len(s)
    BY <1>2
  <2>1. \A x \in Range(t) : \E p \in 1 .. Len(s) : x = t[p]
    BY <2>5, RangeElements
  <2>2. \A p \in 1 .. Len(s) : t[p] \in Range(t)
    BY <2>5, RangeElements
  <2>3. \A x \in Range(s) : \E p \in 1 .. Len(s) : x = s[p]
    BY RangeElements
  <2>4. \A p \in 1 .. Len(s) : s[p] \in Range(s)
    BY RangeElements
  <2> QED
    BY <2>1, <2>2, <2>3, <2>4
<1>4. \A p \in 1 .. Len(s) : t[p] \in Range(s)
  BY <1>1, <1>2, <1>3
<1>5. ASSUME NEW p \in 1 .. Len(s)  PROVE s[p] \in Range(t)
  BY <1>1, <1>2, <1>3
<1>6. Range(t) = Range(s)
  <2>1. \A x \in Range(t) : x \in Range(s)
    BY <1>3, <1>4, Zenon
  <2>2. \A x \in Range(s) : x \in Range(t)
    BY <1>3, <1>5, Zenon
  <2> QED
    BY <2>1, <2>2
<1> QED
  BY <1>6 DEF t

-----------------------------------------------------------------------------
(***************************************************************************)
(* What the nodes on the simulator want                                    *)
(***************************************************************************)
LEMMA WantedOfConcat ==
    ASSUME NEW g, NEW s \in Seq(Nodes), NEW t \in Seq(Nodes)
    PROVE  WantedIn(g, s \o t) = WantedIn(g, s) \union WantedIn(g, t)
<1>1. Range(s \o t) = Range(s) \union Range(t)
  BY RangeConcatenation
<1> QED
  BY <1>1 DEF WantedIn

\* The top is wanted, and so is what it is made of.
LEMMA WantedOfTop ==
    ASSUME NEW g, NEW s \in Seq(Nodes), s # <<>>
    PROVE  WantedIn(g, s) = WantedIn(g, SubSeq(s, 1, Len(s) - 1))
                                \union {s[Len(s)]} \union g.refs[s[Len(s)]]
<1> DEFINE b == SubSeq(s, 1, Len(s) - 1)
           top == s[Len(s)]
<1>1. b \in Seq(Nodes) /\ top \in Nodes /\ s = Append(b, top)
  BY BelowCells
<1> HIDE DEF b, top
<1>2. Range(s) = Range(b) \union {top}
  BY <1>1, RangeOfAppend
<1>3. WantedIn(g, s) = WantedIn(g, b) \union {top} \union g.refs[top]
  BY <1>2 DEF WantedIn
<1> QED
  BY <1>3 DEF b, top

\* A swap wants the same nodes.
LEMMA WantedOfSwap ==
    ASSUME NEW g, NEW s \in Seq(Nodes), NEW i \in 0 .. Len(s) - 1, NEW j \in 0 .. Len(s) - 1
    PROVE  WantedIn(g, Swap(s, 0, i, j)) = WantedIn(g, s)
BY RangeOfSwap, Zenon DEF WantedIn

\* The inputs of a node want what build_node_refs lists for it.
LEMMA WantedOfArguments ==
    ASSUME NEW g, IsGraph(g), NEW n \in Nodes
    PROVE  /\ g.args[n] \in Seq(Nodes)
           /\ WantedIn(g, g.args[n]) = g.refs[n]
           /\ g.refs[n] \subseteq Nodes
           /\ n \notin g.refs[n]
           /\ n \notin Operators => g.refs[n] = {}
           /\ n \in Operators => g.args[n] # <<>>
<1>1. g.args[n] \in Seq(Nodes) /\ g.refs[n] \in SUBSET Nodes
  BY DEF IsGraph
<1>2. g.refs[n] = UNION {{m} \union g.refs[m] : m \in Range(g.args[n])} /\ n \notin g.refs[n]
  BY DEF IsGraph
<1>3. WantedIn(g, g.args[n]) = g.refs[n]
  BY <1>2, Zenon DEF WantedIn
<1>4. n \notin Operators => g.refs[n] = {}
  <2>1. n \notin Operators => g.args[n] = <<>>
    BY DEF IsGraph
  <2> QED
    BY <1>2, <2>1, RangeOfEmpty
<1>5. n \in Operators => g.args[n] # <<>>
  <2>1. n \in Operators => ~(Range(g.args[n]) \subseteq Consts)
    BY DEF IsGraph
  <2> QED
    BY <2>1, RangeOfEmpty
<1> QED
  BY <1>1, <1>2, <1>3, <1>4, <1>5

\* Parameters and Consts want nothing but themselves.
LEMMA WantedOfLeaves ==
    ASSUME NEW g, IsGraph(g), NEW s \in Seq(Nodes), Range(s) \intersect Operators = {}
    PROVE  WantedIn(g, s) = Range(s)
<1>1. \A n \in Range(s) : n \in Nodes /\ g.refs[n] = {}
  BY RangeElements, WantedOfArguments
<1> QED
  BY <1>1 DEF WantedIn

\* Only nodes are wanted.
LEMMA WantedAreNodes ==
    ASSUME NEW g, IsGraph(g), NEW s \in Seq(Nodes)
    PROVE  WantedIn(g, s) \subseteq Nodes /\ Range(s) \subseteq WantedIn(g, s)
<1>1. \A n \in Range(s) : n \in Nodes /\ g.refs[n] \subseteq Nodes
  BY RangeElements, WantedOfArguments
<1> QED
  BY <1>1 DEF WantedIn

-----------------------------------------------------------------------------
(***************************************************************************)
(* The instructions.  ins.op picks one case of Execute and CanExecute.     *)
(***************************************************************************)
LEMMA ExecutePush ==
    ASSUME NEW cells, NEW args, NEW d, NEW i
    PROVE  /\ CanExecute(PushOf(i), cells, args, d) <=> Valid(cells, 0, i)
           /\ Execute(PushOf(i), cells, args, d) = PushIndex(cells, 0, i)
BY DEF CanExecute, Execute, PushOf

\* swap, in the same way
LEMMA ExecuteSwap ==
    ASSUME NEW cells, NEW args, NEW d, NEW i, NEW j
    PROVE  /\ CanExecute(SwapOf(i, j), cells, args, d) <=> Valid(cells, 0, i) /\ Valid(cells, 0, j)
           /\ Execute(SwapOf(i, j), cells, args, d) = Swap(cells, 0, i, j)
BY DEF CanExecute, Execute, SwapOf

\* DataSegmentInstruction
LEMMA ExecuteData ==
    ASSUME NEW cells, NEW args, NEW d, NEW i
    PROVE  /\ CanExecute(DataOf(i), cells, args, d) <=> i < Len(d)
           /\ Execute(DataOf(i), cells, args, d) = Append(cells, d[i + 1])
BY DEF CanExecute, Execute, DataOf

\* OperatorInstruction
LEMMA ExecuteCall ==
    ASSUME NEW cells, NEW args, NEW d, NEW n
    PROVE  /\ CanExecute(CallOf(n), cells, args, d) <=> Len(args[n]) <= Len(cells)
           /\ Execute(CallOf(n), cells, args, d) =
                ReplaceArguments(cells, 0, Len(args[n]), ResultOf(n, args[n], cells))
BY DEF CanExecute, Execute, CallOf

\* erase
LEMMA ExecuteErase ==
    ASSUME NEW cells, NEW args, NEW d, NEW i, NEW j
    PROVE  /\ CanExecute(EraseOf(i, j), cells, args, d)
                <=> Absolute(cells, 0, j) \in 0 .. Len(cells)
           /\ Execute(EraseOf(i, j), cells, args, d) = EraseRange(cells, 0, i, j)
BY DEF CanExecute, Execute, EraseOf

\* push(i) copies cell i.
LEMMA PushMeaning ==
    ASSUME NEW S, NEW s \in Seq(S), NEW i \in 0 .. Len(s) - 1, NEW args, NEW d
    PROVE  /\ CanExecute(PushOf(i), s, args, d)
           /\ Execute(PushOf(i), s, args, d) = Append(s, s[i + 1])
<1>1. Len(s) \in Nat
  BY LenProperties
<1>2. Valid(s, 0, i)
  BY <1>1 DEF Valid, Absolute
<1>3. PushIndex(s, 0, i) = Append(s, s[i + 1])
  BY PushIndexCells
<1> QED
  BY <1>2, <1>3, ExecutePush

\* The swap the compiler emits undoes the swap of its simulator.
LEMMA SwapMeaning ==
    ASSUME NEW S, NEW s \in Seq(S), NEW i \in 0 .. Len(s) - 1, NEW j \in 0 .. Len(s) - 1,
           NEW args, NEW d
    PROVE  /\ CanExecute(SwapOf(i, j), Swap(s, 0, i, j), args, d)
           /\ Execute(SwapOf(i, j), Swap(s, 0, i, j), args, d) = s
<1>1. Len(s) \in Nat /\ Len(Swap(s, 0, i, j)) = Len(s)
  BY LenProperties, SwapCells
<1>2. Valid(Swap(s, 0, i, j), 0, i) /\ Valid(Swap(s, 0, i, j), 0, j)
  BY <1>1 DEF Valid, Absolute
<1>3. Swap(Swap(s, 0, i, j), 0, i, j) = s
  BY SwapTwice
<1> QED
  BY <1>2, <1>3, ExecuteSwap

\* An operator that finds its inputs on top replaces them by its value.
LEMMA CallMeaning ==
    ASSUME NEW s \in Seq(Nodes), NEW n \in Nodes, NEW args, args[n] \in Seq(Nodes),
           args[n] # <<>>, NEW d
    PROVE  /\ CanExecute(CallOf(n), s \o args[n], args, d)
           /\ Execute(CallOf(n), s \o args[n], args, d) = Append(s, n)
<1> DEFINE t == args[n]
<1>1. /\ t \in Seq(Nodes) /\ t # <<>>
      /\ Len(s) \in Nat /\ Len(t) \in Nat /\ Len(s \o t) = Len(s) + Len(t)
  BY LenProperties, ConcatProperties
<1>2. CanExecute(CallOf(n), s \o t, args, d)
  <2>1. Len(t) <= Len(s \o t)
    BY <1>1
  <2> QED
    BY <2>1, ExecuteCall, Zenon
<1>3. TopCells(s \o t, Len(t)) = t
  <2>1. Len(s \o t) - Len(t) + 1 = Len(s) + 1
    BY <1>1
  <2>2. TopCells(s \o t, Len(t)) = SubSeq(s \o t, Len(s) + 1, Len(s) + Len(t))
    BY <1>1, <2>1, Zenon DEF TopCells
  <2>3. SubSeq(s \o t, Len(s) + 1, Len(s) + Len(t)) = SubSeq(t, 1, Len(t))
    BY <1>1, SubSeqOfConcat2
  <2>4. SubSeq(t, 1, Len(t)) = t
    BY <1>1, SubSeqFull
  <2> QED
    BY <2>2, <2>3, <2>4
<1>4. ResultOf(n, t, s \o t) = n
  BY <1>3 DEF ResultOf
<1>5. ReplaceArguments(s \o t, 0, Len(t), n) = Append(s, n)
  BY <1>1, ReplaceArgumentsCells
<1> QED
  BY <1>2, <1>4, <1>5, ExecuteCall

\* erase(0, -n) leaves the n cells on top, if n is not 0.
LEMMA EraseMeaning ==
    ASSUME NEW S, NEW s \in Seq(S), NEW t \in Seq(S), t # <<>>, NEW args, NEW d
    PROVE  /\ CanExecute(EraseOf(0, -Len(t)), s \o t, args, d)
           /\ Execute(EraseOf(0, -Len(t)), s \o t, args, d) = t
<1>1. Len(s) \in Nat /\ Len(t) \in Nat /\ Len(t) > 0 /\ Len(s \o t) = Len(s) + Len(t)
  BY LenProperties, ConcatProperties, EmptySeq
<1>2. Absolute(s \o t, 0, -Len(t)) \in 0 .. Len(s \o t)
  BY <1>1 DEF Absolute
<1>3. EraseRange(s \o t, 0, 0, -Len(t)) = t
  BY EraseAllBut
<1>4. CanExecute(EraseOf(0, -Len(t)), s \o t, args, d)
  BY <1>2, ExecuteErase, Zenon
<1>5. Execute(EraseOf(0, -Len(t)), s \o t, args, d) = EraseRange(s \o t, 0, 0, -Len(t))
  BY ExecuteErase
<1> QED
  BY <1>3, <1>4, <1>5

\* The kinds of instructions
LEMMA InstructionKinds ==
    ASSUME NEW ins \in Instructions
    PROVE  \/ \E i \in Nat : ins = PushOf(i) /\ ins.op = "push"
           \/ \E i, j \in Nat : ins = SwapOf(i, j) /\ ins.op = "swap"
           \/ \E i \in Nat : ins = DataOf(i) /\ ins.op = "data"
           \/ \E n \in Operators : ins = CallOf(n) /\ ins.op = "call"
           \/ \E j \in Int : ins = EraseOf(0, j) /\ ins.op = "erase"
BY DEF Instructions, PushOf, SwapOf, DataOf, CallOf, EraseOf

\* An instruction does the same when the data segment has grown.
LEMMA SegmentGrows ==
    ASSUME NEW ins \in Instructions, NEW cells, NEW args,
           NEW S, NEW d \in Seq(S), NEW x \in S, CanExecute(ins, cells, args, d)
    PROVE  /\ CanExecute(ins, cells, args, Append(d, x))
           /\ Execute(ins, cells, args, Append(d, x)) = Execute(ins, cells, args, d)
<1> DEFINE e == Append(d, x)
<1>1. Len(d) \in Nat /\ Len(e) = Len(d) + 1 /\ \A i \in 1 .. Len(d) : e[i] = d[i]
  BY LenProperties, AppendProperties
<1> HIDE DEF e
<1>2. CASE \E i \in Nat : ins = DataOf(i)
  <2>1. PICK i \in Nat : ins = DataOf(i)
    BY <1>2
  <2>2. i < Len(d)
    BY <2>1, ExecuteData
  <2>3. i < Len(e) /\ i + 1 \in 1 .. Len(d)
    BY <1>1, <2>2
  <2>4. e[i + 1] = d[i + 1]
    BY <1>1, <2>3
  <2>5. /\ CanExecute(ins, cells, args, e)
        /\ Execute(ins, cells, args, e) = Append(cells, e[i + 1])
        /\ Execute(ins, cells, args, d) = Append(cells, d[i + 1])
    BY <2>1, <2>3, ExecuteData
  <2> QED
    BY <2>4, <2>5 DEF e
<1>3. CASE ins.op # "data"
  BY <1>3, InstructionKinds DEF CanExecute, Execute, e
<1> QED
  BY <1>2, <1>3, InstructionKinds

-----------------------------------------------------------------------------
(***************************************************************************)
(* Instructions keep the stack a stack of values.                          *)
(***************************************************************************)
LEMMA EraseType ==
    ASSUME NEW S, NEW s \in Seq(S), NEW base, NEW i, NEW j,
           Absolute(s, base, i) \in Int, Absolute(s, base, i) <= Len(s),
           Absolute(s, base, j) \in Nat
    PROVE  EraseRange(s, base, i, j) \in Seq(S)
<1> DEFINE x == Absolute(s, base, i)
           y == Absolute(s, base, j)
<1>1. /\ x \in Int /\ x <= Len(s) /\ y \in Nat /\ Len(s) \in Nat
      /\ \A p \in 1 .. Len(s) : s[p] \in S
  BY LenProperties, ElementOfSeq
<1> HIDE DEF x, y
<1>2. SubSeq(s, 1, x) \in Seq(S)
  <2>1. \A p \in 1 .. x : s[p] \in S
    BY <1>1
  <2> QED
    BY <1>1, <2>1, SubSeqProperties
<1>3. SubSeq(s, y + 1, Len(s)) \in Seq(S)
  <2>1. \A p \in y + 1 .. Len(s) : s[p] \in S
    BY <1>1
  <2> QED
    BY <1>1, <2>1, SubSeqProperties
<1>4. SubSeq(s, 1, x) \o SubSeq(s, y + 1, Len(s)) \in Seq(S)
  BY <1>2, <1>3, ConcatProperties
<1> QED
  BY <1>4 DEF EraseRange, x, y

\* The operator sees whatever lies on top of the stack.
LEMMA CallType ==
    ASSUME NEW S, NEW s \in Seq(S), NEW n \in Nat, n <= Len(s), NEW r \in S
    PROVE  ReplaceArguments(s, 0, n, r) \in Seq(S)
<1> DEFINE w == Append(s, r)
           base == Absolute(s, 0, -n)
<1>1. Len(s) \in Nat /\ w \in Seq(S) /\ Len(w) = Len(s) + 1
  BY LenProperties, AppendProperties
<1>2. base \in 0 .. Len(s)
  BY <1>1 DEF Absolute
<1> HIDE DEF w, base
<1>3. Absolute(w, base, 0) = base /\ Absolute(w, base, -1) = Len(s)
  BY <1>1, <1>2 DEF Absolute
<1>4. EraseRange(w, base, 0, -1) \in Seq(S)
  BY <1>1, <1>2, <1>3, EraseType
<1> QED
  BY <1>4 DEF ReplaceArguments, w, base

\* What an instruction that can run leaves on the stack was there before, is
\* loaded from the data segment, or is what an operator computed.
LEMMA ExecuteType ==
    ASSUME NEW S, NEW ins \in Instructions, NEW s \in Seq(S),
           NEW args \in [Nodes -> Seq(Nodes)], NEW d \in Seq(Consts),
           CanExecute(ins, s, args, d),
           Consts \subseteq S, Garbage \in S, \A n \in Operators : ins = CallOf(n) => n \in S
    PROVE  Execute(ins, s, args, d) \in Seq(S)
<1>1. Len(s) \in Nat /\ Len(d) \in Nat
  BY LenProperties
<1>2. CASE \E i \in Nat : ins = PushOf(i)
  <2>1. PICK i \in Nat : ins = PushOf(i)
    BY <1>2
  <2>2. Valid(s, 0, i)
    BY <2>1, ExecutePush
  <2>3. i \in 0 .. Len(s) - 1
    BY <1>1, <2>2 DEF Valid, Absolute
  <2>4. Execute(ins, s, args, d) = Append(s, s[i + 1])
    BY <2>1, <2>3, PushMeaning
  <2>5. s[i + 1] \in S
    BY <1>1, <2>3, ElementOfSeq
  <2> QED
    BY <2>4, <2>5, AppendProperties
<1>3. CASE \E i, j \in Nat : ins = SwapOf(i, j)
  <2>1. PICK i \in Nat, j \in Nat : ins = SwapOf(i, j)
    BY <1>3
  <2>2. Valid(s, 0, i) /\ Valid(s, 0, j) /\ Execute(ins, s, args, d) = Swap(s, 0, i, j)
    BY <2>1, ExecuteSwap
  <2>3. i \in 0 .. Len(s) - 1 /\ j \in 0 .. Len(s) - 1
    BY <1>1, <2>2 DEF Valid, Absolute
  <2> QED
    BY <2>2, <2>3, SwapCells
<1>4. CASE \E i \in Nat : ins = DataOf(i)
  <2>1. PICK i \in Nat : ins = DataOf(i)
    BY <1>4
  <2>2. i < Len(d) /\ Execute(ins, s, args, d) = Append(s, d[i + 1])
    BY <2>1, ExecuteData
  <2>3. d[i + 1] \in Consts
    BY <1>1, <2>2, ElementOfSeq
  <2>4. d[i + 1] \in S
    BY <2>3
  <2> QED
    BY <2>2, <2>4, AppendProperties
<1>5. CASE \E n \in Operators : ins = CallOf(n)
  <2>1. PICK n \in Operators : ins = CallOf(n)
    BY <1>5
  <2>2. n \in Nodes /\ args[n] \in Seq(Nodes)
    BY <2>1 DEF Nodes
  <2>3. Len(args[n]) <= Len(s) /\ Len(args[n]) \in Nat
    BY <2>1, <2>2, ExecuteCall, LenProperties
  <2>4. Execute(ins, s, args, d) =
            ReplaceArguments(s, 0, Len(args[n]), ResultOf(n, args[n], s))
    BY <2>1, ExecuteCall
  <2>5. ResultOf(n, args[n], s) \in S
    BY <2>1, <2>2 DEF ResultOf
  <2> QED
    BY <2>3, <2>4, <2>5, CallType
<1>6. CASE \E j \in Int : ins = EraseOf(0, j)
  <2>1. PICK j \in Int : ins = EraseOf(0, j)
    BY <1>6
  <2>2. /\ Absolute(s, 0, j) \in 0 .. Len(s)
        /\ Execute(ins, s, args, d) = EraseRange(s, 0, 0, j)
    BY <2>1, ExecuteErase
  <2>3. Absolute(s, 0, 0) = 0
    BY DEF Absolute
  <2>4. EraseRange(s, 0, 0, j) \in Seq(S)
    BY <1>1, <2>2, <2>3, EraseType
  <2> QED
    BY <2>2, <2>4
<1> QED
  BY <1>2, <1>3, <1>4, <1>5, <1>6, InstructionKinds

-----------------------------------------------------------------------------
(***************************************************************************)
(* The code emitted by one turn of the loop                                *)
(***************************************************************************)
\* Appending an instruction adds the operator it calls, if it calls one.
LEMMA CalledAfter ==
    ASSUME NEW ins, code \in Seq(Instructions), ins \in Instructions, code' = Append(code, ins)
    PROVE  Called' = Called \union {n \in Operators : ins = CallOf(n)}
<1>1. /\ Len(code) \in Nat /\ DOMAIN code = 1 .. Len(code)
      /\ DOMAIN code' = 1 .. Len(code) + 1
      /\ \A k \in 1 .. Len(code) : code'[k] = code[k]
      /\ code'[Len(code) + 1] = ins
  BY LenProperties, AppendProperties
<1>2. \A n \in Operators : n \in Called <=> \E k \in 1 .. Len(code) : code[k] = CallOf(n)
  BY <1>1 DEF Called, CalledFrom
<1>3. \A n \in Operators : n \in Called' <=> \E k \in 1 .. Len(code) + 1 : code'[k] = CallOf(n)
  BY <1>1 DEF Called, CalledFrom
<1>4. \A n \in Operators : n \in Called' <=> n \in Called \/ ins = CallOf(n)
  <2> SUFFICES ASSUME NEW n \in Operators
               PROVE  n \in Called' <=> n \in Called \/ ins = CallOf(n)
    OBVIOUS
  <2>1. ASSUME n \in Called'  PROVE n \in Called \/ ins = CallOf(n)
    <3>1. PICK k \in 1 .. Len(code) + 1 : code'[k] = CallOf(n)
      BY <1>3, <2>1
    <3>2. k \in 1 .. Len(code) \/ k = Len(code) + 1
      BY <1>1
    <3> QED
      BY <1>1, <1>2, <3>1, <3>2
  <2>2. ASSUME n \in Called  PROVE n \in Called'
    <3>1. PICK k \in 1 .. Len(code) : code[k] = CallOf(n)
      BY <1>2, <2>2
    <3>2. k \in 1 .. Len(code) + 1 /\ code'[k] = CallOf(n)
      BY <1>1, <3>1
    <3> QED
      BY <1>3, <3>2
  <2>3. ASSUME ins = CallOf(n)  PROVE n \in Called'
    <3>1. Len(code) + 1 \in 1 .. Len(code) + 1 /\ code'[Len(code) + 1] = CallOf(n)
      BY <1>1, <2>3
    <3> QED
      BY <1>3, <3>1
  <2> QED
    BY <2>1, <2>2, <2>3
<1>5. Called \subseteq Operators /\ Called' \subseteq Operators
  BY DEF Called, CalledFrom
<1> QED
  BY <1>4, <1>5

\* No operator is called twice if the one that is added was not called yet.
LEMMA ComputedOnceAfter ==
    ASSUME NEW ins, code \in Seq(Instructions), ins \in Instructions, code' = Append(code, ins),
           ComputedOnce, \A n \in Operators : ins = CallOf(n) => n \notin Called
    PROVE  ComputedOnce'
<1>1. /\ Len(code) \in Nat /\ DOMAIN code = 1 .. Len(code)
      /\ DOMAIN code' = 1 .. Len(code) + 1
      /\ \A k \in 1 .. Len(code) : code'[k] = code[k]
      /\ code'[Len(code) + 1] = ins
      /\ \A k \in 1 .. Len(code) : code[k] \in Instructions
  BY LenProperties, AppendProperties, ElementOfSeq
<1>2. ASSUME NEW k \in 1 .. Len(code), ins.op = "call"  PROVE code[k] # ins
  <2>1. PICK n \in Operators : ins = CallOf(n)
    BY <1>2, InstructionKinds
  <2>2. n \notin Called
    BY <2>1
  <2> QED
    BY <1>1, <2>1, <2>2 DEF Called, CalledFrom
<1>3. ASSUME NEW k \in 1 .. Len(code) + 1, NEW l \in 1 .. Len(code) + 1,
             code'[k].op = "call", code'[k] = code'[l]
      PROVE  k = l
  <2>1. CASE k = Len(code) + 1 \/ l = Len(code) + 1
    <3>1. code'[k] = ins \/ code'[l] = ins
      BY <1>1, <2>1
    <3>2. k \notin 1 .. Len(code) /\ l \notin 1 .. Len(code)
      <4>1. ins.op = "call" /\ code'[k] = ins /\ code'[l] = ins
        BY <1>3, <3>1
      <4> QED
        BY <1>1, <1>2, <4>1
    <3> QED
      BY <1>1, <3>2
  <2>2. CASE k # Len(code) + 1 /\ l # Len(code) + 1
    <3>1. k \in 1 .. Len(code) /\ l \in 1 .. Len(code)
      BY <1>1, <2>2
    <3>2. code[k].op = "call" /\ code[k] = code[l]
      BY <1>1, <1>3, <3>1
    <3> QED
      BY <1>1, <3>1, <3>2 DEF ComputedOnce
  <2> QED
    BY <2>1, <2>2
<1> QED
  BY <1>1, <1>3, Zenon DEF ComputedOnce

\* The new instruction means the step from the new simulator to the old one;
\* the others mean what they meant.
LEMMA MeantAfter ==
    ASSUME NEW ins \in Instructions, TypeOK, Meant,
           phase = "compiling", trail[Len(trail)] = simulator,
           phase' = phase, graph' = graph,
           code' = Append(code, ins), simulator' \in Seq(Nodes),
           trail' = Append(trail, simulator'),
           data' = data \/ \E n \in Consts : data' = Append(data, n),
           CanExecute(ins, simulator', graph.args, data'),
           Execute(ins, simulator', graph.args, data') = simulator
    PROVE  Meant' /\ trail' \in Seq(Seq(Nodes)) /\ trail'[Len(trail')] = simulator'
<1>1. code \in Seq(Instructions) /\ trail \in Seq(Seq(Nodes)) /\ data \in Seq(Consts)
  BY DEF TypeOK
<1>2. /\ Len(code) \in Nat /\ DOMAIN code = 1 .. Len(code)
      /\ DOMAIN code' = 1 .. Len(code) + 1 /\ Len(code') = Len(code) + 1
      /\ \A k \in 1 .. Len(code) : code'[k] = code[k] /\ code[k] \in Instructions
      /\ code'[Len(code) + 1] = ins
  BY <1>1, LenProperties, AppendProperties, ElementOfSeq
<1>3. /\ Len(trail) = Len(code) + 1 /\ trail[1] = graph.outputs
      /\ \A k \in 1 .. Len(code) :
            /\ CanExecute(code[k], trail[k + 1], graph.args, data)
            /\ Execute(code[k], trail[k + 1], graph.args, data) = trail[k]
  BY <1>2 DEF Meant
<1>4. /\ trail' \in Seq(Seq(Nodes)) /\ Len(trail') = Len(code) + 2
      /\ \A k \in 1 .. Len(code) + 1 : trail'[k] = trail[k]
      /\ trail'[Len(code) + 2] = simulator'
  BY <1>1, <1>2, <1>3, AppendProperties
<1>5. ASSUME NEW k \in 1 .. Len(code)
      PROVE  /\ CanExecute(code'[k], trail'[k + 1], graph.args, data')
             /\ Execute(code'[k], trail'[k + 1], graph.args, data') = trail'[k]
  <2>1. code'[k] = code[k] /\ trail'[k + 1] = trail[k + 1] /\ trail'[k] = trail[k]
    BY <1>2, <1>4
  <2>2. /\ CanExecute(code[k], trail[k + 1], graph.args, data)
        /\ Execute(code[k], trail[k + 1], graph.args, data) = trail[k]
        /\ code[k] \in Instructions
    BY <1>2, <1>3
  <2>3. CASE data' = data
    BY <2>1, <2>2, <2>3
  <2>4. CASE \E n \in Consts : data' = Append(data, n)
    <3>1. PICK n \in Consts : data' = Append(data, n)
      BY <2>4
    <3>2. /\ CanExecute(code[k], trail[k + 1], graph.args, data')
          /\ Execute(code[k], trail[k + 1], graph.args, data')
                = Execute(code[k], trail[k + 1], graph.args, data)
      BY <1>1, <2>2, <3>1, SegmentGrows
    <3> QED
      BY <2>1, <2>2, <3>2
  <2> QED
    BY <2>3, <2>4
<1>6. /\ CanExecute(code'[Len(code) + 1], trail'[Len(code) + 1 + 1], graph.args, data')
      /\ Execute(code'[Len(code) + 1], trail'[Len(code) + 1 + 1], graph.args, data')
            = trail'[Len(code) + 1]
  <2>1. Len(code) + 1 + 1 = Len(code) + 2 /\ trail'[Len(code) + 1] = simulator
    BY <1>2, <1>3, <1>4
  <2> QED
    BY <1>2, <1>4, <2>1
<1>7. \A k \in DOMAIN code' :
         /\ CanExecute(code'[k], trail'[k + 1], graph'.args, data')
         /\ Execute(code'[k], trail'[k + 1], graph'.args, data') = trail'[k]
  <2>1. \A k \in DOMAIN code' : k \in 1 .. Len(code) \/ k = Len(code) + 1
    BY <1>2
  <2> QED
    BY <1>5, <1>6, <2>1
<1>8. Len(trail') = Len(code') + 1 /\ trail'[1] = graph'.outputs
      /\ trail'[Len(trail')] = simulator'
  BY <1>2, <1>3, <1>4
<1> QED
  BY <1>4, <1>7, <1>8 DEF Meant

-----------------------------------------------------------------------------
(***************************************************************************)
(* One turn of the loop: what an action must show of the instruction it    *)
(* emits, and of the nodes it takes off the simulator and puts on it, for  *)
(* the inductive invariant to hold again.                                  *)
(***************************************************************************)
\* working_nodes holds indices or nothing.
LEMMA TrackedType ==
    ASSUME NEW track \in [Nodes -> Int], NEW nodes \in Seq(Nodes), Tracked(track, nodes)
    PROVE  track \in [Nodes -> Nat \union {Untracked}]
<1>1. \A n \in Nodes : TrackedAt(track, nodes, n)
  BY TrackedPointwise
<1>2. \A n \in Nodes : track[n] \in Nat \union {Untracked}
  BY <1>1 DEF TrackedAt
<1> QED
  BY <1>2

\* The conditions an emitted instruction has to meet
LEMMA LoopStep ==
    ASSUME NEW ins \in Instructions, Inductive, Looping,
           graph' = graph, phase' = phase, UNCHANGED runVars,
           code' = Append(code, ins), trail' = Append(trail, simulator'),
           simulator' \in Seq(Nodes), working' \in [Nodes -> Int],
           Tracked(working', simulator'), unsolved' = UnsolvedIn(simulator'),
           data' = data \/ \E n \in Consts \ Range(data) :
                             n \in Wanted(simulator) /\ data' = Append(data, n),
           CanExecute(ins, simulator', graph.args, data'),
           Execute(ins, simulator', graph.args, data') = simulator,
           NEW called, called = {n \in Operators : ins = CallOf(n)},
           called \subseteq Supported,
           called \subseteq Wanted(simulator),
           called \intersect WantedIn(graph, simulator') = {},
           WantedIn(graph, simulator') \subseteq Wanted(simulator),
           Wanted(simulator) \subseteq WantedIn(graph, simulator') \union called \union Range(data')
    PROVE  Inductive'
<1>1. /\ TypeOK /\ LoopInvariant /\ Sound /\ Complete /\ Meant /\ ComputedOnce
      /\ DataStoredOnce /\ FailsExactly /\ RunInvariant
  BY Zenon DEF Inductive
<1>2. /\ phase = "compiling" /\ phase' = "compiling"
      /\ code \in Seq(Instructions) /\ data \in Seq(Consts)
  BY <1>1 DEF Looping, TypeOK
<1>3. /\ Called \intersect Wanted(simulator) = {} /\ Wanted(simulator) \subseteq Reachable
      /\ trail[Len(trail)] = simulator
  BY <1>1, <1>2 DEF LoopInvariant
<1>4. Called' = Called \union called
  BY <1>2, CalledAfter
<1>5. Wanted(simulator)' = WantedIn(graph, simulator') /\ Reachable' = Reachable
  BY DEF Wanted, Reachable
<1>6. data' \in Seq(Consts) /\ Range(data) \subseteq Range(data')
      /\ Range(data') \subseteq Reachable
  <2>5. Range(data) \subseteq Reachable
    BY <1>1 DEF Sound
  <2>1. CASE data' = data
    BY <1>2, <2>5, <2>1
  <2>2. CASE \E n \in Consts \ Range(data) : n \in Wanted(simulator) /\ data' = Append(data, n)
    <3>1. PICK n \in Consts \ Range(data) : n \in Wanted(simulator) /\ data' = Append(data, n)
      BY <2>2
    <3>2. data' \in Seq(Consts) /\ Range(data') = Range(data) \union {n}
      BY <1>2, <3>1, AppendProperties, RangeOfAppend
    <3> QED
      BY <1>3, <2>5, <3>1, <3>2
  <2> QED
    BY <2>1, <2>2
<1>7. Meant' /\ trail' \in Seq(Seq(Nodes)) /\ trail'[Len(trail')] = simulator'
  BY <1>1, <1>2, <1>3, MeantAfter
<1>8. ComputedOnce'
  <2>1. \A n \in Operators : ins = CallOf(n) => n \notin Called
    BY <1>3
  <2> QED
    BY <1>1, <1>2, <2>1, ComputedOnceAfter
<1>9. TypeOK'
  <2>1. code' \in Seq(Instructions)
    BY <1>2, AppendProperties
  <2>2. working' \in [Nodes -> Nat \union {Untracked}]
    BY TrackedType
  <2>3. unsolved' \in Nat
    BY UnsolvedFinite
  <2> QED
    BY <1>1, <1>6, <1>7, <2>1, <2>2, <2>3 DEF TypeOK, runVars
<1>10. LoopInvariant'
  BY <1>3, <1>4, <1>5, <1>7 DEF LoopInvariant
<1>11. Sound'
  BY <1>1, <1>3, <1>4, <1>5, <1>6 DEF Sound
<1>12. Complete'
  <2>1. Reachable \subseteq Called \union Range(data) \union Wanted(simulator)
    BY <1>1 DEF Complete
  <2>2. Reachable' \subseteq Called' \union Range(data)' \union Wanted(simulator)'
    BY <1>4, <1>5, <1>6, <2>1
  <2> QED
    BY <1>2, <2>2 DEF Complete
<1>13. DataStoredOnce'
  <2>1. \A k, l \in DOMAIN data : data[k] = data[l] => k = l
    BY <1>1 DEF DataStoredOnce
  <2>2. \A k, l \in DOMAIN data' : data'[k] = data'[l] => k = l
    <3>1. CASE data' = data
      BY <2>1, <3>1
    <3>2. CASE \E n \in Consts \ Range(data) : data' = Append(data, n)
      <4>1. PICK n \in Consts \ Range(data) : data' = Append(data, n)
        BY <3>2
      <4>2. /\ Len(data) \in Nat /\ DOMAIN data = 1 .. Len(data)
            /\ DOMAIN data' = 1 .. Len(data) + 1
            /\ \A k \in 1 .. Len(data) : data'[k] = data[k] /\ data[k] # n
            /\ data'[Len(data) + 1] = n
        <5>1. \A k \in 1 .. Len(data) : data[k] # n
          BY <1>2, <4>1, RangeElements
        <5> QED
          BY <1>2, <4>1, <5>1, LenProperties, AppendProperties
      <4>3. \A k \in DOMAIN data' : k \in 1 .. Len(data) \/ k = Len(data) + 1
        <5>1. \A k \in 1 .. Len(data) + 1 : k \in 1 .. Len(data) \/ k = Len(data) + 1
          BY <4>2
        <5> QED
          BY <4>2, <5>1, Zenon
      <4> QED
        BY <2>1, <4>2, <4>3
    <3> QED
      BY <3>1, <3>2
  <2> QED
    BY <1>2, <2>2 DEF DataStoredOnce
<1>14. FailsExactly'
  BY <1>2 DEF FailsExactly
<1>15. RunInvariant'
  BY <1>1, <1>2 DEF RunInvariant, runVars
<1> QED
  BY <1>7, <1>8, <1>9, <1>10, <1>11, <1>12, <1>13, <1>14, <1>15, Zenon DEF Inductive

-----------------------------------------------------------------------------
(***************************************************************************)
(* The actions of the loop                                                 *)
(***************************************************************************)
\* The top of the simulator: it is tracked lower down, or occurs only once.
LEMMA LoopTop ==
    ASSUME Inductive, Looping
    PROVE  /\ simulator \in Seq(Nodes) /\ simulator # <<>>
           /\ Size \in Nat /\ Size > 0 /\ DOMAIN simulator = 1 .. Size
           /\ Top \in Nodes
           /\ Below \in Seq(Nodes) /\ Len(Below) = Size - 1
           /\ \A p \in 1 .. Size - 1 : Below[p] = simulator[p]
           /\ simulator = Append(Below, Top)
           /\ working[Top] \in 0 .. Size - 1 /\ simulator[working[Top] + 1] = Top
           /\ ~IsDuplicate => /\ working[Top] = Size - 1
                              /\ \A p \in 1 .. Size - 1 : simulator[p] # Top
<1>1. /\ simulator \in Seq(Nodes) /\ Tracked(working, simulator)
      /\ unsolved = UnsolvedIn(simulator) /\ unsolved > 0
  BY DEF Inductive, TypeOK, LoopInvariant, Looping
<1>2. simulator # <<>>
  <2>1. CASE simulator = <<>>
    <3>1. UnsolvedIn(<<>>) = 0
      <4>1. <<>> \in Seq(Nodes) /\ \A p \in 1 .. Len(<<>>) : <<>>[p] \in Parameters
        BY EmptySeq
      <4> QED
        BY <4>1, UnsolvedFinite
    <3> QED
      BY <1>1, <2>1, <3>1
  <2> QED
    BY <2>1
<1>3. /\ Size \in Nat /\ Size > 0 /\ DOMAIN simulator = 1 .. Size
      /\ Top \in Nodes
      /\ Below \in Seq(Nodes) /\ Len(Below) = Size - 1
      /\ \A p \in 1 .. Size - 1 : Below[p] = simulator[p]
      /\ simulator = Append(Below, Top)
  BY <1>1, <1>2, BelowCells, LenProperties DEF Size, Top, Below
<1>4. TrackedAt(working, simulator, Top)
  BY <1>1, <1>3, TrackedPointwise
<1>5. /\ working[Top] \in 0 .. Size - 1 /\ simulator[working[Top] + 1] = Top
      /\ \A p \in 1 .. Size : simulator[p] = Top => working[Top] + 1 <= p
  <2>1. Size \in 1 .. Len(simulator) /\ simulator[Size] = Top /\ Size = Len(simulator)
    BY <1>3 DEF Size, Top
  <2> QED
    BY <1>4, <2>1 DEF TrackedAt
<1>6. ~IsDuplicate => working[Top] = Size - 1
  BY <1>3, <1>5 DEF IsDuplicate, Untracked
<1>7. working[Top] = Size - 1 => \A p \in 1 .. Size - 1 : simulator[p] # Top
  BY <1>3, <1>5
<1> QED
  BY <1>1, <1>2, <1>3, <1>5, <1>6, <1>7

\* Popping the top and pushing nodes keeps the bookkeeping right.
LEMMA ReplaceTopStep ==
    ASSUME Inductive, Looping, NEW pushed \in Seq(Nodes), ReplaceTop(pushed)
    PROVE  /\ simulator' \in Seq(Nodes)
           /\ simulator' = Below \o pushed
           /\ working' \in [Nodes -> Int]
           /\ Tracked(working', simulator')
           /\ unsolved' = UnsolvedIn(simulator')
           /\ WantedIn(graph, simulator') = WantedIn(graph, Below) \union WantedIn(graph, pushed)
<1>1. /\ simulator' = Below \o pushed
      /\ working' = Track(Untrack(working, Top, Size - 1), Size - 1, pushed)
      /\ unsolved' = unsolved - UnsolvedIn(<<Top>>) + UnsolvedIn(pushed)
  BY DEF ReplaceTop
<1>2. /\ working \in [Nodes -> Int] /\ Tracked(working, simulator)
      /\ unsolved = UnsolvedIn(simulator)
  BY DEF Inductive, TypeOK, LoopInvariant, Looping, Untracked
<1>3. /\ simulator \in Seq(Nodes) /\ simulator # <<>> /\ Top \in Nodes
      /\ Below \in Seq(Nodes) /\ Len(Below) = Size - 1
      /\ simulator = Append(Below, Top)
  BY LoopTop
<1> DEFINE popped == Untrack(working, Top, Size - 1)
<1>4. popped \in [Nodes -> Int] /\ Tracked(popped, Below)
  BY <1>2, <1>3, TrackedAfterPop DEF Top, Below, Size
<1> HIDE DEF popped
<1>5. /\ Track(popped, Len(Below), pushed) \in [Nodes -> Int]
      /\ Tracked(Track(popped, Len(Below), pushed), Below \o pushed)
  BY <1>3, <1>4, TrackedAfterPush
<1>6. working' = Track(popped, Len(Below), pushed)
  BY <1>1, <1>3 DEF popped
<1>7. simulator' \in Seq(Nodes)
  BY <1>1, <1>3, ConcatProperties
<1>8. unsolved' = UnsolvedIn(simulator')
  <2>1. <<Top>> \in Seq(Nodes) /\ simulator = Below \o <<Top>>
    BY <1>3, AppendIsConcat
  <2>2. UnsolvedIn(simulator) = UnsolvedIn(Below) + UnsolvedIn(<<Top>>)
    BY <1>3, <2>1, UnsolvedConcat
  <2>3. UnsolvedIn(simulator') = UnsolvedIn(Below) + UnsolvedIn(pushed)
    BY <1>1, <1>3, UnsolvedConcat
  <2>4. /\ UnsolvedIn(Below) \in Nat /\ UnsolvedIn(<<Top>>) \in Nat
        /\ UnsolvedIn(pushed) \in Nat
    BY <1>3, <2>1, UnsolvedFinite
  <2> QED
    BY <1>1, <1>2, <2>2, <2>3, <2>4
<1>9. WantedIn(graph, simulator') = WantedIn(graph, Below) \union WantedIn(graph, pushed)
  BY <1>1, <1>3, WantedOfConcat
<1> QED
  BY <1>1, <1>5, <1>6, <1>7, <1>8, <1>9

\* What is on the simulator wants the top, what is below it and its inputs.
LEMMA LoopWanted ==
    ASSUME Inductive, Looping
    PROVE  /\ IsGraph(graph)
           /\ Wanted(simulator) = WantedIn(graph, Below) \union {Top} \union graph.refs[Top]
<1>1. simulator \in Seq(Nodes) /\ simulator # <<>>
  BY LoopTop
<1>2. WantedIn(graph, simulator) = WantedIn(graph, Below) \union {Top} \union graph.refs[Top]
  BY <1>1, WantedOfTop DEF Below, Top, Size
<1> QED
  BY <1>2 DEF Inductive, TypeOK, Wanted

\* Appending changes a sequence.
LEMMA AppendDiffers ==
    ASSUME NEW S, NEW s \in Seq(S), NEW e \in S
    PROVE  Append(s, e) # s
<1>1. Len(s) \in Nat /\ Len(Append(s, e)) = Len(s) + 1
  BY LenProperties, AppendProperties
<1> QED
  BY <1>1

\* A swap of the top, which occurs once, with the last occurrence of a node
LEMMA SwapTopStep ==
    ASSUME Inductive, Looping, ~IsDuplicate, UNCHANGED runVars,
           NEW p \in DOMAIN simulator, simulator[p] # Top,
           \A q \in DOMAIN simulator : simulator[q] = simulator[p] => q <= p,
           SwapTopWith(p), trail' = Append(trail, simulator')
    PROVE  Inductive'
<1>1. /\ simulator \in Seq(Nodes) /\ simulator # <<>>
      /\ Size \in Nat /\ Size > 0 /\ DOMAIN simulator = 1 .. Size
      /\ working[Top] = Size - 1
  BY LoopTop
<1>2. /\ simulator' = Swap(simulator, 0, Size - 1, p - 1)
      /\ working' = Retrack(working, Top, Size - 1, simulator[p], p - 1)
      /\ code' = Append(code, SwapOf(Size - 1, p - 1))
      /\ graph' = graph /\ phase' = phase /\ unsolved' = unsolved /\ data' = data
  BY DEF SwapTopWith
<1>3. /\ working \in [Nodes -> Int] /\ Tracked(working, simulator)
      /\ unsolved = UnsolvedIn(simulator)
  BY DEF Inductive, TypeOK, LoopInvariant, Looping, Untracked
<1>4. Size - 1 \in 0 .. Len(simulator) - 1 /\ p - 1 \in 0 .. Len(simulator) - 1
  BY <1>1 DEF Size
<1>5. simulator' \in Seq(Nodes)
  BY <1>1, <1>2, <1>4, SwapCells
<1>6. working' \in [Nodes -> Int] /\ Tracked(working', simulator')
  BY <1>1, <1>2, <1>3, TrackedAfterSwap DEF Top, Size
<1>7. unsolved' = UnsolvedIn(simulator')
  BY <1>1, <1>2, <1>3, <1>4, UnsolvedSwap
<1> DEFINE ins == SwapOf(Size - 1, p - 1)
<1>8. ins \in Instructions /\ \A n : ins # CallOf(n)
  <2>1. Size - 1 \in Nat /\ p - 1 \in Nat
    BY <1>1
  <2> QED
    BY <2>1 DEF Instructions, SwapOf, CallOf
<1>9. /\ CanExecute(ins, simulator', graph.args, data')
      /\ Execute(ins, simulator', graph.args, data') = simulator
  BY <1>1, <1>2, <1>4, SwapMeaning
<1>10. WantedIn(graph, simulator') = Wanted(simulator)
  BY <1>1, <1>2, <1>4, WantedOfSwap DEF Wanted
<1> HIDE DEF ins
<1>11. {} = {n \in Operators : ins = CallOf(n)}
  BY <1>8
<1>12. code' = Append(code, ins)
  BY <1>2 DEF ins
<1> QED
  BY <1>2, <1>5, <1>6, <1>7, <1>8, <1>9, <1>10, <1>11, <1>12, LoopStep

-----------------------------------------------------------------------------
\* case1 copies the node from the lower of its occurrences.
LEMMA CopyDuplicateStep ==
    ASSUME Inductive, CopyDuplicate, UNCHANGED runVars, trail' = Append(trail, simulator')
    PROVE  Inductive'
<1>1. /\ Looping /\ working[Top] # Untracked /\ working[Top] < Size - 1
      /\ code' = Append(code, PushOf(working[Top])) /\ ReplaceTop(<<>>)
      /\ graph' = graph /\ phase' = phase /\ data' = data
  BY DEF CopyDuplicate, IsDuplicate
<1> DEFINE i == working[Top]
           ins == PushOf(i)
<1>2. /\ Size \in Nat /\ Top \in Nodes
      /\ Below \in Seq(Nodes) /\ Len(Below) = Size - 1
      /\ \A p \in 1 .. Size - 1 : Below[p] = simulator[p]
      /\ simulator = Append(Below, Top)
      /\ i \in 0 .. Size - 1 /\ simulator[i + 1] = Top
  BY <1>1, LoopTop
<1>3. i \in 0 .. Len(Below) - 1 /\ Below[i + 1] = Top
  BY <1>1, <1>2
<1>4. <<>> \in Seq(Nodes)
  BY EmptySeq
<1>5. /\ simulator' \in Seq(Nodes) /\ simulator' = Below \o <<>>
      /\ working' \in [Nodes -> Int] /\ Tracked(working', simulator')
      /\ unsolved' = UnsolvedIn(simulator')
  BY <1>1, <1>4, ReplaceTopStep
<1>6. simulator' = Below
  BY <1>2, <1>5, ConcatEmptySeq
<1>7. /\ CanExecute(ins, simulator', graph.args, data')
      /\ Execute(ins, simulator', graph.args, data') = simulator
  BY <1>2, <1>3, <1>6, PushMeaning
<1>8. ins \in Instructions /\ \A n : ins # CallOf(n)
  BY <1>2 DEF Instructions, PushOf, CallOf
<1>9. WantedIn(graph, Below) = Wanted(simulator)
  <2>1. Top \in Range(Below)
    BY <1>2, <1>3, RangeElements
  <2>2. {Top} \union graph.refs[Top] \subseteq WantedIn(graph, Below)
    BY <2>1 DEF WantedIn
  <2> QED
    BY <1>1, <2>2, LoopWanted
<1> HIDE DEF ins
<1>10. {} = {n \in Operators : ins = CallOf(n)}
  BY <1>8
<1>11. code' = Append(code, ins)
  BY <1>1 DEF ins
<1> QED
  BY <1>1, <1>5, <1>6, <1>7, <1>8, <1>9, <1>10, <1>11, LoopStep

\* push_data_sagment: the index it returns holds the node.
LEMMA DataIndexOfConst ==
    ASSUME data \in Seq(Consts), NEW n \in Consts
    PROVE  /\ DataWith(n) \in Seq(Consts)
           /\ DataIndex(n) \in Nat /\ DataIndex(n) < Len(DataWith(n))
           /\ DataWith(n)[DataIndex(n) + 1] = n
           /\ n \in Range(DataWith(n))
           /\ n \in Range(data) => DataWith(n) = data
           /\ n \notin Range(data) => DataWith(n) = Append(data, n)
<1>1. /\ n \in Range(data) => DataWith(n) = data
      /\ n \notin Range(data) => DataWith(n) = Append(data, n)
  BY DEF DataWith
<1>2. Len(data) \in Nat
  BY LenProperties
<1> DEFINE d == DataWith(n)
<1>3. d \in Seq(Consts) /\ \E q \in 1 .. Len(d) : d[q] = n
  <2>1. CASE n \in Range(data)
    <3>1. PICK q \in 1 .. Len(data) : data[q] = n
      BY <2>1, RangeElements
    <3> QED
      BY <1>1, <2>1, <3>1
  <2>2. CASE n \notin Range(data)
    <3>1. /\ d = Append(data, n) /\ d \in Seq(Consts) /\ Len(d) = Len(data) + 1
          /\ d[Len(data) + 1] = n
      BY <1>1, <2>2, AppendProperties
    <3> HIDE DEF d
    <3>2. Len(data) + 1 \in 1 .. Len(d)
      BY <1>2, <3>1
    <3> QED
      BY <3>1, <3>2
  <2> QED
    BY <2>1, <2>2
<1> HIDE DEF d
<1>4. PICK q \in 1 .. Len(d) : d[q] = n
  BY <1>3
<1>5. Len(d) \in Nat
  BY <1>3, LenProperties
<1>6. DataIndex(n) = CHOOSE i \in 0 .. Len(d) - 1 : d[i + 1] = n
  BY Zenon DEF DataIndex, d
<1>7. q - 1 + 1 = q /\ q - 1 \in 0 .. Len(d) - 1
  BY <1>5
<1>8. \E i \in 0 .. Len(d) - 1 : d[i + 1] = n
  BY <1>4, <1>7
<1>9. DataIndex(n) \in 0 .. Len(d) - 1 /\ d[DataIndex(n) + 1] = n
  BY <1>6, <1>8
<1>10. DataIndex(n) \in Nat /\ DataIndex(n) < Len(d)
  BY <1>5, <1>9
<1>11. n \in Range(d)
  BY <1>3, <1>4, RangeElements
<1> QED
  BY <1>1, <1>3, <1>9, <1>10, <1>11 DEF d

\* case2-0 loads a Const from the data segment.
LEMMA LoadConstStep ==
    ASSUME Inductive, LoadConst, UNCHANGED runVars, trail' = Append(trail, simulator')
    PROVE  Inductive'
<1>1. /\ Looping /\ Top \in Consts
      /\ code' = Append(code, DataOf(DataIndex(Top))) /\ data' = DataWith(Top)
      /\ ReplaceTop(<<>>) /\ graph' = graph /\ phase' = phase
  BY DEF LoadConst
<1> DEFINE i == DataIndex(Top)
           ins == DataOf(i)
<1>2. Below \in Seq(Nodes) /\ simulator = Append(Below, Top) /\ Top \in Nodes
  BY <1>1, LoopTop
<1>3. /\ data' \in Seq(Consts)
      /\ i \in Nat /\ i < Len(data') /\ data'[i + 1] = Top
      /\ Top \in Range(data')
      /\ Top \in Range(data) => data' = data
      /\ Top \notin Range(data) => data' = Append(data, Top)
  <2>1. data \in Seq(Consts)
    BY DEF Inductive, TypeOK
  <2> QED
    BY <1>1, <2>1, DataIndexOfConst
<1> HIDE DEF i
<1>4. <<>> \in Seq(Nodes)
  BY EmptySeq
<1>5. /\ simulator' \in Seq(Nodes) /\ simulator' = Below \o <<>>
      /\ working' \in [Nodes -> Int] /\ Tracked(working', simulator')
      /\ unsolved' = UnsolvedIn(simulator')
  BY <1>1, <1>4, ReplaceTopStep
<1>6. simulator' = Below
  BY <1>2, <1>5, ConcatEmptySeq
<1>7. /\ CanExecute(ins, simulator', graph.args, data')
      /\ Execute(ins, simulator', graph.args, data') = simulator
  BY <1>2, <1>3, <1>6, ExecuteData
<1>8. ins \in Instructions /\ \A n : ins # CallOf(n)
  BY <1>3 DEF Instructions, DataOf, CallOf
<1>9. IsGraph(graph) /\ Wanted(simulator) = WantedIn(graph, Below) \union {Top} \union graph.refs[Top]
  BY <1>1, LoopWanted
<1>10. graph.refs[Top] = {}
  <2>1. Top \notin Operators
    BY <1>1, KindsAssumption
  <2> QED
    BY <1>2, <1>9, <2>1, WantedOfArguments
<1>11. data' = data \/ \E n \in Consts \ Range(data) :
                          n \in Wanted(simulator) /\ data' = Append(data, n)
  BY <1>1, <1>3, <1>9
<1> HIDE DEF ins
<1>12. {} = {n \in Operators : ins = CallOf(n)}
  BY <1>8
<1>13. code' = Append(code, ins)
  BY <1>1 DEF ins, i
<1>14. /\ WantedIn(graph, simulator') \subseteq Wanted(simulator)
       /\ Wanted(simulator) \subseteq WantedIn(graph, simulator') \union {} \union Range(data')
  BY <1>3, <1>6, <1>9, <1>10
<1> QED
  BY <1>1, <1>5, <1>7, <1>8, <1>11, <1>12, <1>13, <1>14, LoopStep

\* case4 calls an operator no node on the simulator still refers to.
LEMMA EmitOperatorStep ==
    ASSUME Inductive, EmitOperator, UNCHANGED runVars, trail' = Append(trail, simulator')
    PROVE  Inductive'
<1>1. /\ Looping /\ ~IsDuplicate /\ Top \in Supported /\ Top \in Operators
      /\ RefPositions(Top) = {}
      /\ code' = Append(code, CallOf(Top)) /\ ReplaceTop(graph.args[Top])
      /\ graph' = graph /\ phase' = phase /\ data' = data
  BY KindsAssumption DEF EmitOperator
<1> DEFINE pushed == graph.args[Top]
           ins == CallOf(Top)
<1>2. /\ Below \in Seq(Nodes) /\ simulator = Append(Below, Top) /\ Top \in Nodes
      /\ Size \in Nat /\ Len(Below) = Size - 1 /\ DOMAIN simulator = 1 .. Size
      /\ \A p \in 1 .. Size - 1 : Below[p] = simulator[p] /\ simulator[p] # Top
  BY <1>1, LoopTop
<1>3. IsGraph(graph) /\ Wanted(simulator) = WantedIn(graph, Below) \union {Top} \union graph.refs[Top]
  BY <1>1, LoopWanted
<1>4. /\ pushed \in Seq(Nodes) /\ pushed # <<>>
      /\ WantedIn(graph, pushed) = graph.refs[Top] /\ Top \notin graph.refs[Top]
  BY <1>1, <1>2, <1>3, WantedOfArguments
<1> HIDE DEF pushed
<1>5. /\ simulator' \in Seq(Nodes) /\ simulator' = Below \o pushed
      /\ working' \in [Nodes -> Int] /\ Tracked(working', simulator')
      /\ unsolved' = UnsolvedIn(simulator')
      /\ WantedIn(graph, simulator') = WantedIn(graph, Below) \union graph.refs[Top]
  BY <1>1, <1>4, ReplaceTopStep DEF pushed
<1>6. /\ CanExecute(ins, simulator', graph.args, data')
      /\ Execute(ins, simulator', graph.args, data') = simulator
  <2> DEFINE args == graph.args  below == Below  top == Top  d == data'
  <2>1. below \in Seq(Nodes) /\ top \in Nodes /\ args[top] \in Seq(Nodes) /\ args[top] # <<>>
    BY <1>2, <1>4 DEF pushed
  <2>2. simulator' = below \o args[top] /\ simulator = Append(below, top)
    BY <1>2, <1>5 DEF pushed
  <2> HIDE DEF args, below, top, d
  <2>3. /\ CanExecute(CallOf(top), below \o args[top], args, d)
        /\ Execute(CallOf(top), below \o args[top], args, d) = Append(below, top)
    BY ONLY <2>1, CallMeaning
  <2> QED
    BY <2>2, <2>3 DEF args, top, d
<1>7. /\ ins \in Instructions
      /\ {Top} = {n \in Operators : ins = CallOf(n)}
  BY <1>1 DEF Instructions, CallOf
<1>8. Top \notin WantedIn(graph, Below)
  <2>1. ASSUME NEW n \in Range(Below)  PROVE n # Top /\ Top \notin graph.refs[n]
    <3>1. PICK p \in 1 .. Size - 1 : n = Below[p]
      BY <1>2, RangeElements
    <3>2. p \in DOMAIN simulator /\ simulator[p] = n /\ n # Top
      BY <1>2, <3>1
    <3> QED
      BY <1>1, <3>2 DEF RefPositions
  <2> QED
    BY <2>1 DEF WantedIn
<1> HIDE DEF ins
<1>9. code' = Append(code, ins)
  BY <1>1 DEF ins
<1>10. /\ {Top} \subseteq Wanted(simulator)
       /\ {Top} \intersect WantedIn(graph, simulator') = {}
       /\ WantedIn(graph, simulator') \subseteq Wanted(simulator)
       /\ Wanted(simulator) \subseteq WantedIn(graph, simulator') \union {Top} \union Range(data')
  BY <1>3, <1>4, <1>5, <1>8
<1>11. {Top} \subseteq Supported
  BY <1>1
<1> QED
  BY <1>1, <1>5, <1>6, <1>7, <1>9, <1>10, <1>11, LoopStep

\* case2: the last node that is no Parameter takes the Parameter's place.
LEMMA SinkParameterStep ==
    ASSUME Inductive, SinkParameter, UNCHANGED runVars, trail' = Append(trail, simulator')
    PROVE  Inductive'
<1>1. Looping /\ ~IsDuplicate /\ Top \in Parameters
  BY DEF SinkParameter
<1>2. PICK p \in DOMAIN simulator : IsLast(p, UnsolvedPositions) /\ SwapTopWith(p)
  BY DEF SinkParameter
<1>3. simulator[p] # Top
  BY <1>1, <1>2 DEF IsLast, UnsolvedPositions
<1>4. \A q \in DOMAIN simulator : simulator[q] = simulator[p] => q <= p
  BY <1>2 DEF IsLast, UnsolvedPositions
<1> QED
  BY <1>1, <1>2, <1>3, <1>4, SwapTopStep

\* case3: the last node that needs the top takes its place.
LEMMA PostponeReferencedStep ==
    ASSUME Inductive, PostponeReferenced, UNCHANGED runVars, trail' = Append(trail, simulator')
    PROVE  Inductive'
<1>1. Looping /\ ~IsDuplicate /\ Top \in Nodes
  BY LoopTop DEF PostponeReferenced
<1>2. PICK p \in DOMAIN simulator : IsLast(p, RefPositions(Top)) /\ SwapTopWith(p)
  BY DEF PostponeReferenced
<1>3. Top \in graph.refs[simulator[p]] /\ Top \notin graph.refs[Top]
  BY <1>1, <1>2, LoopWanted, WantedOfArguments DEF IsLast, RefPositions
<1>4. simulator[p] # Top
  BY <1>3
<1>5. \A q \in DOMAIN simulator : simulator[q] = simulator[p] => q <= p
  BY <1>2 DEF IsLast, RefPositions
<1> QED
  BY <1>1, <1>2, <1>4, <1>5, SwapTopStep

\* An exception leaves what was compiled behind, for a reason.
LEMMA FailStep ==
    ASSUME Inductive, phase = "compiling", Fail, Unsupported, UNCHANGED <<trail, runVars>>
    PROVE  Inductive'
<1>1. /\ TypeOK /\ LoopInvariant /\ Sound /\ Complete /\ Meant /\ ComputedOnce
      /\ DataStoredOnce /\ FailsExactly /\ RunInvariant
  BY Zenon DEF Inductive
<1>2. /\ phase' = "failed" /\ graph' = graph /\ simulator' = simulator /\ working' = working
      /\ unsolved' = unsolved /\ code' = code /\ data' = data /\ trail' = trail
      /\ run' = run /\ stack' = stack /\ remaining' = remaining /\ evaluated' = evaluated
  BY DEF Fail, runVars
<1>3. TypeOK'
  BY <1>1, <1>2 DEF TypeOK
<1>4. LoopInvariant'
  BY <1>2 DEF LoopInvariant
<1>5. Called' = Called /\ Reachable' = Reachable /\ Wanted(simulator)' = Wanted(simulator)
  BY <1>2 DEF Called, CalledFrom, Reachable, Wanted
<1>6. Sound' /\ Complete'
  BY <1>1, <1>2, <1>5 DEF Sound, Complete
<1>7. Meant'
  BY <1>1, <1>2 DEF Meant
<1>8. ComputedOnce' /\ DataStoredOnce'
  BY <1>1, <1>2 DEF ComputedOnce, DataStoredOnce
<1>9. FailsExactly'
  BY <1>2, <1>5 DEF FailsExactly, Unsupported
<1>10. RunInvariant'
  BY <1>1, <1>2 DEF RunInvariant
<1> QED
  BY <1>3, <1>4, <1>6, <1>7, <1>8, <1>9, <1>10, Zenon DEF Inductive

\* convert_operator_instruction throws only for an operator the outputs need.
LEMMA RejectOperatorStep ==
    ASSUME Inductive, RejectOperator, UNCHANGED <<trail, runVars>>
    PROVE  Inductive'
<1>1. Looping /\ Top \in Operators \ Supported /\ Fail
  BY DEF RejectOperator
<1>2. Wanted(simulator) \subseteq Reachable
  BY <1>1 DEF Inductive, LoopInvariant, Looping
<1>3. Unsupported
  BY <1>1, <1>2, LoopWanted DEF Unsupported
<1> QED
  BY <1>1, <1>3, FailStep DEF Looping

\* Every turn of the loop
LEMMA TurnStep ==
    ASSUME Inductive, CompileTurn
    PROVE  Inductive'
<1>1. Turn /\ UNCHANGED runVars
  BY DEF CompileTurn
<1>2. code \in Seq(Instructions)
  BY DEF Inductive, TypeOK
<1>3. ASSUME NEW ins \in Instructions, code' = Append(code, ins)
      PROVE  trail' = Append(trail, simulator')
  <2>1. code' # code
    BY <1>2, <1>3, AppendDiffers
  <2> QED
    BY <2>1 DEF CompileTurn
<1>4. Looping /\ Size \in Nat /\ DOMAIN simulator = 1 .. Size
      /\ working[Top] \in 0 .. Size - 1 /\ Size > 0
  <2>1. Looping
    BY <1>1 DEF Turn, CopyDuplicate, LoadConst, SinkParameter, PostponeReferenced,
                EmitOperator, RejectOperator
  <2> QED
    BY <2>1, LoopTop
<1>5. CASE CopyDuplicate
  <2>1. /\ PushOf(working[Top]) \in Instructions
        /\ code' = Append(code, PushOf(working[Top]))
    BY <1>4, <1>5 DEF CopyDuplicate, Instructions, PushOf
  <2> QED
    BY <1>1, <1>3, <1>5, <2>1, CopyDuplicateStep
<1>6. CASE LoadConst
  <2>1. DataIndex(Top) \in Nat /\ code' = Append(code, DataOf(DataIndex(Top)))
    BY <1>6, DataIndexOfConst DEF LoadConst, Inductive, TypeOK
  <2>2. DataOf(DataIndex(Top)) \in Instructions
    BY <2>1 DEF Instructions, DataOf
  <2> QED
    BY <1>1, <1>3, <1>6, <2>1, <2>2, LoadConstStep
<1>7. ASSUME NEW p \in DOMAIN simulator, SwapTopWith(p)
      PROVE  trail' = Append(trail, simulator')
  <2>1. SwapOf(Size - 1, p - 1) \in Instructions
    <3>1. Size - 1 \in Nat /\ p - 1 \in Nat
      BY <1>4
    <3> QED
      BY <3>1 DEF Instructions, SwapOf
  <2> QED
    BY <1>3, <1>7, <2>1 DEF SwapTopWith
<1>8. CASE SinkParameter
  <2>1. trail' = Append(trail, simulator')
    BY <1>7, <1>8 DEF SinkParameter
  <2> QED
    BY <1>1, <1>8, <2>1, SinkParameterStep
<1>9. CASE PostponeReferenced
  <2>1. trail' = Append(trail, simulator')
    BY <1>7, <1>9 DEF PostponeReferenced
  <2> QED
    BY <1>1, <1>9, <2>1, PostponeReferencedStep
<1>10. CASE EmitOperator
  <2>1. CallOf(Top) \in Instructions /\ code' = Append(code, CallOf(Top))
    BY <1>10, KindsAssumption DEF EmitOperator, Instructions, CallOf
  <2> QED
    BY <1>1, <1>3, <1>10, <2>1, EmitOperatorStep
<1>11. CASE RejectOperator
  <2>1. trail' = trail
    BY <1>11 DEF RejectOperator, Fail, CompileTurn
  <2> QED
    BY <1>1, <1>11, <2>1, RejectOperatorStep
<1> QED
  BY <1>1, <1>5, <1>6, <1>8, <1>9, <1>10, <1>11 DEF Turn

-----------------------------------------------------------------------------
(***************************************************************************)
(* The end of the loop                                                     *)
(***************************************************************************)
\* Only Parameters are left on the simulator, and nothing else is wanted.
LEMMA LoopLeaves ==
    ASSUME Inductive, LoopEnded
    PROVE  /\ simulator \in Seq(Nodes)
           /\ Range(simulator) \subseteq Parameters
           /\ Wanted(simulator) = Range(simulator)
           /\ trail[Len(trail)] = simulator
           /\ Range(simulator) \subseteq Reachable
<1>1. /\ simulator \in Seq(Nodes) /\ UnsolvedIn(simulator) = 0 /\ IsGraph(graph)
      /\ trail[Len(trail)] = simulator /\ Wanted(simulator) \subseteq Reachable
  BY DEF Inductive, TypeOK, LoopInvariant, LoopEnded
<1>2. \A p \in 1 .. Len(simulator) : simulator[p] \in Parameters
  BY <1>1, UnsolvedFinite
<1>3. Range(simulator) \subseteq Parameters
  BY <1>1, <1>2, RangeElements
<1>4. Range(simulator) \intersect Operators = {}
  BY <1>3, KindsAssumption
<1>5. Wanted(simulator) = Range(simulator)
  BY <1>1, <1>4, WantedOfLeaves DEF Wanted
<1> QED
  BY <1>1, <1>3, <1>5

\* compile throws for a Parameter only if it is missing from the inputs.
LEMMA RejectInputsStep ==
    ASSUME Inductive, RejectInputs, UNCHANGED <<trail, runVars>>
    PROVE  Inductive'
<1>1. LoopEnded /\ ~(Range(simulator) \subseteq Range(graph.inputs)) /\ Fail
  BY DEF RejectInputs
<1>2. Unsupported
  BY <1>1, LoopLeaves DEF Unsupported
<1> QED
  BY <1>1, <1>2, FailStep DEF LoopEnded

\* What is left to show of the two ways in which compile returns a block
LEMMA CompiledStep ==
    ASSUME Inductive, LoopEnded, Range(simulator) \subseteq Range(graph.inputs),
           phase' = "compiled", simulator' = graph.inputs,
           UNCHANGED <<graph, working, unsolved, data, runVars>>,
           code' \in Seq(Instructions), trail' \in Seq(Seq(Nodes)),
           Called' = Called, ComputedOnce', Meant', trail'[Len(trail')] = graph.inputs
    PROVE  Inductive'
<1>1. /\ TypeOK /\ LoopInvariant /\ Sound /\ Complete /\ Meant /\ ComputedOnce
      /\ DataStoredOnce /\ FailsExactly /\ RunInvariant
  BY Zenon DEF Inductive
<1>2. graph.inputs \in Seq(Parameters) /\ graph.inputs \in Seq(Nodes) /\ IsGraph(graph)
  <2>1. IsGraph(graph) /\ graph.inputs \in Seq(Parameters)
    BY <1>1 DEF TypeOK, IsGraph
  <2>2. Parameters \subseteq Nodes
    BY DEF Nodes
  <2> QED
    BY <2>1, <2>2, SeqMonotonic
<1>3. /\ run' = run /\ stack' = stack /\ remaining' = remaining /\ evaluated' = evaluated
      /\ graph' = graph /\ working' = working /\ unsolved' = unsolved /\ data' = data
  BY DEF runVars
<1>4. TypeOK'
  BY <1>1, <1>2, <1>3 DEF TypeOK
<1>5. LoopInvariant'
  BY DEF LoopInvariant
<1>6. Reachable' = Reachable
  BY DEF Reachable, Wanted
<1>7. Sound'
  BY <1>1, <1>3, <1>6 DEF Sound
<1>8. /\ Reachable \subseteq Called \union Range(data) \union Range(simulator)
      /\ Range(simulator) \subseteq Parameters /\ Range(simulator) \subseteq Reachable
  BY <1>1, LoopLeaves DEF Complete
<1>9. Complete'
  <2>1. Range(graph.inputs) \subseteq WantedIn(graph, graph.inputs)
    BY <1>2, WantedAreNodes
  <2>2. Range(simulator) \subseteq Wanted(simulator)'
    BY <1>3, <2>1 DEF Wanted
  <2> QED
    BY <1>3, <1>6, <1>8, <2>2 DEF Complete
<1>10. Called \subseteq Operators /\ Range(data) \subseteq Consts
  <2>1. data \in Seq(Consts)
    BY <1>1 DEF TypeOK
  <2> QED
    BY <2>1, RangeElements DEF Called, CalledFrom
<1>11. DataStoredOnce'
  <2>1. Range(data) \subseteq Reachable
    BY <1>1 DEF Sound
  <2>2. Range(data) = Reachable \intersect Consts
    BY <1>8, <1>10, <2>1, KindsAssumption
  <2> QED
    BY <1>1, <1>3, <1>6, <2>2 DEF DataStoredOnce
<1>12. FailsExactly'
  <2>1. Called \subseteq Supported
    BY <1>1 DEF Sound
  <2>2. Reachable \intersect Operators \subseteq Supported
    BY <1>8, <1>10, <2>1, KindsAssumption
  <2>3. Reachable \intersect Parameters \subseteq Range(graph.inputs)
    BY <1>8, <1>10, KindsAssumption
  <2> QED
    BY <1>3, <1>6, <2>2, <2>3 DEF FailsExactly, Unsupported
<1>13. RunInvariant'
  BY <1>1, <1>3 DEF RunInvariant, LoopEnded
<1> QED
  BY <1>4, <1>5, <1>7, <1>9, <1>11, <1>12, <1>13, Zenon DEF Inductive

\* The inputs are what the simulator asks for already.
LEMMA SatisfiedStep ==
    ASSUME Inductive, Satisfied, UNCHANGED <<trail, runVars>>
    PROVE  Inductive'
<1>1. /\ LoopEnded /\ simulator = graph.inputs /\ phase' = "compiled"
      /\ graph' = graph /\ simulator' = simulator /\ working' = working
      /\ unsolved' = unsolved /\ code' = code /\ data' = data
  BY DEF Satisfied
<1>2. code' \in Seq(Instructions) /\ trail' \in Seq(Seq(Nodes))
  BY <1>1 DEF Inductive, TypeOK
<1>3. Called' = Called
  BY <1>1 DEF Called, CalledFrom
<1>4. ComputedOnce'
  BY <1>1 DEF Inductive, ComputedOnce
<1>5. Meant'
  BY <1>1 DEF Inductive, Meant, LoopEnded
<1>6. trail'[Len(trail')] = graph.inputs
  BY <1>1, LoopLeaves
<1> QED
  BY <1>1, <1>2, <1>3, <1>4, <1>5, <1>6, CompiledStep

-----------------------------------------------------------------------------
(***************************************************************************)
(* Binding the inputs                                                      *)
(***************************************************************************)
\* working_input_nodes maps an input to an index, and to its own position if
\* no input is listed twice.
LEMMA InputIndexOfInput ==
    ASSUME graph.inputs \in Seq(Nodes), NEW n \in Range(graph.inputs)
    PROVE  /\ InputIndex(n) \in Nat
           /\ Bindable => /\ InputIndex(n) \in 0 .. Len(graph.inputs) - 1
                          /\ graph.inputs[InputIndex(n) + 1] = n
<1> DEFINE s == graph.inputs
           at == {p \in 1 .. Len(s) : s[p] = n}
<1>1. Len(s) \in Nat /\ DOMAIN s = 1 .. Len(s)
  BY LenProperties
<1>2. at # {} /\ at \subseteq Nat
  BY <1>1, RangeElements
<1>3. Min(at) \in at /\ \A y \in at : Min(at) <= y
  <2> HIDE DEF at
  <2> QED
    BY <1>2, LeastIndex
<1>4. \E p \in DOMAIN s : s[p] = n /\ \A q \in 1 .. p - 1 : s[q] # n
  <2>1. Min(at) \in DOMAIN s /\ s[Min(at)] = n /\ Min(at) \in Nat
    BY <1>1, <1>3
  <2>2. ASSUME NEW q \in 1 .. Min(at) - 1  PROVE s[q] # n
    <3>1. q \in 1 .. Len(s) /\ ~(Min(at) <= q)
      BY <1>1, <2>1
    <3> QED
      BY <1>3, <3>1
  <2> QED
    BY <2>1, <2>2
<1> DEFINE f == FirstPosition(n)
<1>5. f \in DOMAIN s /\ s[f] = n
  BY <1>4 DEF FirstPosition
<1> DEFINE firsts == {p \in 1 .. f - 1 : FirstPosition(s[p]) = p}
<1> HIDE DEF f
<1>6. f \in Nat /\ f \in 1 .. Len(s) /\ f - 1 \in Nat
  BY <1>1, <1>5
<1>7. IsFiniteSet(1 .. f - 1) /\ Cardinality(1 .. f - 1) = f - 1
  <2>1. IsFiniteSet(1 .. f - 1) /\ Cardinality(1 .. f - 1) = IF 1 > f - 1 THEN 0 ELSE f - 1 - 1 + 1
    BY <1>6, FS_Interval
  <2> QED
    BY <1>6, <2>1
<1>8. InputIndex(n) = Cardinality(firsts)
  BY Zenon DEF InputIndex, f
<1>9. Cardinality(firsts) \in Nat
  BY <1>7, FS_Subset, FS_CardinalityType
<1>10. ASSUME Bindable  PROVE firsts = 1 .. f - 1
  <2> SUFFICES ASSUME NEW p \in 1 .. f - 1  PROVE FirstPosition(s[p]) = p
    OBVIOUS
  <2>1. \A q, r \in DOMAIN s : s[q] = s[r] => q = r
    BY <1>10 DEF Bindable, IsBindable
  <2>2. p \in DOMAIN s /\ \A q \in 1 .. p - 1 : q \in DOMAIN s /\ q # p
    BY <1>1, <1>6
  <2>3. \A q \in 1 .. p - 1 : s[q] # s[p]
    BY <2>1, <2>2
  <2>4. FirstPosition(s[p]) = CHOOSE m \in DOMAIN s :
            s[m] = s[p] /\ \A q \in 1 .. m - 1 : s[q] # s[p]
    BY DEF FirstPosition
  <2>5. FirstPosition(s[p]) \in DOMAIN s /\ s[FirstPosition(s[p])] = s[p]
    BY <2>2, <2>3, <2>4
  <2> QED
    BY <2>1, <2>2, <2>5
<1> HIDE DEF firsts
<1>11. ASSUME Bindable  PROVE InputIndex(n) = f - 1
  BY <1>7, <1>8, <1>10, <1>11
<1> QED
  BY <1>5, <1>6, <1>8, <1>9, <1>11

\* Pushing the next node of the simulator on the arguments
LEMMA NextBinding ==
    ASSUME NEW S, NEW s \in Seq(S), NEW t \in Seq(S), NEW m \in 0 .. Len(s) - 1
    PROVE  /\ t \o SubSeq(s, 1, m) \in Seq(S)
           /\ s[m + 1] \in S
           /\ t \o SubSeq(s, 1, m + 1) = Append(t \o SubSeq(s, 1, m), s[m + 1])
<1>1. Len(s) \in Nat /\ \A p \in 1 .. Len(s) : s[p] \in S
  BY LenProperties, ElementOfSeq
<1>2. m + 1 \in 1 .. Len(s) /\ 1 \in 1 .. Len(s) /\ m + 1 - 1 = m
  BY <1>1
<1>3. s[m + 1] \in S
  BY <1>1, <1>2
<1>4. SubSeq(s, 1, m) \in Seq(S)
  <2>1. \A p \in 1 .. m : s[p] \in S
    BY <1>1
  <2> QED
    BY <2>1, SubSeqProperties
<1>5. SubSeq(s, 1, m + 1) = SubSeq(s, 1, m) \o <<s[m + 1]>>
  BY <1>2, SubSeqRecursiveSecond
<1> DEFINE u == SubSeq(s, 1, m)
           e == s[m + 1]
<1>6. u \in Seq(S) /\ e \in S /\ SubSeq(s, 1, m + 1) = u \o <<e>>
  BY <1>3, <1>4, <1>5
<1> HIDE DEF u, e
<1>7. <<e>> \in Seq(S) /\ t \o u \in Seq(S)
  BY <1>6, ConcatProperties
<1>8. t \o (u \o <<e>>) = (t \o u) \o <<e>>
  BY <1>6, <1>7, ConcatAssociative
<1>9. (t \o u) \o <<e>> = Append(t \o u, e)
  BY <1>6, <1>7, AppendIsConcat
<1> QED
  BY <1>6, <1>7, <1>8, <1>9 DEF u, e

\* The binding code and the stacks it expects, entry by entry
LEMMA BindingEntries ==
    ASSUME Inductive, LoopEnded, Range(simulator) \subseteq Range(graph.inputs)
    PROVE  /\ Size \in Nat /\ graph.inputs \in Seq(Nodes)
           /\ BindingCode \in Seq(Instructions) /\ Len(BindingCode) = Size + 1
           /\ BindingTrail \in Seq(Seq(Nodes)) /\ Len(BindingTrail) = Size + 1
           /\ BindingCode[1] = EraseOf(0, -Size)
           /\ \A k \in 1 .. Size + 1 : BindingCode[k].op # "call"
           /\ \A m \in 0 .. Size - 1 :
                 BindingCode[Size + 1 - m] = PushOf(InputIndex(simulator[m + 1]))
           /\ \A m \in 0 .. Size :
                 BindingTrail[Size + 1 - m] = graph.inputs \o SubSeq(simulator, 1, m)
<1>1. /\ simulator \in Seq(Nodes) /\ graph.inputs \in Seq(Nodes) /\ Size \in Nat
      /\ \A p \in 1 .. Size : simulator[p] \in Nodes /\ simulator[p] \in Range(graph.inputs)
  <2>1. simulator \in Seq(Nodes) /\ graph.inputs \in Seq(Parameters)
    BY DEF Inductive, TypeOK, IsGraph
  <2>2. graph.inputs \in Seq(Nodes)
    BY <2>1, SeqMonotonic DEF Nodes
  <2>3. Size = Len(simulator) /\ Size \in Nat
    BY <2>1, LenProperties DEF Size
  <2>4. \A p \in 1 .. Size : simulator[p] \in Range(simulator)
    BY <2>1, <2>3, RangeElements
  <2> QED
    BY <2>1, <2>2, <2>3, <2>4, RangeElements
<1>2. \A p \in 1 .. Size : InputIndex(simulator[p]) \in Nat
  BY <1>1, InputIndexOfInput
<1> DEFINE n == Size + 1
           c(k) == IF k = 1 THEN EraseOf(0, -Size)
                            ELSE PushOf(InputIndex(simulator[Size + 2 - k]))
           t(k) == graph.inputs \o SubSeq(simulator, 1, Size + 1 - k)
<1>3. BindingCode = [k \in 1 .. n |-> c(k)] /\ BindingTrail = [k \in 1 .. n |-> t(k)]
  BY Zenon DEF BindingCode, BindingTrail
<1>4. \A k \in 1 .. n : c(k) \in Instructions
  <2> SUFFICES ASSUME NEW k \in 1 .. n  PROVE c(k) \in Instructions
    OBVIOUS
  <2>1. CASE k = 1
    BY <1>1, <2>1 DEF Instructions, EraseOf
  <2>2. CASE k # 1
    <3>1. Size + 2 - k \in 1 .. Size
      BY <1>1, <2>2
    <3>2. InputIndex(simulator[Size + 2 - k]) \in Nat
      BY <1>2, <3>1
    <3> QED
      BY <2>2, <3>2 DEF Instructions, PushOf
  <2> QED
    BY <2>1, <2>2
<1>5. \A k \in 1 .. n : t(k) \in Seq(Nodes)
  <2> SUFFICES ASSUME NEW k \in 1 .. n  PROVE t(k) \in Seq(Nodes)
    OBVIOUS
  <2>1. Size + 1 - k \in Int /\ \A p \in 1 .. Size + 1 - k : simulator[p] \in Nodes
    BY <1>1
  <2>2. SubSeq(simulator, 1, Size + 1 - k) \in Seq(Nodes)
    BY <2>1, SubSeqProperties
  <2> QED
    BY <1>1, <2>2, ConcatProperties
<1>6. n \in Nat
  BY <1>1
<1> HIDE DEF c, t
<1>7. BindingCode \in Seq(Instructions) /\ Len(BindingCode) = n
  BY <1>3, <1>4, <1>6
<1>8. BindingTrail \in Seq(Seq(Nodes)) /\ Len(BindingTrail) = n
  BY <1>3, <1>5, <1>6
<1>9. BindingCode[1] = EraseOf(0, -Size)
  BY <1>1, <1>3 DEF c
<1>a. \A k \in 1 .. n : BindingCode[k].op # "call"
  <2>1. \A k \in 1 .. n : c(k).op # "call"
    BY DEF c, EraseOf, PushOf
  <2> QED
    BY <1>3, <2>1
<1>10. ASSUME NEW m \in 0 .. Size - 1
       PROVE  BindingCode[Size + 1 - m] = PushOf(InputIndex(simulator[m + 1]))
  <2>1. Size + 1 - m \in 1 .. n /\ Size + 1 - m # 1 /\ Size + 2 - (Size + 1 - m) = m + 1
    BY <1>1
  <2> QED
    BY <1>3, <2>1 DEF c
<1>11. ASSUME NEW m \in 0 .. Size
       PROVE  BindingTrail[Size + 1 - m] = graph.inputs \o SubSeq(simulator, 1, m)
  <2>1. Size + 1 - m \in 1 .. n /\ Size + 1 - (Size + 1 - m) = m
    BY <1>1
  <2> QED
    BY <1>3, <2>1 DEF t
<1> QED
  BY <1>1, <1>7, <1>8, <1>9, <1>10, <1>11, <1>a

\* The second part of a concatenation
LEMMA ConcatSecond ==
    ASSUME NEW S, NEW s \in Seq(S), NEW t \in Seq(S), NEW j \in 1 .. Len(t)
    PROVE  (s \o t)[Len(s) + j] = t[j]
<1> DEFINE w == s \o t
           q == Len(s) + j
<1>1. Len(s) \in Nat /\ Len(t) \in Nat
  BY LenProperties
<1>2. \A p \in 1 .. Len(s) + Len(t) : w[p] = IF p <= Len(s) THEN s[p] ELSE t[p - Len(s)]
  BY ConcatProperties
<1>3. q \in 1 .. Len(s) + Len(t) /\ ~(q <= Len(s)) /\ q - Len(s) = j
  BY <1>1
<1> HIDE DEF w, q
<1>4. w[q] = t[j]
  BY <1>2, <1>3
<1> QED
  BY <1>4 DEF w, q

\* The binding code means the step from the inputs to the simulator.
LEMMA BindingMeant ==
    ASSUME Inductive, BindInputs, trail' = trail \o BindingTrail
    PROVE  Meant' /\ trail'[Len(trail')] = graph.inputs
<1>1. /\ LoopEnded /\ Range(simulator) \subseteq Range(graph.inputs)
      /\ simulator # graph.inputs /\ code' = code \o BindingCode /\ phase' = "compiled"
      /\ graph' = graph /\ data' = data
  BY DEF BindInputs
<1>2. /\ Size \in Nat /\ graph.inputs \in Seq(Nodes)
      /\ BindingCode \in Seq(Instructions) /\ Len(BindingCode) = Size + 1
      /\ BindingTrail \in Seq(Seq(Nodes)) /\ Len(BindingTrail) = Size + 1
      /\ BindingCode[1] = EraseOf(0, -Size)
      /\ \A m \in 0 .. Size - 1 :
            BindingCode[Size + 1 - m] = PushOf(InputIndex(simulator[m + 1]))
      /\ \A m \in 0 .. Size :
            BindingTrail[Size + 1 - m] = graph.inputs \o SubSeq(simulator, 1, m)
  BY <1>1, BindingEntries
<1>3. /\ simulator \in Seq(Nodes) /\ Len(simulator) = Size
      /\ code \in Seq(Instructions) /\ trail \in Seq(Seq(Nodes))
      /\ Len(trail) = Len(code) + 1 /\ Len(code) \in Nat
      /\ trail[1] = graph.outputs
      /\ trail[Len(code) + 1] = simulator
      /\ \A k \in 1 .. Len(code) :
            /\ CanExecute(code[k], trail[k + 1], graph.args, data)
            /\ Execute(code[k], trail[k + 1], graph.args, data) = trail[k]
  <2>1. /\ simulator \in Seq(Nodes) /\ code \in Seq(Instructions) /\ trail \in Seq(Seq(Nodes))
    BY DEF Inductive, TypeOK
  <2>2. Len(code) \in Nat /\ DOMAIN code = 1 .. Len(code)
    BY <2>1, LenProperties
  <2> QED
    BY <1>1, <2>1, <2>2, LoopLeaves DEF Inductive, Meant, LoopEnded, Size
<1> DEFINE n == Len(code)
<1>4. /\ Len(code') = n + (Size + 1) /\ DOMAIN code' = 1 .. n + (Size + 1)
      /\ \A k \in 1 .. n : code'[k] = code[k]
      /\ \A j \in 1 .. Size + 1 : code'[n + j] = BindingCode[j]
  <2>1. /\ code' \in Seq(Instructions) /\ Len(code') = n + (Size + 1)
        /\ \A k \in 1 .. n + (Size + 1) : code'[k] = IF k <= n THEN code[k] ELSE BindingCode[k - n]
    BY <1>1, <1>2, <1>3, ConcatProperties
  <2>2. DOMAIN code' = 1 .. Len(code')
    BY <2>1, LenProperties
  <2>3. \A k \in 1 .. n : k \in 1 .. n + (Size + 1) /\ k <= n
    BY <1>2, <1>3
  <2>4. \A k \in 1 .. n : code'[k] = code[k]
    BY <2>1, <2>3
  <2>5. \A j \in 1 .. Size + 1 : code'[n + j] = BindingCode[j]
    BY <1>1, <1>2, <1>3, ConcatSecond
  <2> QED
    BY <2>1, <2>2, <2>4, <2>5
<1>5. /\ Len(trail') = n + 1 + (Size + 1)
      /\ \A k \in 1 .. n + 1 : trail'[k] = trail[k]
      /\ \A j \in 1 .. Size + 1 : trail'[n + 1 + j] = BindingTrail[j]
  <2> DEFINE l == Len(trail)
  <2>1. l \in Nat /\ l = n + 1
    BY <1>3
  <2> DEFINE t == BindingTrail
             S == Seq(Nodes)
  <2>6. trail \in Seq(S) /\ t \in Seq(S) /\ Len(t) = Size + 1 /\ trail' = trail \o t
    BY <1>2, <1>3
  <2> HIDE DEF t, S
  <2>2. /\ Len(trail') = l + (Size + 1)
        /\ \A k \in 1 .. l + (Size + 1) : trail'[k] = IF k <= l THEN trail[k] ELSE t[k - l]
    BY <2>6, ConcatProperties
  <2>3. \A j \in 1 .. Size + 1 : trail'[l + j] = BindingTrail[j]
    BY <2>6, ConcatSecond DEF t
  <2> HIDE DEF l
  <2>4. \A k \in 1 .. l : k \in 1 .. l + (Size + 1) /\ k <= l
    BY <1>2, <2>1
  <2>5. \A k \in 1 .. l : trail'[k] = trail[k]
    BY <2>2, <2>4
  <2> QED
    BY <2>1, <2>2, <2>3, <2>5
<1> HIDE DEF n
<1>6. n \in Nat /\ n = Len(code)
  BY <1>3 DEF n
\* the code of the loop
<1>7. ASSUME NEW k \in 1 .. n
      PROVE  /\ CanExecute(code'[k], trail'[k + 1], graph.args, data)
             /\ Execute(code'[k], trail'[k + 1], graph.args, data) = trail'[k]
  <2>1. k \in 1 .. n + 1 /\ k + 1 \in 1 .. n + 1
    BY <1>6
  <2>2. code'[k] = code[k] /\ trail'[k] = trail[k] /\ trail'[k + 1] = trail[k + 1]
    BY <1>4, <1>5, <2>1
  <2> QED
    BY <1>3, <1>6, <2>2
\* erase(0, -size)
<1>8. ASSUME Bindable
      PROVE  /\ CanExecute(code'[n + 1], trail'[n + 1 + 1], graph.args, data)
             /\ Execute(code'[n + 1], trail'[n + 1 + 1], graph.args, data) = trail'[n + 1]
  <2>1. code'[n + 1] = EraseOf(0, -Len(simulator))
    <3>1. 1 \in 1 .. Size + 1
      BY <1>2
    <3> QED
      BY <1>2, <1>3, <1>4, <3>1
  <2>2. trail'[n + 1 + 1] = graph.inputs \o simulator /\ trail'[n + 1] = simulator
    <3>1. 1 \in 1 .. Size + 1 /\ Size + 1 - Size = 1 /\ Size \in 0 .. Size
      BY <1>2
    <3>2. BindingTrail[Size + 1 - Size] = graph.inputs \o SubSeq(simulator, 1, Size)
      BY <1>2, <3>1, Zenon
    <3>3. SubSeq(simulator, 1, Size) = simulator
      BY <1>3, SubSeqFull
    <3>4. trail'[n + 1 + 1] = BindingTrail[1]
      BY <1>5, <3>1
    <3>5. trail'[n + 1] = simulator
      BY <1>3, <1>5, <1>6
    <3> QED
      BY <3>1, <3>2, <3>3, <3>4, <3>5
  <2>3. simulator # <<>>
    <3> SUFFICES ASSUME simulator = <<>>  PROVE FALSE
      OBVIOUS
    <3>0. graph.inputs # <<>>
      BY <1>1
    <3>1. Reachable \intersect Parameters # {}
      BY <1>8, <3>0 DEF Bindable, IsBindable, Reachable, Wanted
    <3>2. Reachable \subseteq Called \union Range(data) \union Range(simulator)
      BY <1>1, LoopLeaves DEF Inductive, Complete
    <3>3. Called \subseteq Operators /\ Range(data) \subseteq Consts
      <4>1. data \in Seq(Consts)
        BY DEF Inductive, TypeOK
      <4> QED
        BY <4>1, RangeElements DEF Called, CalledFrom
    <3>4. Range(simulator) = {}
      BY RangeOfEmpty
    <3> QED
      BY <3>1, <3>2, <3>3, <3>4, KindsAssumption
  <2>4. /\ CanExecute(EraseOf(0, -Len(simulator)), graph.inputs \o simulator, graph.args, data)
        /\ Execute(EraseOf(0, -Len(simulator)), graph.inputs \o simulator, graph.args, data)
              = simulator
    BY <1>2, <1>3, <2>3, EraseMeaning
  <2> QED
    BY <2>1, <2>2, <2>4
\* the pushes, where m nodes of the simulator are on the stack already
<1>9. ASSUME Bindable, NEW j \in 2 .. Size + 1
      PROVE  /\ CanExecute(code'[n + j], trail'[n + 1 + j], graph.args, data)
             /\ Execute(code'[n + j], trail'[n + 1 + j], graph.args, data) = trail'[n + j]
  <2> DEFINE m == Size + 1 - j
             s == graph.inputs \o SubSeq(simulator, 1, m)
             node == simulator[m + 1]
             i == InputIndex(node)
  <2>1. /\ j \in 1 .. Size + 1 /\ j - 1 \in 1 .. Size + 1
        /\ Size + 1 - m = j /\ Size + 1 - (m + 1) = j - 1
        /\ n + 1 + (j - 1) = n + j
        /\ m \in 0 .. Size - 1 /\ m \in 0 .. Size
        /\ m + 1 \in 0 .. Size /\ m + 1 \in 1 .. Size
    BY <1>2, <1>6
  <2> HIDE DEF m
  <2>2. code'[n + j] = PushOf(i)
    <3>1. BindingCode[Size + 1 - m] = PushOf(i)
      BY <1>2, <2>1, Zenon
    <3> QED
      BY <1>4, <2>1, <3>1
  <2>3. trail'[n + 1 + j] = s
    <3>1. BindingTrail[Size + 1 - m] = s
      BY <1>2, <2>1, Zenon
    <3> QED
      BY <1>5, <2>1, <3>1
  <2>4. trail'[n + j] = graph.inputs \o SubSeq(simulator, 1, m + 1)
    <3>1. BindingTrail[Size + 1 - (m + 1)] = graph.inputs \o SubSeq(simulator, 1, m + 1)
      BY <1>2, <2>1, Zenon
    <3>2. trail'[n + 1 + (j - 1)] = BindingTrail[j - 1]
      BY <1>5, <2>1, Zenon
    <3> QED
      BY <2>1, <3>1, <3>2
  <2>5. /\ s \in Seq(Nodes) /\ node \in Nodes
        /\ graph.inputs \o SubSeq(simulator, 1, m + 1) = Append(s, node)
    <3>1. m \in 0 .. Len(simulator) - 1
      BY <1>3, <2>1
    <3> DEFINE t == graph.inputs
    <3>2. t \in Seq(Nodes) /\ simulator \in Seq(Nodes)
      BY <1>2, <1>3
    <3> HIDE DEF t
    <3>3. /\ t \o SubSeq(simulator, 1, m) \in Seq(Nodes) /\ simulator[m + 1] \in Nodes
          /\ t \o SubSeq(simulator, 1, m + 1) = Append(t \o SubSeq(simulator, 1, m), simulator[m + 1])
      BY ONLY <3>1, <3>2, NextBinding
    <3> QED
      BY <3>3 DEF t
  <2>6. node \in Range(graph.inputs)
    <3>1. m + 1 \in 1 .. Len(simulator)
      BY <1>3, <2>1
    <3>2. \A p \in 1 .. Len(simulator) : simulator[p] \in Range(simulator)
      BY <1>3, RangeElements
    <3>3. node \in Range(simulator)
      BY <3>1, <3>2
    <3> QED
      BY <1>1, <3>3
  <2>7. i \in 0 .. Len(graph.inputs) - 1 /\ graph.inputs[i + 1] = node
    BY <1>2, <1>9, <2>6, InputIndexOfInput
  <2>8. i \in 0 .. Len(s) - 1 /\ s[i + 1] = node
    <3> DEFINE u == SubSeq(simulator, 1, m)
               v == graph.inputs
    <3>1. \A p \in 1 .. m : simulator[p] \in Nodes
      BY <1>2, <1>3, <2>1, ElementOfSeq
    <3>2. m \in Int
      BY <2>1, <1>2
    <3>3. u \in Seq(Nodes)
      BY <3>1, <3>2, SubSeqProperties
    <3>4. Len(u) \in Nat /\ Len(v) \in Nat /\ v \in Seq(Nodes)
      BY <1>2, <3>3, LenProperties
    <3>5. /\ Len(s) = Len(v) + Len(u)
          /\ \A p \in 1 .. Len(v) + Len(u) : s[p] = IF p <= Len(v) THEN v[p] ELSE u[p - Len(v)]
      BY <3>3, <3>4, ConcatProperties
    <3> HIDE DEF u, s, i
    <3>6. i + 1 \in 1 .. Len(v) + Len(u) /\ i + 1 <= Len(v)
      BY <2>7, <3>4
    <3>7. s[i + 1] = v[i + 1]
      BY <3>5, <3>6
    <3>8. i \in 0 .. Len(s) - 1
      BY <2>7, <3>4, <3>5
    <3> QED
      BY <2>7, <3>7, <3>8
  <2> HIDE DEF s, node, i
  <2>9. CanExecute(PushOf(i), s, graph.args, data)
        /\ Execute(PushOf(i), s, graph.args, data) = Append(s, s[i + 1])
    BY <2>5, <2>8, PushMeaning
  <2> QED
    BY <2>2, <2>3, <2>4, <2>5, <2>8, <2>9 DEF s, node
<1>10. ASSUME Bindable, NEW k \in 1 .. n + (Size + 1)
       PROVE  /\ CanExecute(code'[k], trail'[k + 1], graph.args, data)
              /\ Execute(code'[k], trail'[k + 1], graph.args, data) = trail'[k]
  <2>1. CASE k \in 1 .. n
    BY <1>7, <2>1
  <2>2. CASE k = n + 1
    BY <1>8, <1>10, <2>2
  <2>3. CASE k > n + 1
    <3>1. k - n \in 2 .. Size + 1 /\ n + (k - n) = k /\ n + 1 + (k - n) = k + 1
      BY <1>2, <1>6, <2>3
    <3>2. /\ CanExecute(code'[n + (k - n)], trail'[n + 1 + (k - n)], graph.args, data)
          /\ Execute(code'[n + (k - n)], trail'[n + 1 + (k - n)], graph.args, data)
                = trail'[n + (k - n)]
      BY <1>9, <1>10, <3>1, Zenon
    <3> QED
      BY <3>1, <3>2
  <2>4. k \in 1 .. n \/ k = n + 1 \/ k > n + 1
    BY <1>2, <1>6
  <2> QED
    BY <2>1, <2>2, <2>3, <2>4
<1>11. Bindable' = Bindable
  BY <1>1 DEF Bindable
<1>12. Len(trail') = Len(code') + 1 /\ trail'[1] = graph.outputs
  BY <1>2, <1>3, <1>4, <1>5, <1>6
<1>13. Meant'
  BY <1>1, <1>4, <1>10, <1>11, <1>12 DEF Meant
<1>14. trail'[Len(trail')] = graph.inputs
  <2>1. Size + 1 \in 1 .. Size + 1 /\ Size + 1 - 0 = Size + 1 /\ 0 \in 0 .. Size
    BY <1>2
  <2>2. BindingTrail[Size + 1 - 0] = graph.inputs \o SubSeq(simulator, 1, 0)
    BY <1>2, <2>1, Zenon
  <2>3. SubSeq(simulator, 1, 0) = <<>>
    BY SubSeqEmpty
  <2>4. graph.inputs \o <<>> = graph.inputs
    BY <1>2, ConcatEmptySeq
  <2>5. trail'[n + 1 + (Size + 1)] = BindingTrail[Size + 1]
    BY <1>5, <2>1, Zenon
  <2> QED
    BY <1>5, <2>1, <2>2, <2>3, <2>4, <2>5
<1> QED
  BY <1>13, <1>14

\* The binding code calls no operator.
LEMMA BindInputsStep ==
    ASSUME Inductive, BindInputs, trail' = trail \o BindingTrail, UNCHANGED runVars
    PROVE  Inductive'
<1>1. /\ LoopEnded /\ Range(simulator) \subseteq Range(graph.inputs)
      /\ code' = code \o BindingCode /\ phase' = "compiled" /\ simulator' = graph.inputs
      /\ graph' = graph /\ data' = data /\ working' = working /\ unsolved' = unsolved
  BY DEF BindInputs
<1>2. /\ Size \in Nat
      /\ BindingCode \in Seq(Instructions) /\ Len(BindingCode) = Size + 1
      /\ BindingTrail \in Seq(Seq(Nodes))
      /\ \A k \in 1 .. Size + 1 : BindingCode[k].op # "call"
  BY <1>1, BindingEntries
<1>3. code \in Seq(Instructions) /\ trail \in Seq(Seq(Nodes))
  BY DEF Inductive, TypeOK
<1>4. trail' \in Seq(Seq(Nodes))
  BY <1>2, <1>3, ConcatProperties
<1> DEFINE n == Len(code)
<1>5. /\ n \in Nat /\ DOMAIN code = 1 .. n
      /\ code' \in Seq(Instructions) /\ Len(code') = n + (Size + 1)
      /\ \A k \in 1 .. n + (Size + 1) : code'[k] = IF k <= n THEN code[k] ELSE BindingCode[k - n]
  <2>1. n \in Nat /\ DOMAIN code = 1 .. n
    BY <1>3, LenProperties
  <2>2. code' \in Seq(Instructions)
    BY <1>1, <1>2, <1>3, ConcatProperties
  <2> DEFINE b == BindingCode
             S == Instructions
             m == Size + 1
  <2>3. code \in Seq(S) /\ b \in Seq(S) /\ Len(b) = m /\ code' = code \o b
    BY <1>1, <1>2, <1>3
  <2>4. n = Len(code)
    OBVIOUS
  <2> HIDE DEF b, S, m, n
  <2>5. Len(code') = n + m
    BY <2>3, <2>4, ConcatProperties
  <2>6. \A k \in 1 .. n + m : code'[k] = IF k <= n THEN code[k] ELSE b[k - n]
    BY <2>3, <2>4, ConcatProperties
  <2> QED
    BY <2>1, <2>2, <2>5, <2>6 DEF b, m
<1>6. DOMAIN code' = 1 .. n + (Size + 1)
  BY <1>5, LenProperties
<1> HIDE DEF n
<1>7. \A k \in 1 .. n : k \in 1 .. n + (Size + 1) /\ code'[k] = code[k] /\ k \in Nat
  BY <1>2, <1>5
<1>8. \A k \in 1 .. n + (Size + 1) : code'[k].op = "call" => k \in 1 .. n
  <2> SUFFICES ASSUME NEW k \in 1 .. n + (Size + 1), k \notin 1 .. n
               PROVE  code'[k].op # "call"
    OBVIOUS
  <2>1. ~(k <= n) /\ k - n \in 1 .. Size + 1
    BY <1>2, <1>5
  <2> QED
    BY <1>2, <1>5, <2>1
<1>9. Called' = Called
  <2>1. ASSUME NEW m \in Operators
        PROVE  (\E k \in DOMAIN code' : 1 <= k /\ code'[k] = CallOf(m))
                    <=> (\E k \in DOMAIN code : 1 <= k /\ code[k] = CallOf(m))
    <3>1. ASSUME NEW k \in DOMAIN code', code'[k] = CallOf(m)
          PROVE  k \in DOMAIN code /\ code[k] = CallOf(m)
      <4>1. code'[k].op = "call"
        BY <3>1 DEF CallOf
      <4> QED
        BY <1>5, <1>6, <1>7, <1>8, <3>1, <4>1
    <3>2. ASSUME NEW k \in DOMAIN code, code[k] = CallOf(m)
          PROVE  k \in DOMAIN code' /\ code'[k] = CallOf(m)
      BY <1>5, <1>6, <1>7, <3>2
    <3> QED
      BY <3>1, <3>2
  <2> QED
    BY <2>1 DEF Called, CalledFrom
<1>10. ComputedOnce'
  <2>1. \A k, l \in DOMAIN code : code[k].op = "call" /\ code[k] = code[l] => k = l
    BY DEF Inductive, ComputedOnce
  <2>2. ASSUME NEW k \in DOMAIN code', NEW l \in DOMAIN code',
               code'[k].op = "call", code'[k] = code'[l]
        PROVE  k = l
    <3>1. k \in 1 .. n /\ l \in 1 .. n
      BY <1>6, <1>8, <2>2
    <3>2. code'[k] = code[k] /\ code'[l] = code[l]
      BY <1>7, <3>1
    <3> QED
      BY <1>5, <2>1, <2>2, <3>1, <3>2
  <2> QED
    BY <2>2, Zenon DEF ComputedOnce
<1>11. Meant' /\ trail'[Len(trail')] = graph.inputs
  BY BindingMeant
<1> QED
  BY <1>1, <1>4, <1>5, <1>9, <1>10, <1>11, CompiledStep

-----------------------------------------------------------------------------
(***************************************************************************)
(* Running the program                                                     *)
(***************************************************************************)
\* The code and what it means do not change while it runs.
LEMMA SameProgram ==
    ASSUME Inductive, UNCHANGED <<compilerVars, trail>>
    PROVE  /\ LoopInvariant' /\ Sound' /\ Complete' /\ Meant' /\ ComputedOnce'
           /\ DataStoredOnce' /\ FailsExactly'
<1>1. /\ TypeOK /\ LoopInvariant /\ Sound /\ Complete /\ Meant /\ ComputedOnce
      /\ DataStoredOnce /\ FailsExactly
  BY Zenon DEF Inductive
<1>2. /\ phase' = phase /\ graph' = graph /\ simulator' = simulator /\ working' = working
      /\ unsolved' = unsolved /\ code' = code /\ data' = data /\ trail' = trail
  BY DEF compilerVars
<1>3. /\ Called' = Called /\ Reachable' = Reachable /\ Wanted(simulator)' = Wanted(simulator)
      /\ Bindable' = Bindable /\ Unsupported' = Unsupported
  BY <1>2 DEF Called, CalledFrom, Reachable, Wanted, Bindable, Unsupported
<1>4. LoopInvariant' /\ Sound' /\ Complete'
  BY <1>1, <1>2, <1>3 DEF LoopInvariant, Sound, Complete
<1>5. Meant'
  BY <1>1, <1>2, <1>3 DEF Meant
<1>6. ComputedOnce' /\ DataStoredOnce' /\ FailsExactly'
  BY <1>1, <1>2, <1>3 DEF ComputedOnce, DataStoredOnce, FailsExactly
<1> QED
  BY <1>4, <1>5, <1>6

\* The arguments are the stack the last instruction of the block expects.
LEMMA LaunchStep ==
    ASSUME Inductive, Launch
    PROVE  Inductive'
<1>1. /\ phase = "compiled" /\ run = "idle" /\ run' = "running" /\ stack' = graph.inputs
      /\ remaining' = Len(code) /\ UNCHANGED <<compilerVars, trail>> /\ evaluated' = evaluated
      /\ phase' = phase /\ graph' = graph /\ simulator' = simulator /\ working' = working
      /\ unsolved' = unsolved /\ code' = code /\ data' = data /\ trail' = trail
  BY DEF Launch, compilerVars
<1>2. TypeOK /\ Complete /\ Meant /\ RunInvariant
  BY Zenon DEF Inductive
<1>3. graph.inputs \in Seq(Parameters) /\ code \in Seq(Instructions)
  BY <1>2 DEF TypeOK, IsGraph
<1>4. Len(code) \in Nat /\ DOMAIN code = 1 .. Len(code)
  BY <1>3, LenProperties
<1>5. graph.inputs \in Seq(Values) /\ Range(graph.inputs) \intersect Operators = {}
  <2>1. Parameters \subseteq Values
    BY DEF Values, Nodes
  <2>2. Range(graph.inputs) \subseteq Parameters
    BY <1>3, RangeElements
  <2> QED
    BY <1>3, <2>1, <2>2, SeqMonotonic, KindsAssumption
<1>6. TypeOK'
  BY <1>1, <1>2, <1>4, <1>5 DEF TypeOK
<1>7. RunInvariant'
  <2>1. evaluated = {} /\ trail[Len(code) + 1] = graph.inputs
    BY <1>1, <1>2 DEF RunInvariant, Complete, Meant
  <2>2. CalledFrom(Len(code) + 1) = {}
    BY <1>4 DEF CalledFrom
  <2>3. CalledFrom(remaining + 1)' = {}
    BY <1>1, <2>2 DEF CalledFrom
  <2> QED
    BY <1>1, <1>4, <1>5, <2>1, <2>3 DEF RunInvariant
<1> QED
  BY <1>1, <1>6, <1>7, SameProgram, Zenon DEF Inductive

\* An instruction takes the stack it expects to the one the next expects.
LEMMA RunInstructionStep ==
    ASSUME Inductive, RunInstruction
    PROVE  Inductive'
<1>1. /\ run = "running" /\ remaining > 0
      /\ CanExecute(code[remaining], stack, graph.args, data)
      /\ stack' = Execute(code[remaining], stack, graph.args, data)
      /\ remaining' = remaining - 1
      /\ evaluated' = IF code[remaining].op = "call" THEN evaluated \union {code[remaining].node}
                                                    ELSE evaluated
      /\ UNCHANGED <<compilerVars, trail>> /\ run' = run
      /\ phase' = phase /\ graph' = graph /\ simulator' = simulator /\ working' = working
      /\ unsolved' = unsolved /\ code' = code /\ data' = data /\ trail' = trail
  BY DEF RunInstruction, Instruction, compilerVars
<1>2. TypeOK /\ Meant /\ RunInvariant
  BY Zenon DEF Inductive
<1> DEFINE ins == code[remaining]
           called == {n \in Operators : ins = CallOf(n)}
<1>3. /\ code \in Seq(Instructions) /\ stack \in Seq(Values) /\ data \in Seq(Consts)
      /\ graph.args \in [Nodes -> Seq(Nodes)] /\ remaining \in Nat /\ evaluated \subseteq Operators
  BY <1>2 DEF TypeOK, IsGraph
<1>4. /\ phase = "compiled" /\ remaining <= Len(code) /\ evaluated = CalledFrom(remaining + 1)
      /\ Bindable => /\ stack = trail[remaining + 1]
                     /\ Range(stack) \intersect Operators \subseteq evaluated
  BY <1>1, <1>2 DEF RunInvariant
<1>5. /\ Len(code) \in Nat /\ DOMAIN code = 1 .. Len(code) /\ remaining \in 1 .. Len(code)
      /\ ins \in Instructions
  BY <1>1, <1>3, <1>4, LenProperties, ElementOfSeq
<1> HIDE DEF ins
<1>6. evaluated' = evaluated \union called
  <2>1. CASE ins.op = "call"
    <3>1. PICK n \in Operators : ins = CallOf(n)
      BY <1>5, <2>1, InstructionKinds
    <3>2. ins.node = n /\ called = {n}
      BY <3>1 DEF CallOf
    <3> QED
      BY <1>1, <2>1, <3>2 DEF ins
  <2>2. CASE ins.op # "call"
    <3>1. called = {}
      BY <2>2 DEF CallOf
    <3> QED
      BY <1>1, <2>2, <3>1 DEF ins
  <2> QED
    BY <2>1, <2>2
<1>7. CalledFrom(remaining) = CalledFrom(remaining + 1) \union called
  <2>1. \A l \in DOMAIN code : remaining <= l <=> remaining + 1 <= l \/ l = remaining
    BY <1>3, <1>5
  <2> QED
    BY <1>5, <2>1 DEF CalledFrom, ins
<1>8. CalledFrom(remaining + 1)' = CalledFrom(remaining)
  <2>1. remaining' + 1 = remaining
    BY <1>1, <1>3
  <2> QED
    BY <1>1, <2>1 DEF CalledFrom
<1>9. stack' \in Seq(Values)
  <2>1. /\ Consts \subseteq Values /\ Garbage \in Values
        /\ \A n \in Operators : ins = CallOf(n) => n \in Values
    BY DEF Values, Nodes
  <2> QED
    BY <1>1, <1>3, <1>5, <2>1, ExecuteType DEF ins
<1>10. Range(stack') \intersect Operators \subseteq Range(stack) \union called
  <2> DEFINE S == Range(stack) \union Consts \union {Garbage} \union called
  <2>1. stack \in Seq(S)
    <3>1. stack \in Seq(Range(stack)) /\ Range(stack) \subseteq S
      BY <1>3, SeqOfRange
    <3> HIDE DEF S
    <3> QED
      BY <3>1, SeqMonotonic
  <2>2. /\ Consts \subseteq S /\ Garbage \in S
        /\ \A n \in Operators : ins = CallOf(n) => n \in S
    OBVIOUS
  <2> HIDE DEF S
  <2>3. stack' \in Seq(S)
    BY <1>1, <1>3, <1>5, <2>1, <2>2, ExecuteType DEF ins
  <2>4. Range(stack') \subseteq S
    BY <2>3, RangeElements
  <2>5. Garbage \notin Operators
    BY GarbageAssumption DEF Nodes
  <2> QED
    BY <2>4, <2>5, KindsAssumption DEF S
<1>11. TypeOK'
  <2>1. remaining' \in Nat
    BY <1>1, <1>3
  <2>2. evaluated' \subseteq Operators
    BY <1>3, <1>6
  <2> QED
    BY <1>1, <1>2, <1>9, <2>1, <2>2 DEF TypeOK
<1>12. Bindable => stack' = trail[remaining]
  <2>1. Bindable => Execute(code[remaining], trail[remaining + 1], graph.args, data)
                        = trail[remaining]
    BY <1>2, <1>5 DEF Meant
  <2> QED
    BY <1>1, <1>4, <2>1
<1>13. RunInvariant'
  <2>1. Bindable' = Bindable
    BY <1>1 DEF Bindable
  <2>2. remaining' + 1 = remaining /\ remaining' <= Len(code')
    BY <1>1, <1>3, <1>4, <1>5
  <2>3. Bindable => stack' = trail'[remaining' + 1]
    BY <1>1, <1>12, <2>2
  <2>4. Bindable => Range(stack') \intersect Operators \subseteq evaluated'
    BY <1>4, <1>6, <1>10
  <2>5. evaluated' = CalledFrom(remaining + 1)'
    BY <1>4, <1>6, <1>7, <1>8
  <2> QED
    BY <1>1, <1>4, <2>1, <2>2, <2>3, <2>4, <2>5 DEF RunInvariant
<1> QED
  BY <1>1, <1>11, <1>13, SameProgram, Zenon DEF Inductive

\* The end of launch_online
LEMMA ReturnStep ==
    ASSUME Inductive, Return
    PROVE  Inductive'
<1>1. /\ run = "running" /\ remaining = 0 /\ run' \in {"returned", "threw"}
      /\ run' = "threw" => Len(stack) # Len(graph.outputs)
      /\ UNCHANGED <<compilerVars, trail>> /\ stack' = stack /\ remaining' = remaining
      /\ evaluated' = evaluated
      /\ phase' = phase /\ graph' = graph /\ simulator' = simulator /\ working' = working
      /\ unsolved' = unsolved /\ code' = code /\ data' = data /\ trail' = trail
  BY DEF Return, compilerVars
<1>2. TypeOK /\ RunInvariant
  BY Zenon DEF Inductive
<1>3. TypeOK'
  BY <1>1, <1>2 DEF TypeOK
<1>4. RunInvariant'
  <2>1. Bindable' = Bindable /\ CalledFrom(remaining + 1)' = CalledFrom(remaining + 1)
    BY <1>1 DEF Bindable, CalledFrom
  <2> QED
    BY <1>1, <1>2, <2>1 DEF RunInvariant
<1> QED
  BY <1>1, <1>3, <1>4, SameProgram, Zenon DEF Inductive

-----------------------------------------------------------------------------
(***************************************************************************)
(* The invariant holds initially and is kept by every step.                *)
(***************************************************************************)
LEMMA InitInductive ==
    ASSUME Init
    PROVE  Inductive
<1>1. PICK g \in Graphs : InitOn(g)
  BY DEF Init, CompilerInit
<1>2. /\ graph = g /\ phase = "compiling" /\ simulator = graph.outputs
      /\ working = Track([n \in Nodes |-> Untracked], 0, graph.outputs)
      /\ unsolved = UnsolvedIn(graph.outputs) /\ code = <<>> /\ data = <<>>
      /\ trail = <<simulator>> /\ run = "idle" /\ stack = <<>> /\ remaining = 0 /\ evaluated = {}
  BY <1>1 DEF Init, InitOn
<1>3. IsGraph(graph) /\ graph.outputs \in Seq(Nodes)
  <2>1. IsGraph(graph)
    BY <1>2, GraphsAssumption
  <2> QED
    BY <2>1 DEF IsGraph
<1>4. working \in [Nodes -> Int] /\ Tracked(working, simulator)
  <2> DEFINE none == [n \in Nodes |-> Untracked]
  <2>1. none \in [Nodes -> Int] /\ Tracked(none, <<>>) /\ <<>> \in Seq(Nodes) /\ Len(<<>>) = 0
    BY TrackedEmpty, EmptySeq
  <2>2. working = Track(none, 0, graph.outputs)
    BY <1>2
  <2> HIDE DEF none
  <2>3. /\ Track(none, Len(<<>>), graph.outputs) \in [Nodes -> Int]
        /\ Tracked(Track(none, Len(<<>>), graph.outputs), <<>> \o graph.outputs)
    BY <1>3, <2>1, TrackedAfterPush
  <2>4. <<>> \o graph.outputs = graph.outputs
    BY <1>3, ConcatEmptySeq
  <2> QED
    BY <1>2, <2>1, <2>2, <2>3, <2>4
<1>5. TypeOK
  <2>1. working \in [Nodes -> Nat \union {Untracked}]
    BY <1>2, <1>3, <1>4, TrackedType
  <2>2. unsolved \in Nat
    BY <1>2, <1>3, UnsolvedFinite
  <2>3. code \in Seq(Instructions) /\ data \in Seq(Consts) /\ stack \in Seq(Values)
    BY <1>2, EmptySeq
  <2>4. trail \in Seq(Seq(Nodes))
    BY <1>2, <1>3
  <2> QED
    BY <1>2, <1>3, <2>1, <2>2, <2>3, <2>4 DEF TypeOK
<1>6. Called = {} /\ Range(data) = {} /\ DOMAIN code = {} /\ DOMAIN data = {} /\ Len(code) = 0
  BY <1>2, RangeOfEmpty DEF Called, CalledFrom
<1>7. trail[1] = simulator /\ Len(trail) = 1
  BY <1>2
<1>8. Wanted(simulator) = Reachable
  BY <1>2 DEF Wanted, Reachable
<1>9. LoopInvariant
  BY <1>2, <1>4, <1>6, <1>7, <1>8 DEF LoopInvariant
<1>10. Sound /\ Complete /\ Meant
  BY <1>2, <1>6, <1>7, <1>8 DEF Sound, Complete, Meant
<1>11. ComputedOnce /\ DataStoredOnce /\ FailsExactly /\ RunInvariant
  BY <1>2, <1>6 DEF ComputedOnce, DataStoredOnce, FailsExactly, RunInvariant
<1> QED
  BY <1>5, <1>9, <1>10, <1>11, Zenon DEF Inductive

\* One step of compile, of launch_online or of neither
LEMMA NextInductive ==
    ASSUME Inductive, [Next]_vars
    PROVE  Inductive'
<1>1. CASE CompileTurn
  BY <1>1, TurnStep
<1>2. CASE CompileEnd
  <2>1. UNCHANGED runVars
    BY <1>2 DEF CompileEnd
  <2>2. CASE RejectInputs /\ UNCHANGED trail
    BY <2>1, <2>2, RejectInputsStep
  <2>3. CASE Satisfied /\ UNCHANGED trail
    BY <2>1, <2>3, SatisfiedStep
  <2>4. CASE BindInputs /\ trail' = trail \o BindingTrail
    BY <2>1, <2>4, BindInputsStep
  <2> QED
    BY <1>2, <2>2, <2>3, <2>4 DEF CompileEnd
<1>3. CASE Launch
  BY <1>3, LaunchStep
<1>4. CASE RunInstruction
  BY <1>4, RunInstructionStep
<1>5. CASE Return
  BY <1>5, ReturnStep
<1>6. CASE UNCHANGED vars
  <2>1. /\ UNCHANGED <<compilerVars, trail>> /\ run' = run /\ stack' = stack
        /\ remaining' = remaining /\ evaluated' = evaluated
        /\ phase' = phase /\ graph' = graph /\ simulator' = simulator /\ working' = working
        /\ unsolved' = unsolved /\ code' = code /\ data' = data /\ trail' = trail
    BY <1>6 DEF vars, compilerVars, runVars
  <2>2. TypeOK /\ RunInvariant
    BY Zenon DEF Inductive
  <2>3. TypeOK'
    BY <2>1, <2>2 DEF TypeOK
  <2>4. Bindable' = Bindable /\ CalledFrom(remaining + 1)' = CalledFrom(remaining + 1)
    BY <2>1 DEF Bindable, CalledFrom
  <2>5. RunInvariant'
    BY <2>1, <2>2, <2>4 DEF RunInvariant
  <2> QED
    BY <2>1, <2>3, <2>5, SameProgram, Zenon DEF Inductive
<1> QED
  BY <1>1, <1>2, <1>3, <1>4, <1>5, <1>6 DEF Next, Stop

\* The inductive invariant holds in every state of every compilation and run.
THEOREM InductiveInvariant == Spec => []Inductive
<1>1. Init => Inductive
  BY InitInductive
<1>2. Inductive /\ [Next]_vars => Inductive'
  BY NextInductive
<1> QED
  BY <1>1, <1>2, PTL DEF Spec

\* Type correctness of the compiler and of the running program
THEOREM TypeCorrect == Spec => []TypeOK
<1>1. Inductive => TypeOK
  BY DEF Inductive
<1> QED
  BY <1>1, InductiveInvariant, PTL

\* The bookkeeping of the loop, working_nodes and unsolved_node_count, is exact.
THEOREM BookkeepingExact == Spec => [](TrackedIsFirst /\ UnsolvedIsExact)
<1>1. Inductive => TrackedIsFirst /\ UnsolvedIsExact
  BY DEF Inductive, LoopInvariant, TrackedIsFirst, UnsolvedIsExact
<1> QED
  BY <1>1, InductiveInvariant, PTL

\* No operator is computed twice.
THEOREM NoRepeatedComputation == Spec => []ComputedOnce
<1>1. Inductive => ComputedOnce
  BY DEF Inductive
<1> QED
  BY <1>1, InductiveInvariant, PTL

\* compile throws exactly for the graphs it cannot serve.
THEOREM FailureExact == Spec => []FailsExactly
<1>1. Inductive => FailsExactly
  BY DEF Inductive
<1> QED
  BY <1>1, InductiveInvariant, PTL

\* Every Const is stored once, and only if the outputs need it.
THEOREM DataStored == Spec => []DataStoredOnce
<1>1. Inductive => DataStoredOnce
  BY DEF Inductive
<1> QED
  BY <1>1, InductiveInvariant, PTL

\* Instructions never leave the stack or miss an argument.
THEOREM InstructionsInStep == Spec => []RunFollowsTrail
<1>1. ASSUME Inductive  PROVE RunFollowsTrail
  <2>1. SUFFICES ASSUME Bindable, run # "idle"
                 PROVE  /\ stack = trail[remaining + 1]
                        /\ remaining > 0 => CanExecute(code[remaining], stack, graph.args, data)
    BY DEF RunFollowsTrail, Instruction
  <2>2. /\ remaining <= Len(code) /\ stack = trail[remaining + 1]
        /\ remaining \in Nat /\ code \in Seq(Instructions)
    BY <1>1, <2>1 DEF Inductive, RunInvariant, TypeOK
  <2>3. ASSUME remaining > 0  PROVE CanExecute(code[remaining], stack, graph.args, data)
    <3>1. remaining \in DOMAIN code
      BY <2>2, <2>3, LenProperties
    <3> QED
      BY <1>1, <2>1, <2>2, <3>1 DEF Inductive, Meant
  <2> QED
    BY <2>2, <2>3
<1> QED
  BY <1>1, InductiveInvariant, PTL

\* In a finished run every operator the outputs need has been evaluated.
LEMMA ReturnedAll ==
    ASSUME Inductive, Bindable, run # "idle", remaining = 0
    PROVE  stack = graph.outputs /\ evaluated = Reachable \intersect Operators
<1>1. /\ stack = trail[0 + 1] /\ evaluated = CalledFrom(0 + 1) /\ phase = "compiled"
  BY DEF Inductive, RunInvariant
<1>2. trail[1] = graph.outputs
  BY DEF Inductive, Meant
<1>3. evaluated = Called
  BY <1>1 DEF Called
<1>4. /\ Called \subseteq Reachable /\ IsGraph(graph) /\ simulator = graph.inputs
      /\ Reachable \subseteq Called \union Range(data) \union Wanted(simulator)
      /\ data \in Seq(Consts) /\ graph.inputs \in Seq(Parameters)
  BY <1>1 DEF Inductive, Sound, Complete, TypeOK, IsGraph
<1>5. Called \subseteq Operators
  BY DEF Called, CalledFrom
<1>6. Range(data) \subseteq Consts /\ Range(graph.inputs) \subseteq Parameters
      /\ graph.inputs \in Seq(Nodes)
  BY <1>4, RangeElements, SeqMonotonic DEF Nodes
<1>7. Wanted(simulator) = Range(graph.inputs)
  <2>1. Range(graph.inputs) \intersect Operators = {}
    BY <1>6, KindsAssumption
  <2> QED
    BY <1>4, <1>6, <2>1, WantedOfLeaves DEF Wanted
<1>8. Reachable \intersect Operators \subseteq Called
  BY <1>4, <1>6, <1>7, KindsAssumption
<1> QED
  BY <1>1, <1>2, <1>3, <1>4, <1>5, <1>8

\* The program computes the outputs.
THEOREM OutputsCorrect == Spec => []ReturnsOutputs
<1>1. ASSUME Inductive  PROVE ReturnsOutputs
  <2>1. SUFFICES ASSUME Bindable, run \in {"returned", "threw"}
                 PROVE  /\ run = "returned"
                        /\ stack = graph.outputs
                        /\ evaluated = Reachable \intersect Operators
    BY DEF ReturnsOutputs
  <2>2. remaining = 0 /\ (run = "threw" => Len(stack) # Len(graph.outputs))
    BY <1>1, <2>1 DEF Inductive, RunInvariant
  <2> QED
    BY <1>1, <2>1, <2>2, ReturnedAll
<1> QED
  BY <1>1, InductiveInvariant, PTL

-----------------------------------------------------------------------------
(***************************************************************************)
(* Compiling and running a Bindable graph implements its evaluation.       *)
(***************************************************************************)
\* An operator whose value is not Garbage found its inputs on the stack.
LEMMA CallFoundArguments ==
    ASSUME NEW cells \in Seq(Values), NEW n \in Operators, NEW args, NEW d,
           args[n] \in Seq(Nodes), args[n] # <<>>,
           CanExecute(CallOf(n), cells, args, d),
           Execute(CallOf(n), cells, args, d) \in Seq(Nodes)
    PROVE  Range(args[n]) \subseteq Range(cells)
<1> DEFINE m == Len(args[n])
           s == SubSeq(cells, 1, Len(cells) - m)
           t == TopCells(cells, m)
           r == ResultOf(n, args[n], cells)
<1>1. m \in Nat /\ m > 0 /\ Len(cells) \in Nat
  BY LenProperties, EmptySeq
<1>2. m <= Len(cells)
  BY ExecuteCall, Zenon
<1>3. Execute(CallOf(n), cells, args, d) = ReplaceArguments(cells, 0, m, r)
  BY ExecuteCall, Zenon
<1>4. s \in Seq(Values) /\ t \in Seq(Values) /\ Len(t) = m /\ cells = s \o t
  <2> DEFINE k == Len(cells) - m
             l == Len(cells)
  <2>1. k \in Nat /\ l \in Nat /\ k <= l /\ l - k = m
    BY <1>1, <1>2
  <2>2. s = SubSeq(cells, 1, k) /\ t = SubSeq(cells, k + 1, l)
    BY DEF TopCells
  <2>3. l = Len(cells)
    OBVIOUS
  <2> HIDE DEF k, l, s, t
  <2>4. s \in Seq(Values) /\ t \in Seq(Values) /\ Len(s) = k /\ Len(t) = l - k
    BY <2>1, <2>2, <2>3, SubSeqProperties
  <2>5. cells = s \o t
    <3>1. cells = SubSeq(cells, 1, l)
      BY <2>3, SubSeqFull
    <3>2. 1 \in 1 .. Len(cells) + 1 /\ k \in 1 - 1 .. Len(cells) /\ l \in k .. Len(cells)
      BY <2>1, <2>3
    <3>3. SubSeq(cells, 1, k) \o SubSeq(cells, k + 1, l) = SubSeq(cells, 1, l)
      BY <3>2, ConcatAdjacentSubSeq
    <3> QED
      BY <2>2, <3>1, <3>3
  <2> QED
    BY <2>1, <2>4, <2>5
<1>5. r \in Values
  BY DEF ResultOf, Values, Nodes
<1>6. t # <<>>
  BY <1>1, <1>4, EmptySeq
<1> HIDE DEF s, t, r
<1>7. ReplaceArguments(cells, 0, m, r) = Append(s, r)
  <2>1. ReplaceArguments(s \o t, 0, Len(t), r) = Append(s, r)
    BY <1>4, <1>5, <1>6, ReplaceArgumentsCells
  <2> QED
    BY <1>4, <2>1
<1>8. r \in Nodes
  <2>1. Append(s, r) \in Seq(Nodes)
    BY <1>3, <1>7
  <2>2. Len(Append(s, r)) = Len(s) + 1 /\ Append(s, r)[Len(s) + 1] = r /\ Len(s) \in Nat
    BY <1>4, <1>5, AppendProperties, LenProperties
  <2>3. Len(s) + 1 \in 1 .. Len(Append(s, r))
    BY <2>2
  <2> QED
    BY <2>1, <2>2, <2>3, ElementOfSeq
<1>9. t = args[n]
  BY <1>8, GarbageAssumption DEF r, t, ResultOf
<1>10. Range(cells) = Range(s) \union Range(t)
  BY <1>4, RangeConcatenation
<1> QED
  BY <1>9, <1>10

\* Needed, as the two modules define it
LEMMA NeededIsReachable == Evaluation!Needed = Reachable \intersect Operators
<1>1. Evaluation!Range(graph.outputs) = Range(graph.outputs)
  BY DEF Range, Evaluation!Range
<1>2. Reachable = UNION {{n} \union graph.refs[n] : n \in Range(graph.outputs)}
  BY DEF Reachable, Wanted, WantedIn
<1>3. Evaluation!Needed
        = Operators \intersect UNION {{n} \union graph.refs[n] : n \in Evaluation!Range(graph.outputs)}
  BY DEF Evaluation!Needed
<1> QED
  BY <1>1, <1>2, <1>3

\* The operator that runs is needed, is new, and its inputs were evaluated.
LEMMA RunInstructionEvaluates ==
    ASSUME Inductive, Bindable, RunInstruction, Instruction.op = "call"
    PROVE  \E n \in Operators : Evaluation!Evaluate(n)
<1>1. /\ run = "running" /\ remaining > 0
      /\ CanExecute(code[remaining], stack, graph.args, data)
      /\ stack' = Execute(code[remaining], stack, graph.args, data)
      /\ evaluated' = evaluated \union {code[remaining].node}
      /\ run' = run /\ graph' = graph /\ code[remaining].op = "call"
  BY DEF RunInstruction, Instruction, compilerVars
<1>2. TypeOK /\ Meant /\ RunInvariant /\ Sound /\ ComputedOnce
  BY Zenon DEF Inductive
<1>3. /\ code \in Seq(Instructions) /\ stack \in Seq(Values) /\ trail \in Seq(Seq(Nodes))
      /\ remaining \in Nat /\ IsGraph(graph)
  BY <1>2 DEF TypeOK
<1>4. /\ phase = "compiled" /\ remaining <= Len(code) /\ evaluated = CalledFrom(remaining + 1)
      /\ stack = trail[remaining + 1]
      /\ Range(stack) \intersect Operators \subseteq evaluated
  BY <1>1, <1>2 DEF RunInvariant
<1>5. /\ Len(code) \in Nat /\ DOMAIN code = 1 .. Len(code) /\ remaining \in 1 .. Len(code)
      /\ code[remaining] \in Instructions
  BY <1>1, <1>3, <1>4, LenProperties, ElementOfSeq
<1>6. PICK n \in Operators : code[remaining] = CallOf(n)
  BY <1>1, <1>5, InstructionKinds
<1>7. code[remaining].node = n
  BY <1>6 DEF CallOf
<1>8. n \in Reachable
  <2>1. n \in Called
    BY <1>5, <1>6 DEF Called, CalledFrom
  <2> QED
    BY <1>2, <2>1 DEF Sound
<1>9. n \notin evaluated
  <2> SUFFICES ASSUME NEW l \in DOMAIN code, remaining + 1 <= l, code[l] = CallOf(n)
               PROVE  FALSE
    BY <1>4 DEF CalledFrom
  <2>1. l = remaining
    BY <1>1, <1>2, <1>5, <1>6 DEF ComputedOnce
  <2> QED
    BY <1>3, <2>1
<1>10. /\ graph.args[n] \in Seq(Nodes) /\ graph.args[n] # <<>>
  <2>1. n \in Nodes /\ graph.args \in [Nodes -> Seq(Nodes)]
        /\ ~(Range(graph.args[n]) \subseteq Consts)
    BY <1>3, <1>6 DEF IsGraph, Nodes
  <2> QED
    BY <2>1, RangeOfEmpty
<1>11. stack' \in Seq(Nodes)
  <2>1. Execute(code[remaining], trail[remaining + 1], graph.args, data) = trail[remaining]
        /\ Len(trail) = Len(code) + 1
    BY <1>2, <1>5 DEF Meant
  <2>2. remaining \in 1 .. Len(trail)
    BY <1>5, <2>1
  <2>3. trail[remaining] \in Seq(Nodes)
    BY <1>3, <2>2, ElementOfSeq
  <2> QED
    BY <1>1, <1>4, <2>1, <2>3
<1>12. Range(graph.args[n]) \subseteq Range(stack)
  BY <1>1, <1>3, <1>6, <1>10, <1>11, CallFoundArguments
<1>13. Range(graph.args[n]) \intersect Operators \subseteq evaluated
  BY <1>4, <1>12
<1>14. n \in Evaluation!Needed
  BY <1>6, <1>8, NeededIsReachable
<1>15. Answer = <<>> /\ Answer' = <<>>
  BY <1>1 DEF Answer
<1> QED
  BY <1>1, <1>6, <1>7, <1>9, <1>13, <1>14, <1>15 DEF Evaluation!Evaluate, Range, Evaluation!Range

\* Every step is a step of the evaluation, or does not change its variables.
LEMMA EvaluationStep ==
    ASSUME Inductive, Bindable, [Next]_vars
    PROVE  [Evaluation!Next]_(Evaluation!dataflowVars)
<1>1. TypeOK /\ RunInvariant
  BY Zenon DEF Inductive
<1>2. CASE CompileTurn \/ CompileEnd
  <2>1. UNCHANGED <<graph, run, stack, evaluated>>
    BY <1>2 DEF CompileTurn, CompileEnd, Turn, CopyDuplicate, LoadConst, SinkParameter,
                PostponeReferenced, EmitOperator, RejectOperator, RejectInputs, Satisfied,
                BindInputs, SwapTopWith, Fail, runVars
  <2> QED
    BY <2>1 DEF Evaluation!dataflowVars, Answer
<1>3. CASE Launch
  BY <1>3 DEF Launch, compilerVars, Evaluation!dataflowVars, Answer
<1>4. CASE RunInstruction
  <2>1. CASE Instruction.op = "call"
    BY <1>4, <2>1, RunInstructionEvaluates DEF Evaluation!Next
  <2>2. CASE Instruction.op # "call"
    BY <1>4, <2>2 DEF RunInstruction, compilerVars, Evaluation!dataflowVars, Answer
  <2> QED
    BY <2>1, <2>2
<1>5. CASE Return
  <2>1. /\ run = "running" /\ remaining = 0
        /\ stack' = stack /\ evaluated' = evaluated /\ graph' = graph
    BY <1>5 DEF Return, compilerVars
  <2>2. stack = graph.outputs /\ evaluated = Reachable \intersect Operators
    BY <2>1, ReturnedAll
  <2>5. run' = "returned"
    BY <1>5, <2>2 DEF Return
  <2>3. evaluated = Evaluation!Needed
    BY <2>2, NeededIsReachable
  <2>4. Answer = <<>> /\ Answer' = <<graph.outputs>>
    BY <2>5, <2>1, <2>2 DEF Answer
  <2> QED
    BY <2>1, <2>3, <2>4 DEF Evaluation!Deliver, Evaluation!Next
<1>6. CASE UNCHANGED vars
  BY <1>6 DEF vars, compilerVars, runVars, Evaluation!dataflowVars, Answer
<1> QED
  BY <1>2, <1>3, <1>4, <1>5, <1>6 DEF Next, Stop

\* No step changes the graph.
LEMMA GraphUnchanged ==
    ASSUME [Next]_vars
    PROVE  graph' = graph
BY DEF Next, CompileTurn, CompileEnd, Turn, CopyDuplicate, LoadConst, SinkParameter,
       PostponeReferenced, EmitOperator, RejectOperator, RejectInputs, Satisfied, BindInputs,
       SwapTopWith, Fail, Launch, RunInstruction, Return, Stop, vars, compilerVars

\* For graphs whose inputs the binding code serves, compile followed by
\* launch_online is an evaluation of the graph: each operator that is needed
\* once, after its inputs, and the outputs in order.
THEOREM ImplementsEvaluation ==
    ASSUME \A g \in Graphs : IsBindable(g)
    PROVE  Spec => EvaluatesGraph
<1>1. Init => Bindable /\ Evaluation!Init
  BY DEF Init, CompilerInit, InitOn, Bindable, Evaluation!Init, Answer
<1>2. Bindable /\ [Next]_vars => Bindable'
  BY GraphUnchanged DEF Bindable
<1>3. Inductive /\ Bindable /\ [Next]_vars => [Evaluation!Next]_(Evaluation!dataflowVars)
  BY EvaluationStep
<1> QED
  BY <1>1, <1>2, <1>3, InductiveInvariant, PTL DEF Spec, EvaluatesGraph, Evaluation!Spec
=============================================================================
