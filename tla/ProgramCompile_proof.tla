------------------------- MODULE ProgramCompile_proof -------------------------
(***************************************************************************)
(* Proofs about NodeRefs and ProgramCompile.                               *)
(*                                                                         *)
(* NodeRefs: for graphs of any size and shape, the schedule of             *)
(* Module::list_reference_nodes has inputs before the nodes that use them, *)
(* so build_node_refs, in one pass, finds all references.                  *)
(*                                                                         *)
(* ProgramCompile: for modules of any size and shape, with any options,    *)
(* compiled any number of times, the translator, the zipper and the        *)
(* folding leave a graph that the loop of Compiler::compile can be given.  *)
(* They change no result of a module without packing and without a         *)
(* variance to raise.                                                      *)
(***************************************************************************)
EXTENDS ProgramCompile, TLAPS, SequenceTheorems, FiniteSetTheorems

\* What a sequence holds is in front or behind.
LEMMA RangeOfTail ==
    ASSUME NEW S, NEW s \in Seq(S), s # <<>>
    PROVE  /\ Head(s) \in S /\ Head(s) = s[1] /\ 1 \in DOMAIN s
           /\ Tail(s) \in Seq(S)
           /\ Range(s) = {Head(s)} \union Range(Tail(s))
           /\ \A i \in DOMAIN Tail(s) : Tail(s)[i] = s[i + 1] /\ i + 1 \in DOMAIN s
           /\ \A i \in DOMAIN s : i = 1 \/ (i - 1 \in DOMAIN Tail(s) /\ Tail(s)[i - 1] = s[i])
<1>1. /\ Head(s) \in S /\ Tail(s) \in Seq(S) /\ Len(Tail(s)) = Len(s) - 1
      /\ \A i \in 1 .. Len(Tail(s)) : Tail(s)[i] = s[i + 1]
  BY HeadTailProperties
<1>2. Len(s) \in Nat /\ DOMAIN s = 1 .. Len(s) /\ DOMAIN Tail(s) = 1 .. Len(Tail(s))
  BY <1>1, LenProperties
<1>3. Len(s) # 0
  BY EmptySeq
<1>4. Head(s) = s[1] /\ 1 \in DOMAIN s
  BY <1>2, <1>3
<1>5. \A i \in DOMAIN Tail(s) : Tail(s)[i] = s[i + 1] /\ i + 1 \in DOMAIN s
  BY <1>1, <1>2
<1>6. ASSUME NEW i \in DOMAIN s, i # 1
      PROVE  i - 1 \in DOMAIN Tail(s) /\ Tail(s)[i - 1] = s[i]
  <2>1. i \in Nat /\ i - 1 \in 1 .. Len(Tail(s)) /\ (i - 1) + 1 = i
    BY <1>1, <1>2, <1>6
  <2> QED
    BY <2>1, <1>1, <1>2
<1>7. Range(s) = {Head(s)} \union Range(Tail(s))
  <2>1. ASSUME NEW x \in Range(s) PROVE x \in {Head(s)} \union Range(Tail(s))
    <3>1. PICK i \in DOMAIN s : x = s[i]
      BY DEF Range
    <3> QED
      BY <3>1, <1>4, <1>6 DEF Range
  <2>2. ASSUME NEW x \in Range(Tail(s)) PROVE x \in Range(s)
    BY <1>5 DEF Range
  <2>3. Head(s) \in Range(s)
    BY <1>4 DEF Range
  <2> QED
    BY <2>1, <2>2, <2>3
<1> QED
  BY <1>1, <1>4, <1>5, <1>6, <1>7

\* One more element at the end
LEMMA RangeOfAppend ==
    ASSUME NEW S, NEW s \in Seq(S), NEW x \in S
    PROVE  Append(s, x) \in Seq(S) /\ Range(Append(s, x)) = Range(s) \union {x}
<1>1. Append(s, x) = s \o <<x>> /\ <<x>> \in Seq(S) /\ Append(s, x) \in Seq(S)
  BY AppendIsConcat, AppendProperties
<1>2. Range(<<x>>) = {x}
  BY DEF Range
<1>3. Range(s \o <<x>>) = Range(s) \union Range(<<x>>)
  <2> DEFINE t == <<x>>
  <2>1. t \in Seq(S)
    BY <1>1
  <2> HIDE DEF t
  <2>2. Range(s \o t) = Range(s) \union Range(t)
    BY <2>1, RangeConcatenation
  <2> QED
    BY <2>2 DEF t
<1> QED
  BY <1>1, <1>2, <1>3

\* The elements of a sequence are in the set it is over.
LEMMA RangeWithin ==
    ASSUME NEW S, NEW s \in Seq(S)
    PROVE  /\ Range(s) \subseteq S
           /\ DOMAIN s = 1 .. Len(s) /\ Len(s) \in Nat
           /\ \A i \in DOMAIN s : s[i] \in S /\ s[i] \in Range(s)
<1>1. DOMAIN s = 1 .. Len(s) /\ Len(s) \in Nat /\ \A i \in 1 .. Len(s) : s[i] \in S
  BY LenProperties, ElementOfSeq
<1> QED
  BY <1>1 DEF Range

\* What a sequence over S holds, a sequence over a larger set holds.
LEMMA SeqWithin ==
    ASSUME NEW S, NEW T, S \subseteq T, NEW s \in Seq(S)
    PROVE  s \in Seq(T)
BY SeqMonotonic

-----------------------------------------------------------------------------
\* What the walk reads of the graph
LEMMA GraphShape ==
    ASSUME IsLinked(graph)
    PROVE  /\ graph.outputs \in Seq(Nodes)
           /\ \A n \in Nodes : /\ Inputs(n) \in Seq(Nodes)
                               /\ n \notin Range(Inputs(n))
BY DEF IsLinked, Inputs, Nodes

\* The depth of one node changes, or a node is reached.
LEMMA DepthGrows ==
    ASSUME TypeOK, NEW n \in Nodes, NEW d \in Nat, depth' = WithDepth(n, d)
    PROVE  /\ Reached' = Reached \union {n}
           /\ Reached' \subseteq Nodes
           /\ depth'[n] = d
           /\ \A m \in Reached \ {n} : depth'[m] = depth[m]
           /\ \A m \in Reached' : depth'[m] \in Nat
BY DEF TypeOK, WithDepth, Reached

\* A node is queued.
LEMMA WalkerGrows ==
    ASSUME TypeOK, NEW n \in Nodes, Reached' = Reached \union {n}, walker' = Append(walker, n)
    PROVE  walker' \in Seq(Reached') /\ Range(walker') = Range(walker) \union {n}
<1>1. walker \in Seq(Reached')
  BY SeqWithin, Reached \subseteq Reached' DEF TypeOK
<1> QED
  BY <1>1, n \in Reached', RangeOfAppend

\* The schedule is over a set that grows.
LEMMA ScheduleWithin ==
    ASSUME TypeOK, Reached \subseteq Reached', UNCHANGED <<schedule, refs>>
    PROVE  /\ schedule' \in Seq(Reached')
           /\ DOMAIN refs' \subseteq Reached'
           /\ \A n \in DOMAIN refs' : refs'[n] \subseteq Reached'
<1>1. schedule \in Seq(Reached')
  BY SeqWithin DEF TypeOK
<1> QED
  BY <1>1 DEF TypeOK

\* Nothing is reached before list_reference_nodes starts, whatever the graph.
LEMMA InitForInductive ==
    ASSUME NEW g, IsLinked(g), InitFor(g)
    PROVE  Inductive
<1>1. Reached = {} /\ DOMAIN refs = {} /\ DOMAIN schedule = {}
  BY DEF InitFor, Reached
<1>2. TypeOK
  BY <1>1, EmptySeq DEF InitFor, TypeOK
<1>3. InputsDeeper
  BY <1>1 DEF InputsDeeper
<1>4. RefsSolved /\ ScheduleSorted
  BY <1>1 DEF InitFor, RefsSolved, ScheduleSorted
<1> QED
  BY <1>2, <1>3, <1>4 DEF Inductive

\* The graphs of NodeRefs are such graphs.
LEMMA InitInductive == Init => Inductive
BY InitForInductive, GraphsAssumption DEF Init

-----------------------------------------------------------------------------
(***************************************************************************)
(* The walk                                                                *)
(***************************************************************************)
\* A node that becomes deeper is queued, so only nodes above it see the
\* change, and their inputs are still deeper.
LEMMA DeeperWhenQueued ==
    ASSUME Inductive, NEW n \in Nodes, NEW d \in Nat,
           depth' = WithDepth(n, d), walker' = Append(walker, n),
           n \in Reached => depth[n] < d,
           graph' = graph, pc' = pc, node' = node, position' = position + 1,
           pc = "walking" => /\ node # n /\ d = depth[node] + 1
                             /\ position \in DOMAIN Inputs(node) /\ Inputs(node)[position] = n
    PROVE  InputsDeeper'
<1>1. TypeOK /\ InputsDeeper
  BY DEF Inductive
<1>2. /\ Reached' = Reached \union {n} /\ depth'[n] = d
      /\ \A m \in Reached \ {n} : depth'[m] = depth[m]
  BY <1>1, DepthGrows
<1>3. Range(walker') = Range(walker) \union {n}
  BY <1>1, <1>2, WalkerGrows
<1>4. \A m \in Reached : depth[m] \in Nat /\ depth'[m] \in Nat /\ depth'[m] >= depth[m]
  BY <1>1, <1>2 DEF TypeOK
<1> SUFFICES ASSUME NEW k \in Reached', NEW i \in DOMAIN Inputs(k), Settled(k, i)'
             PROVE  Inputs(k)[i] \in Reached' /\ depth'[Inputs(k)[i]] > depth'[k]
  BY DEF InputsDeeper, Inputs
<1>5. k \notin Range(walker) /\ k # n /\ k \in Reached /\ depth'[k] = depth[k]
  BY <1>2, <1>3 DEF Settled
<1>6. i \in Nat
  <2>1. k \in Nodes /\ IsLinked(graph)
    BY <1>1, <1>5 DEF TypeOK
  <2> QED
    BY <2>1, GraphShape, RangeWithin
<1>7. CASE Settled(k, i)
  <2>1. Inputs(k)[i] \in Reached /\ depth[Inputs(k)[i]] > depth[k]
    BY <1>1, <1>5, <1>7 DEF InputsDeeper
  <2>2. depth[k] \in Nat
    BY <1>4, <1>5
  <2>3. \A x, y, z \in Nat : x >= y /\ y > z => x > z
    OBVIOUS
  <2> QED
    BY <2>1, <2>2, <2>3, <1>2, <1>4, <1>5
<1>8. CASE ~Settled(k, i)
  <2>1. pc = "walking" /\ k = node /\ ~(i < position) /\ i < position + 1
    BY <1>5, <1>8 DEF Settled
  <2>2. i = position
    BY <2>1, <1>1, <1>6 DEF TypeOK
  <2>3. Inputs(k)[i] = n /\ d = depth[k] + 1 /\ depth[k] \in Nat
    BY <2>1, <2>2, <1>4, <1>5
  <2> QED
    BY <2>3, <1>2, <1>5
<1> QED
  BY <1>7, <1>8

\* Queueing a node leaves everything well typed.
LEMMA TypesWhenQueued ==
    ASSUME Inductive, NEW n \in Nodes, NEW d \in Nat,
           depth' = WithDepth(n, d), walker' = Append(walker, n), position' = position + 1,
           UNCHANGED <<graph, pc, node, schedule, refs>>
    PROVE  TypeOK'
<1>1. TypeOK
  BY DEF Inductive
<1>2. /\ Reached' = Reached \union {n} /\ Reached' \subseteq Nodes
      /\ \A m \in Reached' : depth'[m] \in Nat
  BY <1>1, DepthGrows
<1>3. walker' \in Seq(Reached')
  BY <1>1, <1>2, WalkerGrows
<1>4. /\ schedule' \in Seq(Reached') /\ DOMAIN refs' \subseteq Reached'
      /\ \A m \in DOMAIN refs' : refs'[m] \subseteq Reached'
  BY <1>1, <1>2, ScheduleWithin
<1>5. /\ IsLinked(graph') /\ pc' \in {"seeding", "walking", "scheduled", "done"}
      /\ position' \in Nat \ {0}
      /\ (pc' = "walking" => node' \in Reached')
  BY <1>1, <1>2 DEF TypeOK
<1> QED
  BY <1>2, <1>3, <1>4, <1>5 DEF TypeOK, Nodes

\* While the graph is walked there is no schedule and there are no refs.
LEMMA NothingScheduled ==
    ASSUME Inductive, pc \in {"seeding", "walking"}, pc' \in {"seeding", "walking"},
           UNCHANGED <<graph, schedule, refs>>
    PROVE  RefsSolved' /\ ScheduleSorted'
<1>1. schedule = <<>> /\ refs = <<>>
  BY DEF Inductive, ScheduleSorted
<1>2. DOMAIN refs' = {} /\ DOMAIN schedule' = {}
  BY <1>1
<1>3. RefsSolved'
  BY <1>2 DEF RefsSolved
<1>4. ScheduleSorted'
  BY <1>1, <1>2 DEF ScheduleSorted
<1> QED
  BY <1>3, <1>4

\* An output is reached, or was before.
LEMMA SeedKeeps == Inductive /\ Seed => Inductive'
<1> SUFFICES ASSUME Inductive, Seed PROVE Inductive'
  OBVIOUS
<1> DEFINE n == graph.outputs[position]
<1>1. TypeOK /\ InputsDeeper
  BY DEF Inductive
<1>2. /\ pc = "seeding" /\ position <= Len(graph.outputs) /\ position' = position + 1
      /\ UNCHANGED <<graph, pc, node, schedule, refs>>
      /\ IF n \in Reached THEN UNCHANGED <<depth, walker>>
         ELSE depth' = WithDepth(n, 1) /\ walker' = Append(walker, n)
  BY DEF Seed
<1>3. n \in Nodes
  <2>1. graph.outputs \in Seq(Nodes) /\ position \in Nat \ {0}
    BY <1>1, GraphShape DEF TypeOK
  <2>2. position \in 1 .. Len(graph.outputs)
    BY <1>2, <2>1, LenProperties
  <2> QED
    BY <2>1, <2>2, ElementOfSeq
<1> HIDE DEF n
<1>4. RefsSolved' /\ ScheduleSorted'
  BY <1>2, NothingScheduled
<1>5. CASE n \in Reached
  <2>1. UNCHANGED <<graph, pc, node, depth, walker, schedule, refs>> /\ position' = position + 1
    BY <1>2, <1>5
  <2>2. TypeOK'
    BY <2>1, <1>1 DEF TypeOK, Reached, Nodes
  <2>3. InputsDeeper'
    BY <2>1, <1>1, <1>2 DEF InputsDeeper, Settled, Inputs, Reached
  <2> QED
    BY <2>2, <2>3, <1>4 DEF Inductive
<1>6. CASE n \notin Reached
  <2>1. depth' = WithDepth(n, 1) /\ walker' = Append(walker, n)
    BY <1>2, <1>6
  <2>2. TypeOK'
    BY <2>1, <1>2, <1>3, TypesWhenQueued
  <2>3. InputsDeeper'
    BY <2>1, <1>2, <1>3, <1>6, DeeperWhenQueued
  <2> QED
    BY <2>2, <2>3, <1>4 DEF Inductive
<1> QED
  BY <1>5, <1>6

\* A node that is taken has no input that counts as settled yet, and the
\* node that was looked at has looked at all of its inputs.
LEMMA TakeKeeps == Inductive /\ Take => Inductive'
<1> SUFFICES ASSUME Inductive, Take PROVE Inductive'
  OBVIOUS
<1>1. TypeOK /\ InputsDeeper
  BY DEF Inductive
<1>2. /\ LoopOver /\ walker # <<>> /\ pc' = "walking" /\ node' = Head(walker)
      /\ walker' = Tail(walker) /\ position' = 1
      /\ UNCHANGED <<graph, depth, schedule, refs>>
  BY DEF Take
<1>3. /\ Head(walker) \in Reached /\ Tail(walker) \in Seq(Reached)
      /\ Range(walker) = {Head(walker)} \union Range(Tail(walker))
  BY <1>1, <1>2, RangeOfTail DEF TypeOK
<1>4. TypeOK'
  BY <1>1, <1>2, <1>3 DEF TypeOK, Reached, Nodes
<1>5. InputsDeeper'
  <2> SUFFICES ASSUME NEW k \in Reached, NEW i \in DOMAIN Inputs(k), Settled(k, i)'
               PROVE  Inputs(k)[i] \in Reached /\ depth[Inputs(k)[i]] > depth[k]
    BY <1>2 DEF InputsDeeper, Inputs, Reached
  <2>1. Inputs(k) \in Seq(Nodes)
    <3>1. k \in Nodes /\ IsLinked(graph)
      BY <1>1 DEF TypeOK
    <3> QED
      BY <3>1, GraphShape
  <2>2. i \in 1 .. Len(Inputs(k)) /\ Len(Inputs(k)) \in Nat /\ position \in Nat
    BY <2>1, RangeWithin, <1>1 DEF TypeOK
  <2>3. k # Head(walker)
    BY <1>2, <2>2 DEF Settled
  <2>4. k \notin Range(walker)
    BY <2>3, <1>2, <1>3 DEF Settled
  <2>5. pc = "walking" /\ k = node => i < position
    BY <1>2, <2>2 DEF LoopOver
  <2> QED
    BY <2>4, <2>5, <1>1 DEF InputsDeeper, Settled
<1>6. RefsSolved' /\ ScheduleSorted'
  BY <1>2, NothingScheduled DEF LoopOver
<1> QED
  BY <1>4, <1>5, <1>6 DEF Inductive

\* An input is moved below the node, or was there.
LEMMA VisitKeeps == Inductive /\ Visit => Inductive'
<1> SUFFICES ASSUME Inductive, Visit PROVE Inductive'
  OBVIOUS
<1> DEFINE n == Inputs(node)[position]
           d == depth[node] + 1
<1>1. TypeOK /\ InputsDeeper
  BY DEF Inductive
<1>2. /\ pc = "walking" /\ position <= Len(Inputs(node)) /\ position' = position + 1
      /\ UNCHANGED <<graph, pc, node, schedule, refs>>
      /\ IF n \in Reached /\ depth[n] >= d THEN UNCHANGED <<depth, walker>>
         ELSE depth' = WithDepth(n, d) /\ walker' = Append(walker, n)
  BY DEF Visit
<1>3. /\ node \in Reached /\ node \in Nodes /\ d \in Nat /\ position \in Nat \ {0}
      /\ Inputs(node) \in Seq(Nodes) /\ node \notin Range(Inputs(node))
  BY <1>1, <1>2, GraphShape DEF TypeOK
<1>4. position \in DOMAIN Inputs(node)
  BY <1>2, <1>3, LenProperties
<1>5. n \in Nodes /\ node # n
  BY <1>3, <1>4, RangeWithin
<1>6. n \in Reached => depth[n] \in Nat
  BY <1>1 DEF TypeOK
<1>7. d = depth[node] + 1 /\ n = Inputs(node)[position]
  OBVIOUS
<1> HIDE DEF n, d
<1>8. RefsSolved' /\ ScheduleSorted'
  BY <1>2, NothingScheduled
<1>9. CASE n \in Reached /\ depth[n] >= d
  <2>1. UNCHANGED <<graph, pc, node, depth, walker, schedule, refs>> /\ position' = position + 1
    BY <1>2, <1>9
  <2>2. TypeOK'
    BY <2>1, <1>1 DEF TypeOK, Reached, Nodes
  <2>3. InputsDeeper'
    <3> SUFFICES ASSUME NEW k \in Reached, NEW i \in DOMAIN Inputs(k), Settled(k, i)'
                 PROVE  Inputs(k)[i] \in Reached /\ depth[Inputs(k)[i]] > depth[k]
      BY <2>1 DEF InputsDeeper, Inputs, Reached
    <3>1. CASE Settled(k, i)
      BY <3>1, <1>1 DEF InputsDeeper
    <3>2. CASE ~Settled(k, i)
      <4>1. k = node /\ ~(i < position) /\ i < position + 1
        BY <2>1, <3>2 DEF Settled
      <4>2. i \in Nat
        BY <4>1, <1>3, RangeWithin
      <4>3. i = position
        BY <4>1, <4>2, <1>3
      <4>4. depth[node] \in Nat
        BY <1>1, <1>3 DEF TypeOK
      <4> QED
        BY <4>1, <4>3, <4>4, <1>6, <1>7, <1>9
    <3> QED
      BY <3>1, <3>2
  <2> QED
    BY <2>2, <2>3, <1>8 DEF Inductive
<1>10. CASE ~(n \in Reached /\ depth[n] >= d)
  <2>1. depth' = WithDepth(n, d) /\ walker' = Append(walker, n)
    BY <1>2, <1>10
  <2>2. n \in Reached => depth[n] < d
    BY <1>3, <1>6, <1>10
  <2>3. TypeOK'
    BY <2>1, <1>2, <1>3, <1>5, TypesWhenQueued
  <2>4. InputsDeeper'
    BY <2>1, <2>2, <1>2, <1>3, <1>4, <1>5, <1>7, DeeperWhenQueued
  <2> QED
    BY <2>3, <2>4, <1>8 DEF Inductive
<1> QED
  BY <1>9, <1>10

-----------------------------------------------------------------------------
(***************************************************************************)
(* The schedule and the references                                         *)
(***************************************************************************)
\* The walk is over, so every node has its inputs below it.
LEMMA SortKeeps == Inductive /\ Sort => Inductive'
<1> SUFFICES ASSUME Inductive, Sort PROVE Inductive'
  OBVIOUS
<1>1. TypeOK /\ InputsDeeper
  BY DEF Inductive
<1>2. /\ LoopOver /\ walker = <<>> /\ pc' = "scheduled" /\ schedule' \in Schedules
      /\ UNCHANGED <<graph, position, node, depth, walker, refs>>
  BY DEF Sort
<1>3. refs = <<>> /\ DOMAIN refs = {}
  BY <1>2 DEF LoopOver, Inductive, ScheduleSorted
<1>4. schedule' \in Seq(Reached) /\ IsSchedule(schedule')
  BY <1>2 DEF Schedules, IsSchedule
<1>5. TypeOK'
  BY <1>1, <1>2, <1>4 DEF TypeOK, Reached, Nodes
<1>6. InputsDeeper'
  <2> SUFFICES ASSUME NEW k \in Reached, NEW i \in DOMAIN Inputs(k), k \notin Range(walker)
               PROVE  Inputs(k)[i] \in Reached /\ depth[Inputs(k)[i]] > depth[k]
    BY <1>2 DEF InputsDeeper, Inputs, Reached, Settled
  <2>1. Inputs(k) \in Seq(Nodes)
    <3>1. k \in Nodes /\ IsLinked(graph)
      BY <1>1 DEF TypeOK
    <3> QED
      BY <3>1, GraphShape
  <2>2. i \in 1 .. Len(Inputs(k)) /\ Len(Inputs(k)) \in Nat /\ position \in Nat
    BY <2>1, RangeWithin, <1>1 DEF TypeOK
  <2>3. pc = "walking" /\ k = node => i < position
    BY <1>2, <2>2 DEF LoopOver
  <2> QED
    BY <2>3, <1>1 DEF InputsDeeper, Settled
<1>7. RefsSolved'
  <2>1. Range(schedule') = Reached
    BY <1>4 DEF IsSchedule
  <2> QED
    BY <2>1, <1>2, <1>3 DEF RefsSolved, Reached
<1>8. ScheduleSorted'
  <2>1. \A i, j \in DOMAIN schedule' :
            /\ schedule'[i] = schedule'[j] => i = j
            /\ i < j => depth[schedule'[i]] >= depth[schedule'[j]]
    BY <1>4 DEF IsSchedule
  <2> QED
    BY <2>1, <1>2, <1>3 DEF ScheduleSorted
<1> QED
  BY <1>5, <1>6, <1>7, <1>8 DEF Inductive

\* The inputs of the node in front are behind in the schedule: their refs
\* are known, and those of the node itself are not.
LEMMA FrontOfSchedule ==
    ASSUME Inductive, pc = "scheduled", schedule # <<>>
    PROVE  /\ Head(schedule) \in Reached \ DOMAIN refs
           /\ Head(schedule) \notin Range(Tail(schedule))
           /\ Range(Inputs(Head(schedule))) \subseteq DOMAIN refs
           /\ \A m \in Range(Inputs(Head(schedule))) : depth[m] > depth[Head(schedule)]
<1> DEFINE n == Head(schedule)
<1>1. TypeOK /\ InputsDeeper /\ RefsSolved /\ ScheduleSorted
  BY DEF Inductive
<1>2. schedule \in Seq(Reached) /\ IsLinked(graph) /\ Reached \subseteq Nodes
  BY <1>1 DEF TypeOK
<1>3. /\ n \in Reached /\ n = schedule[1] /\ 1 \in DOMAIN schedule
      /\ Range(schedule) = {n} \union Range(Tail(schedule))
      /\ \A i \in DOMAIN Tail(schedule) :
            Tail(schedule)[i] = schedule[i + 1] /\ i + 1 \in DOMAIN schedule
  BY <1>2, RangeOfTail
<1>4. DOMAIN schedule \subseteq Nat
  BY <1>2, RangeWithin
<1> HIDE DEF n
<1>5. DOMAIN refs = Reached \ Range(schedule)
  BY <1>1 DEF RefsSolved
<1>9. \A i, j \in DOMAIN schedule : /\ schedule[i] = schedule[j] => i = j
                                    /\ i < j => depth[schedule[i]] >= depth[schedule[j]]
  BY <1>1 DEF ScheduleSorted
<1>6. n \notin Range(Tail(schedule))
  <2> SUFFICES ASSUME NEW i \in DOMAIN Tail(schedule), n = Tail(schedule)[i] PROVE FALSE
    BY DEF Range
  <2>1. schedule[i + 1] = schedule[1] /\ i + 1 \in DOMAIN schedule
    BY <1>3
  <2>2. i + 1 = 1
    BY <2>1, <1>3, <1>9
  <2>3. i \in Nat \ {0}
    <3>1. Tail(schedule) \in Seq(Reached)
      BY <1>2, RangeOfTail
    <3> QED
      BY <3>1, RangeWithin
  <2> QED
    BY <2>2, <2>3
<1>7. ASSUME NEW m \in Range(Inputs(n))
      PROVE  m \in DOMAIN refs /\ depth[m] > depth[n]
  <2>1. PICK i \in DOMAIN Inputs(n) : m = Inputs(n)[i]
    BY DEF Range
  <2>2. Settled(n, i)
    <3>1. walker = <<>>
      BY <1>1 DEF ScheduleSorted
    <3> QED
      BY <3>1 DEF Settled, Range
  <2>3. m \in Reached /\ depth[m] > depth[n]
    BY <2>1, <2>2, <1>1, <1>3 DEF InputsDeeper
  <2>4. depth[n] \in Nat /\ depth[m] \in Nat
    BY <2>3, <1>1, <1>3 DEF TypeOK
  <2>5. m \notin Range(schedule)
    <3> SUFFICES ASSUME NEW j \in DOMAIN schedule, m = schedule[j] PROVE FALSE
      BY DEF Range
    <3>1. CASE j = 1
      BY <3>1, <2>3, <2>4, <1>3
    <3>2. CASE j # 1
      <4>1. 1 < j
        <5>1. j \in 1 .. Len(schedule) /\ Len(schedule) \in Nat
          BY <1>2, RangeWithin
        <5> QED
          BY <5>1, <3>2
      <4>2. depth[schedule[1]] >= depth[schedule[j]]
        BY <4>1, <1>3, <1>9
      <4> QED
        BY <4>2, <2>3, <2>4, <1>3
    <3> QED
      BY <3>1, <3>2
  <2> QED
    BY <2>3, <2>5, <1>5
<1>8. n \notin DOMAIN refs
  BY <1>3, <1>5
<1> QED
  BY <1>3, <1>6, <1>7, <1>8 DEF n

\* The refs of the node in front are added and those there are stay.
LEMMA RefsAdded ==
    ASSUME Inductive, AddRefs
    PROVE  LET n == Head(schedule)
           IN  /\ DOMAIN refs' = DOMAIN refs \union {n}
               /\ \A m \in DOMAIN refs : refs'[m] = refs[m]
               /\ refs'[n] = UNION {{m} \union refs[m] : m \in Range(Inputs(n))}
<1> DEFINE n == Head(schedule)
           found == UNION {{m} \union RefsOf(m) : m \in Range(Inputs(n))}
           read == DOMAIN refs \union Range(Inputs(n))
<1>1. /\ n \notin DOMAIN refs /\ Range(Inputs(n)) \subseteq DOMAIN refs
  BY FrontOfSchedule DEF AddRefs
<1>2. refs' = [m \in read \union {n} |-> IF m \in read THEN RefsOf(m) ELSE found]
  BY DEF AddRefs
<1>3. read = DOMAIN refs
  BY <1>1
<1>4. found = UNION {{m} \union refs[m] : m \in Range(Inputs(n))}
  BY <1>1 DEF RefsOf
<1> HIDE DEF n, found, read
<1>5. DOMAIN refs' = DOMAIN refs \union {n} /\ \A m \in DOMAIN refs : refs'[m] = refs[m]
  BY <1>2, <1>3 DEF RefsOf
<1>6. refs'[n] = found
  BY <1>1, <1>2, <1>3
<1> QED
  BY <1>4, <1>5, <1>6 DEF n

\* One turn of build_node_refs solves the refs of one node.
LEMMA AddRefsKeeps == Inductive /\ AddRefs => Inductive'
<1> SUFFICES ASSUME Inductive, AddRefs PROVE Inductive'
  OBVIOUS
<1> DEFINE n == Head(schedule)
<1>1. TypeOK /\ InputsDeeper /\ RefsSolved /\ ScheduleSorted
  BY DEF Inductive
<1>2. /\ pc = "scheduled" /\ schedule # <<>> /\ schedule' = Tail(schedule)
      /\ UNCHANGED <<graph, pc, position, node, depth, walker>>
  BY DEF AddRefs
<1>3. /\ n \in Reached \ DOMAIN refs /\ n \notin Range(Tail(schedule))
      /\ Range(Inputs(n)) \subseteq DOMAIN refs
      /\ \A m \in Range(Inputs(n)) : depth[m] > depth[n]
  BY <1>2, FrontOfSchedule
<1>4. /\ DOMAIN refs' = DOMAIN refs \union {n}
      /\ \A m \in DOMAIN refs : refs'[m] = refs[m]
      /\ refs'[n] = UNION {{m} \union refs[m] : m \in Range(Inputs(n))}
  BY RefsAdded
<1>5. schedule \in Seq(Reached)
  BY <1>1 DEF TypeOK
<1>6. /\ Tail(schedule) \in Seq(Reached) /\ Range(schedule) = {n} \union Range(Tail(schedule))
      /\ \A i \in DOMAIN Tail(schedule) :
            Tail(schedule)[i] = schedule[i + 1] /\ i + 1 \in DOMAIN schedule
  BY <1>2, <1>5, RangeOfTail
<1>7. /\ DOMAIN refs \subseteq Reached
      /\ \A m \in DOMAIN refs : refs[m] \subseteq Reached /\ m \notin refs[m]
                                /\ Range(Inputs(m)) \subseteq DOMAIN refs
      /\ \A m \in DOMAIN refs : refs[m] = UNION {{k} \union refs[k] : k \in Range(Inputs(m))}
      /\ \A m \in DOMAIN refs : \A k \in refs[m] : depth[k] > depth[m]
  BY <1>1 DEF TypeOK, RefsSolved, ScheduleSorted
<1> HIDE DEF n
<1>8. ASSUME NEW k \in refs'[n] PROVE k \in Reached /\ depth[k] > depth[n]
  <2>1. PICK m \in Range(Inputs(n)) : k = m \/ k \in refs[m]
    BY <1>4
  <2>2. m \in DOMAIN refs /\ depth[m] > depth[n]
    BY <1>3
  <2>3. k \in Reached
    BY <2>1, <2>2, <1>7
  <2>4. depth[k] \in Nat /\ depth[m] \in Nat /\ depth[n] \in Nat
    BY <2>2, <2>3, <1>1, <1>3, <1>7 DEF TypeOK
  <2>5. k = m \/ depth[k] > depth[m]
    BY <2>1, <2>2, <1>7
  <2>6. \A x, y, z \in Nat : x > y /\ y > z => x > z
    OBVIOUS
  <2> QED
    BY <2>2, <2>3, <2>4, <2>5, <2>6
<1>9. TypeOK'
  <2>1. DOMAIN refs' \subseteq Reached /\ \A m \in DOMAIN refs' : refs'[m] \subseteq Reached
    BY <1>3, <1>4, <1>7, <1>8
  <2> QED
    BY <2>1, <1>1, <1>2, <1>6 DEF TypeOK, Reached, Nodes
<1>10. InputsDeeper'
  BY <1>1, <1>2 DEF InputsDeeper, Settled, Inputs, Reached
<1>11. RefsSolved'
  <2>1. \A m \in DOMAIN refs' : Range(Inputs(m)) \subseteq DOMAIN refs'
    BY <1>3, <1>4, <1>7
  <2>2. ASSUME NEW m \in DOMAIN refs'
        PROVE  refs'[m] = UNION {{k} \union refs'[k] : k \in Range(Inputs(m))}
    <3>1. \A k \in Range(Inputs(m)) : refs'[k] = refs[k]
      BY <1>3, <1>4, <1>7
    <3>2. refs'[m] = UNION {{k} \union refs[k] : k \in Range(Inputs(m))}
      BY <1>4, <1>7
    <3> QED
      BY <3>1, <3>2
  <2>3. ASSUME NEW m \in DOMAIN refs' PROVE m \notin refs'[m]
    <3>1. CASE m = n
      <4>1. depth[n] \in Nat
        BY <1>1, <1>3 DEF TypeOK
      <4>2. \A k \in refs'[n] : depth[k] > depth[n]
        BY <1>8
      <4>3. \A x \in Nat : ~(x > x)
        OBVIOUS
      <4> QED
        BY <3>1, <4>1, <4>2, <4>3
    <3>2. CASE m # n
      BY <3>2, <1>4, <1>7
    <3> QED
      BY <3>1, <3>2
  <2>4. DOMAIN refs' = Reached \ Range(schedule')
    <3>1. DOMAIN refs = Reached \ Range(schedule)
      BY <1>1, <1>2 DEF RefsSolved
    <3> QED
      BY <3>1, <1>2, <1>3, <1>4, <1>6
  <2>5. Reached' = Reached /\ \A m : Inputs(m)' = Inputs(m)
    BY <1>2 DEF Reached, Inputs
  <2> QED
    BY <2>1, <2>2, <2>3, <2>4, <2>5 DEF RefsSolved
<1>12. ScheduleSorted'
  <2>1. \A i, j \in DOMAIN schedule : /\ schedule[i] = schedule[j] => i = j
                                      /\ i < j => depth[schedule[i]] >= depth[schedule[j]]
    BY <1>1 DEF ScheduleSorted
  <2>2. ASSUME NEW i \in DOMAIN schedule', NEW j \in DOMAIN schedule'
        PROVE  /\ schedule'[i] = schedule'[j] => i = j
               /\ i < j => depth[schedule'[i]] >= depth[schedule'[j]]
    <3>1. i \in Nat /\ j \in Nat
      BY <1>2, <1>6, RangeWithin
    <3>2. /\ schedule'[i] = schedule[i + 1] /\ i + 1 \in DOMAIN schedule
          /\ schedule'[j] = schedule[j + 1] /\ j + 1 \in DOMAIN schedule
      BY <1>2, <1>6
    <3>3. (i + 1 = j + 1 => i = j) /\ (i < j => i + 1 < j + 1)
      BY <3>1
    <3> QED
      BY <2>1, <3>2, <3>3
  <2>3. \A m \in DOMAIN refs' : \A k \in refs'[m] : depth[k] > depth[m]
    <3> SUFFICES ASSUME NEW m \in DOMAIN refs', NEW k \in refs'[m] PROVE depth[k] > depth[m]
      OBVIOUS
    <3>1. CASE m = n
      BY <3>1, <1>8
    <3>2. CASE m # n
      BY <3>2, <1>4, <1>7
    <3> QED
      BY <3>1, <3>2
  <2>4. /\ pc' \notin {"seeding", "walking"} /\ walker' = <<>> /\ depth' = depth
    BY <1>1, <1>2 DEF ScheduleSorted
  <2> QED
    BY <2>2, <2>3, <2>4 DEF ScheduleSorted
<1> QED
  BY <1>9, <1>10, <1>11, <1>12 DEF Inductive

\* The end of build_node_refs changes nothing but the control.
LEMMA ReturnKeeps == Inductive /\ Return => Inductive'
<1> SUFFICES ASSUME Inductive, Return PROVE Inductive'
  OBVIOUS
<1>1. TypeOK /\ InputsDeeper /\ RefsSolved /\ ScheduleSorted
  BY DEF Inductive
<1>2. /\ pc = "scheduled" /\ pc' = "done"
      /\ UNCHANGED <<graph, position, node, depth, walker, schedule, refs>>
  BY DEF Return
<1>3. TypeOK'
  BY <1>1, <1>2 DEF TypeOK, Reached, Nodes
<1>4. InputsDeeper'
  BY <1>1, <1>2 DEF InputsDeeper, Settled, Inputs, Reached
<1>5. RefsSolved'
  BY <1>1, <1>2 DEF RefsSolved, Inputs, Reached
<1>6. ScheduleSorted'
  BY <1>1, <1>2 DEF ScheduleSorted
<1> QED
  BY <1>3, <1>4, <1>5, <1>6 DEF Inductive

\* A step that changes nothing
LEMMA StopKeeps == Inductive /\ UNCHANGED vars => Inductive'
BY DEF Inductive, vars, TypeOK, InputsDeeper, Settled, RefsSolved, ScheduleSorted, Inputs, Reached, Nodes

-----------------------------------------------------------------------------
\* Whatever the graph, and in whatever order std::sort leaves nodes of one
\* depth, the walk and the pass over its schedule keep the invariant.
THEOREM InductiveInvariant == Spec => []Inductive
<1>1. Inductive /\ [Next]_vars => Inductive'
  BY SeedKeeps, TakeKeeps, VisitKeeps, SortKeeps, AddRefsKeeps, ReturnKeeps, StopKeeps
     DEF Next, Stop
<1> QED
  BY InitInductive, <1>1, PTL DEF Spec

\* The state of list_reference_nodes and build_node_refs is type correct.
THEOREM TypeCorrect == Spec => []TypeOK
<1>1. Inductive => TypeOK
  BY DEF Inductive
<1> QED
  BY <1>1, InductiveInvariant, PTL

\* list_reference_nodes: inputs end up deeper than the nodes that use them.
THEOREM InputsComeFirst == Spec => []InputsDeeper
<1>1. Inductive => InputsDeeper
  BY DEF Inductive
<1> QED
  BY <1>1, InductiveInvariant, PTL

\* build_node_refs: what Compiler::compile reads from map_node_refs is
\* solved: each node has its inputs and what they refer to, never itself.
THEOREM RefsAreSolved == Spec => []RefsSolved
<1>1. Inductive => RefsSolved
  BY DEF Inductive
<1> QED
  BY <1>1, InductiveInvariant, PTL

-----------------------------------------------------------------------------
(***************************************************************************)
(* A pool that a pass can go through.                                      *)
(***************************************************************************)
Numbered(p) == \E last \in Nat : NodesOf(p) = Originals \union 1 .. last

\* Every node has a bubble, and a bubble has all fields.
BubblesOK(p) == /\ p.bubbles = [n \in NodesOf(p) |-> p.bubbles[n]]
                /\ \A n \in NodesOf(p) : IsBubble(p.bubbles[n])

\* Links are between nodes, as operators need them, and go around in no circle.
LinksOK(p) == /\ p.links \in [NodesOf(p) -> Seq(NodesOf(p))]
              /\ \A n \in NodesOf(p) : IsLinkedAs(OpOf(p, n), p.links[n])
              /\ Grounded(NodesOf(p), p.links)

\* The nodes and links that a pass may be given
IsPool(p) ==
    /\ p = [bubbles |-> p.bubbles, links |-> p.links]
    /\ Numbered(p)
    /\ BubblesOK(p)
    /\ LinksOK(p)

\* q has the nodes of p and more; their data may have changed.
Extends(p, q) ==
    /\ NodesOf(p) \subseteq NodesOf(q)
    /\ \A n \in NodesOf(p) : OpOf(q, n) = OpOf(p, n) /\ q.links[n] = p.links[n]

\* The ids of the next nodes
NextIds(p, count) == Newest(p) + 1 .. Newest(p) + count

\* The newest node of q was not in p.
Grown(p, q) ==
    /\ IsPool(q)
    /\ Extends(p, q)
    /\ Newest(q) \in NodesOf(q) \ NodesOf(p)

\* The newest node has the last number.
LEMMA NewestIsLast ==
    ASSUME NEW p, Numbered(p)
    PROVE  Newest(p) \in Nat /\ NodesOf(p) = Originals \union 1 .. Newest(p)
<1>1. PICK last \in Nat : NodesOf(p) = Originals \union 1 .. last
  BY DEF Numbered
<1>2. IsFiniteSet(1 .. last) /\ Cardinality(1 .. last) = last
  BY FS_Interval
<1>3. Originals \intersect 1 .. last = {}
  BY OriginalsAssumption
<1>4. Cardinality(NodesOf(p)) = Cardinality(Originals) + last - Cardinality(Originals \intersect 1 .. last)
  BY <1>1, <1>2, FS_Union, OriginalsAssumption
<1>5. Cardinality(Originals) \in Nat
  BY FS_CardinalityType, OriginalsAssumption
<1>6. Cardinality(Originals \intersect 1 .. last) = 0
  BY <1>3, FS_EmptySet
<1>7. Newest(p) = last
  BY <1>4, <1>5, <1>6 DEF Newest
<1> QED
  BY <1>1, <1>7

\* The ids that MadeAll gives
LEMMA NewIds ==
    ASSUME NEW p, Numbered(p), NEW count \in Nat
    PROVE  /\ Newest(p) \in Nat
           /\ (Newest(p) + 1 .. Newest(p) + count) \intersect NodesOf(p) = {}
           /\ NodesOf(p) \union (Newest(p) + 1 .. Newest(p) + count)
                = Originals \union 1 .. Newest(p) + count
<1>1. Newest(p) \in Nat /\ NodesOf(p) = Originals \union 1 .. Newest(p)
  BY NewestIsLast
<1> DEFINE last == Newest(p)
<1>2. last \in Nat /\ NodesOf(p) = Originals \union 1 .. last
  BY <1>1
<1> HIDE DEF last
<1>3. \A k \in last + 1 .. last + count : k \in Nat /\ k \notin 1 .. last /\ k \in 1 .. last + count
  BY <1>2
<1>4. \A k \in last + 1 .. last + count : k \notin Originals
  BY <1>3, OriginalsAssumption
<1>5. \A k \in 1 .. last + count : k \in 1 .. last \/ k \in last + 1 .. last + count
  BY <1>2
<1>6. \A k \in 1 .. last : k \in 1 .. last + count
  BY <1>2
<1>7. /\ (last + 1 .. last + count) \intersect NodesOf(p) = {}
      /\ NodesOf(p) \union (last + 1 .. last + count) = Originals \union 1 .. last + count
  BY <1>2, <1>3, <1>4, <1>5, <1>6
<1> QED
  BY <1>2, <1>7 DEF last

\* A graph stays grounded when nodes are added that are linked to old ones only.
LEMMA GroundedMore ==
    ASSUME NEW nodes, NEW links, Grounded(nodes, links),
           NEW more, NEW longer, nodes \subseteq more,
           \A n \in nodes : longer[n] = links[n] /\ Range(links[n]) \subseteq nodes,
           \A n \in more \ nodes : Range(longer[n]) \subseteq nodes
    PROVE  Grounded(more, longer)
<1> SUFFICES ASSUME NEW S \in SUBSET more, S # {}
             PROVE  \E n \in S : Range(longer[n]) \intersect S = {}
  BY DEF Grounded
<1>1. CASE S \intersect nodes = {}
  BY <1>1
<1>2. CASE S \intersect nodes # {}
  <2>1. PICK n \in S \intersect nodes : Range(links[n]) \intersect (S \intersect nodes) = {}
    BY <1>2 DEF Grounded
  <2> QED
    BY <2>1
<1> QED
  BY <1>1, <1>2

\* Nothing is below the nodes of a closed set but such nodes.
Closed(p, F) == F \subseteq NodesOf(p) /\ \A n \in F : Range(p.links[n]) \subseteq F

\* A node outside is linked to nodes of a closed set.
LEMMA GroundedRelinked ==
    ASSUME NEW nodes, NEW links, Grounded(nodes, links), NEW F \in SUBSET nodes, NEW x \in nodes \ F,
           \A n \in F : Range(links[n]) \subseteq F,
           NEW relinked, \A n \in nodes \ {x} : relinked[n] = links[n], Range(relinked[x]) \subseteq F
    PROVE  Grounded(nodes, relinked)
<1> SUFFICES ASSUME NEW S \in SUBSET nodes, S # {}
             PROVE  \E n \in S : Range(relinked[n]) \intersect S = {}
  BY DEF Grounded
<1>1. CASE S \intersect F # {}
  <2>1. PICK n \in S \intersect F : Range(links[n]) \intersect (S \intersect F) = {}
    BY <1>1 DEF Grounded
  <2>2. relinked[n] = links[n] /\ Range(links[n]) \subseteq F
    BY <2>1
  <2> QED
    BY <2>1, <2>2
<1>2. CASE S \intersect F = {} /\ x \in S
  BY <1>2
<1>3. CASE S \intersect F = {} /\ x \notin S
  <2>1. PICK n \in S : Range(links[n]) \intersect S = {}
    BY DEF Grounded
  <2> QED
    BY <2>1, <1>3
<1> QED
  BY <1>1, <1>2, <1>3

\* Nodes that can be added to p, linked to those that are there
CanBeMade(p, new, count) ==
    /\ count \in Nat /\ Len(new) = count
    /\ \A i \in 1 .. count : /\ IsBubble(new[i].bubble)
                             /\ new[i].inputs \in Seq(NodesOf(p))
                             /\ IsLinkedAs(new[i].bubble.op, new[i].inputs)

\* Nodes are made, each with inputs that were there before.
LEMMA PoolGrows ==
    ASSUME NEW p, IsPool(p), NEW new, NEW count, CanBeMade(p, new, count)
    PROVE  LET q == MadeAll(p, new)
           IN  /\ IsPool(q)
               /\ NodesOf(q) = NodesOf(p) \union NextIds(p, count)
               /\ Newest(q) = Newest(p) + count
               /\ \A n \in NodesOf(p) : q.bubbles[n] = p.bubbles[n] /\ q.links[n] = p.links[n]
               /\ \A i \in 1 .. count : /\ Newest(p) + i \notin NodesOf(p)
                                        /\ q.bubbles[Newest(p) + i] = new[i].bubble
                                        /\ q.links[Newest(p) + i] = new[i].inputs
<1> DEFINE q == MadeAll(p, new)
           last == Newest(p)
           N == NodesOf(p)
           ids == NextIds(p, count)
           all == N \union ids
<1>0. /\ count \in Nat /\ Len(new) = count
      /\ \A i \in 1 .. count : /\ IsBubble(new[i].bubble)
                               /\ new[i].inputs \in Seq(N)
                               /\ IsLinkedAs(new[i].bubble.op, new[i].inputs)
  BY DEF CanBeMade
<1>1. /\ q = [bubbles |-> [k \in all |-> IF k \in N THEN p.bubbles[k] ELSE new[k - last].bubble],
              links   |-> [k \in all |-> IF k \in N THEN p.links[k] ELSE new[k - last].inputs]]
  BY <1>0 DEF MadeAll, NextIds
<1>2. NodesOf(q) = all
  BY <1>1 DEF NodesOf
<1>3. last \in Nat /\ ids \intersect N = {} /\ all = Originals \union 1 .. last + count
  BY <1>0, NewIds DEF IsPool, NextIds
<1>4. Numbered(q)
  <2>1. last + count \in Nat
    BY <1>0, <1>3
  <2> QED
    BY <1>2, <1>3, <2>1 DEF Numbered
<1>5. Newest(q) = last + count
  <2>1. Newest(q) \in Nat /\ all = Originals \union 1 .. Newest(q)
    BY <1>4, <1>2, NewestIsLast
  <2> DEFINE n == Newest(q)
             m == last + count
  <2>2. n \in Nat /\ m \in Nat /\ Originals \union 1 .. n = Originals \union 1 .. m
    BY <2>1, <1>0, <1>3
  <2> HIDE DEF n, m
  <2>3. \A k \in Nat : k \in 1 .. n <=> k \in 1 .. m
    BY <2>2, OriginalsAssumption
  <2>4. n = m
    BY <2>2, <2>3
  <2> QED
    BY <2>4 DEF n, m
<1>6. \A k \in ids : k - last \in 1 .. count
  BY <1>0, <1>3 DEF NextIds
<1>7. \A i \in 1 .. count : last + i \in ids /\ (last + i) - last = i
  BY <1>0, <1>3 DEF NextIds
<1> HIDE DEF last, N, ids, q
<1>8. \A n \in N : q.bubbles[n] = p.bubbles[n] /\ q.links[n] = p.links[n]
  BY <1>1 DEF all
<1>9. \A k \in ids : /\ k \notin N
                     /\ q.bubbles[k] = new[k - last].bubble
                     /\ q.links[k] = new[k - last].inputs
  BY <1>1, <1>3 DEF all
<1>10. N \subseteq all
  BY DEF all
<1>11. \A n \in N : p.links[n] \in Seq(N) /\ Range(p.links[n]) \subseteq N
  BY RangeOfSeq DEF IsPool, LinksOK, N
<1>12. \A k \in ids : q.links[k] \in Seq(N) /\ Range(q.links[k]) \subseteq N
  BY <1>0, <1>9, <1>6, RangeOfSeq
<1>13. \A n \in all : q.links[n] \in Seq(all)
  BY <1>8, <1>10, <1>11, <1>12, SeqMonotonic DEF all
<1>14. Grounded(all, q.links)
  <2>1. Grounded(N, p.links)
    BY DEF IsPool, LinksOK, N
  <2>2. \A n \in N : q.links[n] = p.links[n] /\ Range(p.links[n]) \subseteq N
    BY <1>8, <1>11
  <2>3. \A n \in all \ N : Range(q.links[n]) \subseteq N
    BY <1>12 DEF all
  <2> QED
    BY ONLY <2>1, <2>2, <2>3, <1>10, GroundedMore
<1>15. BubblesOK(q)
  <2>1. \A n \in N : IsBubble(p.bubbles[n])
    BY DEF IsPool, BubblesOK, N
  <2>2. \A n \in all : IsBubble(q.bubbles[n])
    BY <1>0, <2>1, <1>8, <1>9, <1>6 DEF all
  <2>3. q.bubbles = [n \in all |-> q.bubbles[n]]
    BY <1>1
  <2> QED
    BY <2>2, <2>3, <1>2 DEF BubblesOK
<1>16. LinksOK(q)
  <2>1. \A n \in N : IsLinkedAs(p.bubbles[n].op, p.links[n])
    BY DEF IsPool, LinksOK, N, OpOf
  <2>2. \A n \in all : IsLinkedAs(q.bubbles[n].op, q.links[n])
    BY <1>0, <2>1, <1>8, <1>9, <1>6 DEF all
  <2>3. q.links \in [all -> Seq(all)]
    BY <1>1, <1>13
  <2> QED
    BY <2>2, <2>3, <1>14, <1>2 DEF LinksOK, OpOf
<1>17. q = [bubbles |-> q.bubbles, links |-> q.links]
  BY <1>1
<1>18. IsPool(q)
  BY <1>4, <1>15, <1>16, <1>17 DEF IsPool
<1>19. \A i \in 1 .. count : /\ last + i \notin N
                             /\ q.bubbles[last + i] = new[i].bubble
                             /\ q.links[last + i] = new[i].inputs
  BY <1>7, <1>9
<1> QED
  BY <1>2, <1>5, <1>8, <1>18, <1>19 DEF q, last, N, ids, all

\* One node is made.
LEMMA PoolGrowsByOne ==
    ASSUME NEW p, IsPool(p), NEW bubble, IsBubble(bubble),
           NEW inputs \in Seq(NodesOf(p)), IsLinkedAs(bubble.op, inputs)
    PROVE  LET q == Made(p, bubble, inputs)
           IN  /\ IsPool(q)
               /\ NodesOf(q) = NodesOf(p) \union {Newest(q)}
               /\ Newest(q) = Newest(p) + 1
               /\ Newest(q) \notin NodesOf(p)
               /\ \A n \in NodesOf(p) : q.bubbles[n] = p.bubbles[n] /\ q.links[n] = p.links[n]
               /\ q.bubbles[Newest(q)] = bubble
               /\ q.links[Newest(q)] = inputs
<1> DEFINE new == <<New(bubble, inputs)>>
           q == Made(p, bubble, inputs)
<1>1. Len(new) = 1 /\ new[1].bubble = bubble /\ new[1].inputs = inputs
  BY DEF New
<1>2. q = MadeAll(p, new)
  BY DEF Made
<1>3. CanBeMade(p, new, 1)
  BY <1>1 DEF CanBeMade
<1> HIDE DEF new, q
<1>4. /\ IsPool(q)
      /\ NodesOf(q) = NodesOf(p) \union NextIds(p, 1)
      /\ Newest(q) = Newest(p) + 1
      /\ \A n \in NodesOf(p) : q.bubbles[n] = p.bubbles[n] /\ q.links[n] = p.links[n]
      /\ \A i \in 1 .. 1 : /\ Newest(p) + i \notin NodesOf(p)
                           /\ q.bubbles[Newest(p) + i] = new[i].bubble
                           /\ q.links[Newest(p) + i] = new[i].inputs
  <2>1. IsPool(MadeAll(p, new)) /\ Newest(MadeAll(p, new)) = Newest(p) + 1
    BY ONLY IsPool(p), <1>3, PoolGrows
  <2>2. NodesOf(MadeAll(p, new)) = NodesOf(p) \union NextIds(p, 1)
    BY ONLY IsPool(p), <1>3, PoolGrows
  <2>3. \A n \in NodesOf(p) : MadeAll(p, new).bubbles[n] = p.bubbles[n] /\ MadeAll(p, new).links[n] = p.links[n]
    BY ONLY IsPool(p), <1>3, PoolGrows
  <2>4. \A i \in 1 .. 1 : /\ Newest(p) + i \notin NodesOf(p)
                          /\ MadeAll(p, new).bubbles[Newest(p) + i] = new[i].bubble
                          /\ MadeAll(p, new).links[Newest(p) + i] = new[i].inputs
    BY ONLY IsPool(p), <1>3, PoolGrows
  <2> QED
    BY ONLY <1>2, <2>1, <2>2, <2>3, <2>4
<1>5. Newest(p) \in Nat
  BY NewestIsLast DEF IsPool
<1>6. NextIds(p, 1) = {Newest(p) + 1}
  BY <1>5 DEF NextIds
<1>7. NodesOf(q) = NodesOf(p) \union {Newest(q)}
  BY <1>4, <1>6
<1>8. /\ Newest(q) \notin NodesOf(p)
      /\ q.bubbles[Newest(q)] = bubble
      /\ q.links[Newest(q)] = inputs
  BY <1>4, <1>1, 1 \in 1 .. 1
<1> QED
  BY <1>4, <1>7, <1>8 DEF q

\* So it has grown, from any pool that it has grown from before.
LEMMA GrownByOne ==
    ASSUME NEW first, NEW p, IsPool(p), Extends(first, p), NEW bubble, IsBubble(bubble),
           NEW inputs \in Seq(NodesOf(p)), IsLinkedAs(bubble.op, inputs)
    PROVE  LET q == Made(p, bubble, inputs)
           IN  /\ Grown(first, q)
               /\ NodesOf(p) \subseteq NodesOf(q)
               /\ Newest(q) = Newest(p) + 1
<1> DEFINE q == Made(p, bubble, inputs)
<1>1. /\ IsPool(q)
      /\ NodesOf(q) = NodesOf(p) \union {Newest(q)}
      /\ Newest(q) = Newest(p) + 1
      /\ Newest(q) \notin NodesOf(p)
      /\ \A n \in NodesOf(p) : q.bubbles[n] = p.bubbles[n] /\ q.links[n] = p.links[n]
  BY PoolGrowsByOne
<1> HIDE DEF q
<1>2. Extends(first, q)
  BY <1>1 DEF Extends, OpOf
<1>3. Newest(q) \in NodesOf(q) \ NodesOf(first)
  BY <1>1 DEF Extends
<1> QED
  BY <1>1, <1>2, <1>3 DEF Grown, q

\* A pass that makes nothing
LEMMA ExtendsItself == ASSUME NEW p PROVE Extends(p, p)
BY DEF Extends

\* What a node holds, or is called, changes.
LEMMA BubbleChanged ==
    ASSUME NEW p, IsPool(p), NEW q, q.links = p.links, q = [bubbles |-> q.bubbles, links |-> q.links],
           q.bubbles = [n \in NodesOf(p) |-> q.bubbles[n]],
           \A n \in NodesOf(p) : IsBubble(q.bubbles[n]) /\ OpOf(q, n) = OpOf(p, n)
    PROVE  /\ IsPool(q)
           /\ NodesOf(q) = NodesOf(p) /\ Newest(q) = Newest(p)
           /\ \A first : Extends(first, p) => Extends(first, q)
           /\ \A first : Grown(first, p) => Grown(first, q)
<1>1. NodesOf(q) = NodesOf(p)
  BY DEF NodesOf
<1>2. Newest(q) = Newest(p)
  BY <1>1 DEF Newest
<1>3. IsPool(q)
  <2>1. Numbered(q)
    BY <1>1 DEF IsPool, Numbered
  <2>2. BubblesOK(q)
    BY <1>1 DEF BubblesOK
  <2>3. LinksOK(q)
    BY <1>1 DEF IsPool, LinksOK
  <2> QED
    BY <2>1, <2>2, <2>3 DEF IsPool
<1>4. ASSUME NEW first, Extends(first, p) PROVE Extends(first, q)
  BY <1>1, <1>4 DEF Extends
<1>5. ASSUME NEW first, Grown(first, p) PROVE Grown(first, q)
  BY <1>1, <1>2, <1>3, <1>4, <1>5 DEF Grown
<1> QED
  BY <1>1, <1>2, <1>3, <1>4, <1>5

\* What a Const holds is replaced: packing and raising variances write through it.
LEMMA WithDataChanges ==
    ASSUME NEW p, IsPool(p), NEW n, NEW data
    PROVE  LET q == WithData(p, n, data)
           IN  /\ IsPool(q)
               /\ NodesOf(q) = NodesOf(p) /\ Newest(q) = Newest(p)
               /\ \A first : Extends(first, p) => Extends(first, q)
               /\ \A first : Grown(first, p) => Grown(first, q)
<1> DEFINE q == WithData(p, n, data)
<1>1. p = [bubbles |-> p.bubbles, links |-> p.links] /\ BubblesOK(p)
  BY DEF IsPool
<1>2. /\ q.links = p.links /\ q = [bubbles |-> q.bubbles, links |-> q.links]
      /\ q.bubbles = [p.bubbles EXCEPT ![n].data = data]
  BY <1>1 DEF WithData
<1>3. q.bubbles = [m \in NodesOf(p) |-> q.bubbles[m]]
  BY <1>2, <1>1 DEF BubblesOK, NodesOf
<1>4. ASSUME NEW m \in NodesOf(p) PROVE IsBubble(q.bubbles[m]) /\ OpOf(q, m) = OpOf(p, m)
  <2>1. IsBubble(p.bubbles[m])
    BY <1>1 DEF BubblesOK
  <2>2. CASE m # n
    <3>1. q.bubbles[m] = p.bubbles[m]
      BY <1>2, <2>2 DEF NodesOf
    <3> QED
      BY <3>1, <2>1 DEF OpOf
  <2>3. CASE m = n
    <3>1. q.bubbles[m] = [p.bubbles[m] EXCEPT !.data = data]
      BY <1>2, <2>3 DEF NodesOf
    <3> QED
      BY <3>1, <2>1 DEF OpOf, IsBubble
  <2> QED
    BY <2>2, <2>3
<1> HIDE DEF q
<1>5. /\ IsPool(q)
      /\ NodesOf(q) = NodesOf(p) /\ Newest(q) = Newest(p)
      /\ \A first : Extends(first, p) => Extends(first, q)
      /\ \A first : Grown(first, p) => Grown(first, q)
  BY ONLY IsPool(p), <1>2, <1>3, <1>4, BubbleChanged
<1> QED
  BY <1>5 DEF q

-----------------------------------------------------------------------------
(***************************************************************************)
(* What the translator makes of a node                                     *)
(***************************************************************************)
LEMMA OperatorMade ==
    ASSUME NEW op, NEW name
    PROVE  IsBubble(Bubble(op, name)) /\ Bubble(op, name).op = op
BY DEF IsBubble, Bubble

\* A bubble with other flags
LEMMA FlagsMade ==
    ASSUME NEW b, NEW flags, IsBubble(b)
    PROVE  IsBubble([b EXCEPT !.flags = flags]) /\ [b EXCEPT !.flags = flags].op = b.op
BY DEF IsBubble

\* A Const
LEMMA DataMade ==
    ASSUME NEW name, NEW data, NEW dtype
    PROVE  IsBubble(DataBubble(name, data, dtype)) /\ DataBubble(name, data, dtype).op = "const"
<1> DEFINE b == Bubble("const", name)
<1>1. IsBubble(b) /\ b.op = "const"
  BY OperatorMade
<1>2. DataBubble(name, data, dtype) = [b EXCEPT !.data = data, !.dtype = dtype]
  BY DEF DataBubble
<1> HIDE DEF b
<1> QED
  BY <1>1, <1>2 DEF IsBubble

\* A cast between two precisions
LEMMA CastMade ==
    ASSUME NEW p, NEW dtype, NEW n
    PROVE  IsBubble(CastBubble(p, dtype, n)) /\ CastBubble(p, dtype, n).op = "cast"
<1> DEFINE b == Bubble("cast", <<p.bubbles[n].name, dtype>>)
<1>1. IsBubble(b) /\ b.op = "cast"
  BY OperatorMade
<1>2. CastBubble(p, dtype, n) = [b EXCEPT !.dtype = dtype]
  BY DEF CastBubble
<1> HIDE DEF b
<1> QED
  BY <1>1, <1>2 DEF IsBubble

\* An operator other than gemm may have any inputs, an end point none.
LEMMA Linkable ==
    /\ \A op, inputs : op \notin EndPoints \union {"gemm"} => IsLinkedAs(op, inputs)
    /\ \A op : op \in EndPoints => IsLinkedAs(op, <<>>)
    /\ \A name \in {"inner_prod", "mul", "add", "cast", "conv2d_winograd"} : name \notin EndPoints \union {"gemm"}
    /\ "const" \in EndPoints
BY DEF IsLinkedAs, EndPoints

\* What is known of one node
LEMMA NodeOfPool ==
    ASSUME NEW p, IsPool(p), NEW n \in NodesOf(p)
    PROVE  /\ p.links[n] \in Seq(NodesOf(p))
           /\ IsBubble(p.bubbles[n])
           /\ IsLinkedAs(OpOf(p, n), p.links[n])
           /\ IsLinkedAs(p.bubbles[n].op, p.links[n])
BY DEF IsPool, LinksOK, BubblesOK, OpOf

\* Translator::translate_node copies a node that no option concerns.
LEMMA CopiedGrows ==
    ASSUME NEW p, IsPool(p), NEW n \in NodesOf(p)
    PROVE  Grown(p, Copied(p, n))
<1>1. Extends(p, p)
  BY ExtendsItself
<1>2. /\ p.links[n] \in Seq(NodesOf(p))
      /\ IsBubble(p.bubbles[n])
      /\ IsLinkedAs(p.bubbles[n].op, p.links[n])
  BY NodeOfPool
<1> QED
  BY ONLY IsPool(p), <1>1, <1>2, GrownByOne DEF Copied

\* A Const of a gemm is transposed in place.
LEMMA WithTransposedChanges ==
    ASSUME NEW p, IsPool(p), NEW n, NEW flag, NEW b, NEW first, Extends(first, p)
    PROVE  LET q == WithTransposed(p, n, flag, b)
           IN  IsPool(q) /\ NodesOf(q) = NodesOf(p) /\ Extends(first, q)
BY WithDataChanges DEF WithTransposed

\* A Const and a product with it
LEMMA ScaledGrows ==
    ASSUME NEW first, NEW p, IsPool(p), Extends(first, p), NEW b, NEW factor, NEW n \in NodesOf(p)
    PROVE  LET q == Scaled(p, b, factor, n)
           IN  Grown(first, q) /\ Newest(p) \in Nat /\ NodesOf(p) \subseteq NodesOf(q)
<1> DEFINE const == DataBubble(<<b.name, factor>>, <<factor, b.name>>, "float32")
           mul == Bubble("mul", <<b.name, "mul", factor>>)
           p1 == Made(p, const, <<>>)
           q == Made(p1, mul, <<Newest(p) + 1, n>>)
<1>1. IsBubble(const) /\ IsLinkedAs(const.op, <<>>)
  BY OperatorMade, DataMade, CastMade, FlagsMade, Linkable
<1>2. IsBubble(mul) /\ \A inputs : IsLinkedAs(mul.op, inputs)
  BY OperatorMade, DataMade, CastMade, FlagsMade, Linkable
<1>3. <<>> \in Seq(NodesOf(p))
  BY EmptySeq
<1> HIDE DEF const, mul
<1>4. Grown(first, p1) /\ NodesOf(p) \subseteq NodesOf(p1) /\ Newest(p1) = Newest(p) + 1
  BY ONLY IsPool(p), Extends(first, p), <1>1, <1>3, GrownByOne
<1> HIDE DEF p1
<1>5. IsPool(p1) /\ Extends(first, p1) /\ Newest(p1) \in NodesOf(p1)
  BY <1>4 DEF Grown
<1>6. <<Newest(p) + 1, n>> \in Seq(NodesOf(p1))
  BY <1>4, <1>5
<1>7. Grown(first, q) /\ NodesOf(p1) \subseteq NodesOf(q)
  BY ONLY <1>2, <1>5, <1>6, GrownByOne
<1>8. q = Scaled(p, b, factor, n)
  BY DEF Scaled, const, mul, p1
<1>9. Newest(p) \in Nat
  BY NewestIsLast DEF IsPool
<1> HIDE DEF q
<1> QED
  BY <1>4, <1>7, <1>8, <1>9

\* A gemm becomes products and a sum; the last of them has its name.
LEMMA PackGemmGrows ==
    ASSUME NEW p, IsPool(p), NEW n \in NodesOf(p), OpOf(p, n) = "gemm"
    PROVE  Grown(p, PackGemm(p, n))
<1> DEFINE b        == p.bubbles[n]
           operands == p.links[n]
           once     == WithTransposed(p, operands[1], "transA", b)
           consts   == WithTransposed(once, operands[2], "transB", b)
           product  == Made(consts, Bubble("inner_prod", <<b.name, "product">>), <<operands[1], operands[2]>>)
           scaled   == Given("alpha", b, Scaled(product, b, "alpha", Newest(product)), product)
           shift    == Scaled(scaled, b, "beta", operands[3])
           sum      == Made(shift, Bubble("add", <<b.name, "sum">>), <<Newest(scaled), Newest(shift)>>)
           whole    == Given("beta", b, sum, scaled)
           named    == [whole EXCEPT !.bubbles[Newest(whole)].name = b.name]
<1>0. PackGemm(p, n) = named
  BY DEF PackGemm
<1>1. operands \in Seq(NodesOf(p)) /\ Len(operands) = 3
  BY NodeOfPool DEF IsLinkedAs
<1>2. operands[1] \in NodesOf(p) /\ operands[2] \in NodesOf(p) /\ operands[3] \in NodesOf(p)
  BY <1>1
<1> HIDE DEF b, operands
<1>3. IsPool(once) /\ NodesOf(once) = NodesOf(p) /\ Extends(p, once)
  BY WithTransposedChanges, ExtendsItself
<1> HIDE DEF once
<1>4. IsPool(consts) /\ NodesOf(consts) = NodesOf(p) /\ Extends(p, consts)
  BY <1>3, WithTransposedChanges
<1> HIDE DEF consts
<1>5. Grown(p, product) /\ NodesOf(p) \subseteq NodesOf(product)
  <2> DEFINE bubble == Bubble("inner_prod", <<b.name, "product">>)
  <2>1. IsBubble(bubble) /\ IsLinkedAs(bubble.op, <<operands[1], operands[2]>>)
    BY OperatorMade, DataMade, CastMade, FlagsMade, Linkable
  <2>2. <<operands[1], operands[2]>> \in Seq(NodesOf(consts))
    BY <1>2, <1>4
  <2> HIDE DEF bubble
  <2>3. Grown(p, Made(consts, bubble, <<operands[1], operands[2]>>))
    BY ONLY <1>4, <2>1, <2>2, GrownByOne
  <2> QED
    BY <2>3 DEF bubble, Grown, Extends
<1> HIDE DEF product
<1>6. Grown(p, scaled) /\ NodesOf(p) \subseteq NodesOf(scaled)
  <2>1. IsPool(product) /\ Extends(p, product) /\ Newest(product) \in NodesOf(product)
    BY <1>5 DEF Grown
  <2>2. Grown(p, Scaled(product, b, "alpha", Newest(product)))
    BY <2>1, ScaledGrows
  <2>3. Grown(p, scaled)
    BY <2>2, <1>5 DEF Given
  <2> QED
    BY <2>3 DEF Grown, Extends
<1> HIDE DEF scaled
<1>7. Grown(p, shift) /\ NodesOf(scaled) \subseteq NodesOf(shift)
  <2>1. IsPool(scaled) /\ Extends(p, scaled)
    BY <1>6 DEF Grown
  <2> QED
    BY <2>1, <1>2, <1>6, ScaledGrows
<1> HIDE DEF shift
<1>8. Grown(p, sum)
  <2> DEFINE bubble == Bubble("add", <<b.name, "sum">>)
  <2>1. IsBubble(bubble) /\ IsLinkedAs(bubble.op, <<Newest(scaled), Newest(shift)>>)
    BY OperatorMade, DataMade, CastMade, FlagsMade, Linkable
  <2>2. IsPool(shift) /\ Extends(p, shift) /\ Newest(shift) \in NodesOf(shift) /\ Newest(scaled) \in NodesOf(scaled)
    BY <1>6, <1>7 DEF Grown
  <2>3. <<Newest(scaled), Newest(shift)>> \in Seq(NodesOf(shift))
    BY <2>2, <1>7
  <2> HIDE DEF bubble
  <2>4. Grown(p, Made(shift, bubble, <<Newest(scaled), Newest(shift)>>))
    BY ONLY <2>1, <2>2, <2>3, GrownByOne
  <2> QED
    BY <2>4 DEF bubble
<1> HIDE DEF sum
<1>9. Grown(p, whole)
  BY <1>6, <1>8 DEF Given
<1> HIDE DEF whole
<1>10. Grown(p, named)
  <2>1. IsPool(whole)
    BY <1>9 DEF Grown
  <2>2. whole = [bubbles |-> whole.bubbles, links |-> whole.links] /\ BubblesOK(whole)
    BY <2>1 DEF IsPool
  <2>3. /\ named.links = whole.links /\ named = [bubbles |-> named.bubbles, links |-> named.links]
        /\ named.bubbles = [whole.bubbles EXCEPT ![Newest(whole)].name = b.name]
    BY <2>2
  <2>4. named.bubbles = [m \in NodesOf(whole) |-> named.bubbles[m]]
    BY <2>2, <2>3 DEF BubblesOK, NodesOf
  <2>5. ASSUME NEW m \in NodesOf(whole) PROVE IsBubble(named.bubbles[m]) /\ OpOf(named, m) = OpOf(whole, m)
    <3>1. IsBubble(whole.bubbles[m])
      BY <2>2 DEF BubblesOK
    <3>2. named.bubbles[m] = whole.bubbles[m] \/ named.bubbles[m] = [whole.bubbles[m] EXCEPT !.name = b.name]
      BY <2>3 DEF NodesOf
    <3>3. IsBubble(named.bubbles[m]) /\ named.bubbles[m].op = whole.bubbles[m].op
      BY <3>1, <3>2 DEF IsBubble
    <3> QED
      BY <3>3 DEF OpOf
  <2> HIDE DEF named
  <2> QED
    BY ONLY <2>1, <2>3, <2>4, <2>5, <1>9, BubbleChanged
<1> QED
  BY <1>0, <1>10

\* A kernel is packed in place, and the operator copied with a flag.
LEMMA PackKernelGrows ==
    ASSUME NEW p, IsPool(p), NEW n \in NodesOf(p)
    PROVE  Grown(p, PackKernel(p, n))
<1> DEFINE b      == p.bubbles[n]
           kernel == p.links[n][PackedBy(p, n)]
           data   == Given("transpose", b, Transposed(ConstData(p, kernel)), ConstData(p, kernel))
           packed == WithData(p, kernel, Packed(Layout(b.op), data))
           flags  == (b.flags \ {"transpose"}) \union {"kernel_packed"}
           bubble == [b EXCEPT !.flags = flags]
<1>1. PackKernel(p, n) = Made(packed, bubble, p.links[n])
  BY DEF PackKernel
<1>2. /\ p.links[n] \in Seq(NodesOf(p))
      /\ IsBubble(b)
      /\ IsLinkedAs(b.op, p.links[n])
  BY NodeOfPool
<1>3. IsPool(packed) /\ NodesOf(packed) = NodesOf(p) /\ Extends(p, packed)
  BY WithDataChanges, ExtendsItself
<1>4. IsBubble(bubble) /\ bubble.op = b.op
  BY <1>2, OperatorMade, DataMade, CastMade, FlagsMade
<1> HIDE DEF packed, bubble
<1>5. IsLinkedAs(bubble.op, p.links[n]) /\ p.links[n] \in Seq(NodesOf(packed))
  BY <1>2, <1>3, <1>4
<1>6. Grown(p, Made(packed, bubble, p.links[n]))
  BY ONLY <1>3, <1>4, <1>5, GrownByOne
<1> QED
  BY <1>1, <1>6

\* Whatever the option pack does with a node
LEMMA PackGrows ==
    ASSUME NEW p, IsPool(p), NEW n \in NodesOf(p)
    PROVE  Grown(p, Pack(p, n))
<1>1. CASE PackApplies(p, n) /\ GemmApplies(p, n)
  <2>1. Grown(p, PackGemm(p, n))
    BY <1>1, PackGemmGrows DEF GemmApplies
  <2>2. Pack(p, n) = PackGemm(p, n)
    <3>1. ~KernelApplies(p, n)
      BY <1>1 DEF GemmApplies, KernelApplies, HasKernel
    <3> QED
      BY <1>1, <3>1 DEF Pack
  <2> QED
    BY <2>1, <2>2
<1>2. CASE PackApplies(p, n) /\ ~GemmApplies(p, n) /\ KernelApplies(p, n)
  <2>1. Pack(p, n) = PackKernel(p, n)
    BY <1>2 DEF Pack
  <2> QED
    BY <2>1, PackKernelGrows
<1>3. CASE ~PackApplies(p, n) \/ (~GemmApplies(p, n) /\ ~KernelApplies(p, n))
  <2>1. Pack(p, n) = Copied(p, n)
    BY <1>3 DEF Pack
  <2> QED
    BY <2>1, CopiedGrows
<1> QED
  BY <1>1, <1>2, <1>3

-----------------------------------------------------------------------------
\* What a set holds is listed.
LEMMA SetIsListed ==
    ASSUME NEW S, IsFiniteSet(S)
    PROVE  /\ Cardinality(S) \in Nat
           /\ SetToSeq(S) \in [1 .. Cardinality(S) -> S]
           /\ \A x \in S : \E k \in 1 .. Cardinality(S) : SetToSeq(S)[k] = x
<1> DEFINE count == Cardinality(S)
           list == SetToSeq(S)
<1>1. count \in Nat /\ ExistsBijection(1 .. count, S)
  BY FS_CardinalityType
<1>2. PICK f \in Bijection(1 .. count, S) : TRUE
  BY <1>1 DEF ExistsBijection
<1>3. f \in [1 .. count -> S] /\ IsInjective(f)
  BY <1>2 DEF Bijection, Injection, IsInjective
<1>4. list \in [1 .. count -> S] /\ IsInjective(list)
  BY <1>3 DEF SetToSeq
<1> HIDE DEF list
<1>5. list \in Injection(1 .. count, S)
  BY <1>4 DEF Injection, IsInjective
<1>6. Cardinality(1 .. count) = count
  BY <1>1, FS_Interval
<1>7. list \in Surjection(1 .. count, S)
  BY <1>5, <1>6, FS_Injection
<1>8. \A x \in S : \E k \in 1 .. count : list[k] = x
  BY <1>7 DEF Surjection
<1> QED
  BY <1>1, <1>4, <1>8 DEF list

\* Inputs that may be given to an operator may be exchanged.
LEMMA LinkedAsLong ==
    ASSUME NEW N, NEW op, NEW s \in Seq(N), NEW r \in Seq(N), IsLinkedAs(op, s), Len(r) = Len(s)
    PROVE  IsLinkedAs(op, r)
<1>1. s = <<>> => r = <<>>
  BY EmptySeq
<1> QED
  BY <1>1 DEF IsLinkedAs

\* New nodes are casts of inputs of n, and the others are inputs of a copy of n, instead of n's.
CastsAre(p, n, new, count, needed) ==
    /\ CanBeMade(p, new, count)
    /\ \A k \in 1 .. count : new[k].bubble.op = "cast" /\ new[k].bubble.flags = {}
    /\ needed \in Seq(NodesOf(MadeAll(p, new))) /\ Len(needed) = Len(p.links[n])
    /\ \A j \in 1 .. Len(p.links[n]) :
          \/ needed[j] = p.links[n][j]
          \/ \E k \in 1 .. count : needed[j] = Newest(p) + k /\ new[k].inputs = <<p.links[n][j]>>

\* What WithCasts makes
LEMMA WithCastsMakes ==
    ASSUME NEW p, IsPool(p), NEW n \in NodesOf(p)
    PROVE  \E new, count, needed : /\ CastsAre(p, n, new, count, needed)
                                   /\ WithCasts(p, n) = Made(MadeAll(p, new), p.bubbles[n], needed)
<1> DEFINE inputs  == p.links[n]
           S       == {j \in DOMAIN inputs : Needed(p, n, j) # "none"}
           casts   == SetToSeq(S)
           At(j)   == Newest(p) + CHOOSE k \in DOMAIN casts : casts[k] = j
           Cast(j) == New(CastBubble(p, Needed(p, n, j), inputs[j]), <<inputs[j]>>)
           new     == [k \in DOMAIN casts |-> Cast(casts[k])]
           q       == MadeAll(p, new)
           needed  == [j \in DOMAIN inputs |-> IF Needed(p, n, j) = "none" THEN inputs[j] ELSE At(j)]
           count   == Cardinality(S)
<1>1. WithCasts(p, n) = Made(q, p.bubbles[n], needed)
  BY DEF WithCasts
<1>2. /\ inputs \in Seq(NodesOf(p))
      /\ IsBubble(p.bubbles[n])
      /\ IsLinkedAs(p.bubbles[n].op, inputs)
  BY NodeOfPool
<1>3. Len(inputs) \in Nat /\ DOMAIN inputs = 1 .. Len(inputs) /\ \A j \in DOMAIN inputs : inputs[j] \in NodesOf(p)
  BY <1>2
<1>4. IsFiniteSet(S)
  <2>1. IsFiniteSet(1 .. Len(inputs))
    BY <1>3, FS_Interval
  <2> QED
    BY <2>1, <1>3, FS_Subset
<1>5. /\ count \in Nat
      /\ casts \in [1 .. count -> S]
      /\ \A j \in S : \E k \in 1 .. count : casts[k] = j
  BY <1>4, SetIsListed
<1>6. \A j \in S : j \in DOMAIN inputs /\ inputs[j] \in NodesOf(p)
  BY <1>3
<1> HIDE DEF casts, count, S
<1>7. DOMAIN new = 1 .. count /\ \A k \in 1 .. count : new[k] = Cast(casts[k])
  BY <1>5
<1>8. CanBeMade(p, new, count)
  <2>1. Len(new) = count
    BY <1>5, <1>7
  <2>2. ASSUME NEW k \in 1 .. count
        PROVE  /\ IsBubble(new[k].bubble)
               /\ new[k].inputs \in Seq(NodesOf(p))
               /\ IsLinkedAs(new[k].bubble.op, new[k].inputs)
    <3>1. casts[k] \in S
      BY <1>5
    <3>2. /\ new[k].bubble = CastBubble(p, Needed(p, n, casts[k]), inputs[casts[k]])
          /\ new[k].inputs = <<inputs[casts[k]]>>
      BY <1>7 DEF New
    <3>3. <<inputs[casts[k]]>> \in Seq(NodesOf(p))
      BY <3>1, <1>6
    <3>4. \A b : b.op = "cast" => IsLinkedAs(b.op, <<inputs[casts[k]]>>)
      BY Linkable
    <3> HIDE DEF new
    <3>5. IsBubble(new[k].bubble) /\ new[k].bubble.op = "cast"
      BY <3>2, CastMade
    <3> QED
      BY <3>2, <3>3, <3>4, <3>5
  <2> QED
    BY <2>1, <2>2, <1>5 DEF CanBeMade
<1> HIDE DEF new, q
<1>9. IsPool(q) /\ Extends(p, q) /\ NodesOf(q) = NodesOf(p) \union NextIds(p, count)
  <2>1. IsPool(MadeAll(p, new)) /\ NodesOf(MadeAll(p, new)) = NodesOf(p) \union NextIds(p, count)
    BY ONLY IsPool(p), <1>8, PoolGrows
  <2>2. \A m \in NodesOf(p) : MadeAll(p, new).bubbles[m] = p.bubbles[m] /\ MadeAll(p, new).links[m] = p.links[m]
    BY ONLY IsPool(p), <1>8, PoolGrows
  <2> QED
    BY <2>1, <2>2 DEF q, Extends, OpOf
<1>10. needed \in Seq(NodesOf(q)) /\ Len(needed) = Len(inputs)
  <2>1. ASSUME NEW j \in DOMAIN inputs PROVE needed[j] \in NodesOf(q)
    <3>1. CASE Needed(p, n, j) = "none"
      BY <3>1, <1>3, <1>9
    <3>2. CASE Needed(p, n, j) # "none"
      <4>1. j \in S
        BY <3>2 DEF S
      <4> DEFINE k == CHOOSE i \in DOMAIN casts : casts[i] = j
      <4>2. k \in 1 .. count
        BY <4>1, <1>5
      <4> HIDE DEF k
      <4>3. Newest(p) + k \in NextIds(p, count)
        <5>1. Newest(p) \in Nat
          BY NewestIsLast DEF IsPool
        <5> QED
          BY <5>1, <4>2, <1>5 DEF NextIds
      <4>4. needed[j] = Newest(p) + k
        BY <3>2 DEF k
      <4> QED
        BY <4>3, <4>4, <1>9
    <3> QED
      BY <3>1, <3>2
  <2>2. DOMAIN needed = 1 .. Len(inputs)
    BY <1>3
  <2> HIDE DEF needed
  <2>3. needed = [j \in 1 .. Len(inputs) |-> needed[j]]
    BY DEF needed
  <2> QED
    BY <2>1, <2>2, <2>3, <1>3
<1>11. ASSUME NEW k \in 1 .. count
       PROVE  /\ new[k].bubble.op = "cast" /\ new[k].bubble.flags = {}
              /\ new[k].inputs = <<inputs[casts[k]]>>
  <2>1. /\ new[k].bubble = CastBubble(p, Needed(p, n, casts[k]), inputs[casts[k]])
        /\ new[k].inputs = <<inputs[casts[k]]>>
    BY <1>7 DEF New, new
  <2> QED
    BY <2>1 DEF CastBubble, Bubble
<1>12. ASSUME NEW j \in 1 .. Len(inputs)
       PROVE  \/ needed[j] = inputs[j]
              \/ \E k \in 1 .. count : needed[j] = Newest(p) + k /\ new[k].inputs = <<inputs[j]>>
  <2>1. CASE Needed(p, n, j) = "none"
    BY <1>3, <2>1
  <2>2. CASE Needed(p, n, j) # "none"
    <3>1. j \in S
      BY <1>3, <2>2 DEF S
    <3> DEFINE k == CHOOSE i \in DOMAIN casts : casts[i] = j
    <3>2. k \in 1 .. count /\ casts[k] = j
      BY <3>1, <1>5
    <3>3. needed[j] = Newest(p) + k
      BY <1>3, <2>2
    <3> HIDE DEF k
    <3> QED
      BY <1>11, <3>2, <3>3
  <2> QED
    BY <2>1, <2>2
<1> HIDE DEF needed
<1>13. CastsAre(p, n, new, count, needed)
  BY <1>8, <1>10, <1>11, <1>12 DEF CastsAre, q
<1> QED
  BY <1>1, <1>13 DEF q

\* Casts between a node and its inputs, and a copy of the node
LEMMA WithCastsGrows ==
    ASSUME NEW p, IsPool(p), NEW n \in NodesOf(p)
    PROVE  Grown(p, WithCasts(p, n))
<1>1. PICK new, count, needed : /\ CastsAre(p, n, new, count, needed)
                                /\ WithCasts(p, n) = Made(MadeAll(p, new), p.bubbles[n], needed)
  BY WithCastsMakes
<1>2. PICK q : q = MadeAll(p, new)
  OBVIOUS
<1>3. CanBeMade(p, new, count) /\ needed \in Seq(NodesOf(q)) /\ Len(needed) = Len(p.links[n])
  BY <1>1, <1>2 DEF CastsAre
<1>4. IsPool(q) /\ Extends(p, q)
  <2>1. IsPool(MadeAll(p, new)) /\ NodesOf(MadeAll(p, new)) = NodesOf(p) \union NextIds(p, count)
    BY ONLY IsPool(p), <1>3, PoolGrows
  <2>2. \A m \in NodesOf(p) : MadeAll(p, new).bubbles[m] = p.bubbles[m] /\ MadeAll(p, new).links[m] = p.links[m]
    BY ONLY IsPool(p), <1>3, PoolGrows
  <2> QED
    BY <1>2, <2>1, <2>2 DEF Extends, OpOf
<1>5. IsBubble(p.bubbles[n]) /\ IsLinkedAs(p.bubbles[n].op, p.links[n]) /\ p.links[n] \in Seq(NodesOf(q))
  <2>1. p.links[n] \in Seq(NodesOf(p)) /\ NodesOf(p) \subseteq NodesOf(q)
    BY <1>4, NodeOfPool DEF Extends
  <2> QED
    BY <2>1, NodeOfPool, SeqMonotonic
<1>6. IsLinkedAs(p.bubbles[n].op, needed)
  BY <1>3, <1>5, LinkedAsLong
<1>7. Grown(p, Made(q, p.bubbles[n], needed))
  BY ONLY <1>3, <1>4, <1>5, <1>6, GrownByOne
<1> QED
  BY <1>1, <1>2, <1>7

\* One cast behind a node
LEMMA CastToGrows ==
    ASSUME NEW p, IsPool(p), NEW dtype, NEW n \in NodesOf(p)
    PROVE  Grown(p, CastTo(p, dtype, n))
<1> DEFINE bubble == CastBubble(p, dtype, n)
<1>1. IsBubble(bubble) /\ IsLinkedAs(bubble.op, <<n>>)
  BY CastMade, Linkable
<1>2. <<n>> \in Seq(NodesOf(p)) /\ Extends(p, p)
  BY ExtendsItself
<1> HIDE DEF bubble
<1>3. Grown(p, Made(p, bubble, <<n>>))
  BY ONLY IsPool(p), <1>1, <1>2, GrownByOne
<1> QED
  BY <1>3 DEF CastTo, bubble

\* Whatever the option float16 does with a node
LEMMA Fp16Grows ==
    ASSUME NEW p, IsPool(p), NEW n \in NodesOf(p), NEW isOutput \in BOOLEAN
    PROVE  Grown(p, Fp16(p, n, isOutput))
<1>1. CASE OpOf(p, n) \in EndPoints \union {"cast", "to_float"}
  <2>1. Fp16(p, n, isOutput) \in {Copied(p, n), CastTo(p, "float32", n)}
    BY <1>1 DEF Fp16
  <2> QED
    BY <2>1, CopiedGrows, CastToGrows
<1>2. CASE OpOf(p, n) \notin EndPoints \union {"cast", "to_float"} /\ isOutput /\ OpOf(p, n) \in HalfOps
  BY <1>2, CastToGrows DEF Fp16
<1>3. CASE OpOf(p, n) \notin EndPoints \union {"cast", "to_float"} /\ ~(isOutput /\ OpOf(p, n) \in HalfOps)
  BY <1>3, WithCastsGrows DEF Fp16
<1> QED
  BY <1>1, <1>2, <1>3

\* The variances of the newest node are raised in place.
LEMMA RaiseVarianceGrows ==
    ASSUME NEW first, NEW p, Grown(first, p)
    PROVE  Grown(first, RaiseVariance(p))
<1> DEFINE n      == Newest(p)
           b      == p.bubbles[n]
           const  == Source(p, p.links[n][3])
           raised == Given("epsilon", b, <<"raised", ConstData(p, const)>>, ConstData(p, const))
           flags  == b.flags \ {"epsilon"}
           r      == WithData(p, const, raised)
           q      == [r EXCEPT !.bubbles[n].flags = flags]
<1>1. RaiseVariance(p) \in {p, q}
  BY DEF RaiseVariance
<1>2. IsPool(p)
  BY DEF Grown
<1>3. IsPool(r) /\ Grown(first, r)
  BY <1>2, WithDataChanges
<1> HIDE DEF n, r, flags
<1>4. r = [bubbles |-> r.bubbles, links |-> r.links] /\ BubblesOK(r)
  BY <1>3 DEF IsPool
<1>5. /\ q.links = r.links /\ q = [bubbles |-> q.bubbles, links |-> q.links]
      /\ q.bubbles = [r.bubbles EXCEPT ![n].flags = flags]
  BY <1>4
<1>6. q.bubbles = [m \in NodesOf(r) |-> q.bubbles[m]]
  BY <1>4, <1>5 DEF BubblesOK, NodesOf
<1>7. ASSUME NEW m \in NodesOf(r) PROVE IsBubble(q.bubbles[m]) /\ OpOf(q, m) = OpOf(r, m)
  <2>1. IsBubble(r.bubbles[m])
    BY <1>4 DEF BubblesOK
  <2>2. \/ q.bubbles[m] = r.bubbles[m]
        \/ q.bubbles[m] = [r.bubbles[m] EXCEPT !.flags = flags]
    BY <1>5 DEF NodesOf
  <2> QED
    BY <2>1, <2>2, FlagsMade DEF OpOf
<1> HIDE DEF q
<1>8. Grown(first, q)
  BY ONLY <1>3, <1>5, <1>6, <1>7, BubbleChanged
<1> QED
  BY <1>1, <1>8

\* Translator: a node is made, linked as its original is or to casts of its inputs.
LEMMA TranslatedGrows ==
    ASSUME NEW p, IsPool(p), NEW n \in NodesOf(p), NEW isOutput \in BOOLEAN
    PROVE  Grown(p, RaiseVariance(Translated(p, n, isOutput)))
BY PackGrows, Fp16Grows, RaiseVarianceGrows DEF Translated

\* Zipper: a convolution becomes a new node, anything else stays.
LEMMA ZippedGrows ==
    ASSUME NEW p, IsPool(p), NEW n \in NodesOf(p)
    PROVE  Zipped(p, n) = p \/ Grown(p, Zipped(p, n))
<1> DEFINE b == Bubble("conv2d_winograd", p.bubbles[n].name)
           bubble == [b EXCEPT !.flags = {"NCHW"}]
<1>1. IsBubble(b) /\ b.op = "conv2d_winograd"
  BY OperatorMade
<1> HIDE DEF b
<1>2. IsBubble(bubble) /\ bubble.op = "conv2d_winograd"
  BY <1>1, FlagsMade
<1> HIDE DEF bubble
<1>3. IsBubble(bubble) /\ IsLinkedAs(bubble.op, p.links[n])
  BY <1>2, Linkable
<1>4. p.links[n] \in Seq(NodesOf(p)) /\ Extends(p, p)
  BY NodeOfPool, ExtendsItself
<1>5. Grown(p, Made(p, bubble, p.links[n]))
  BY ONLY IsPool(p), <1>3, <1>4, GrownByOne
<1>6. Winograd(p, n) = Made(p, bubble, p.links[n])
  BY DEF Winograd, bubble, b
<1> QED
  BY <1>5, <1>6 DEF Zipped

-----------------------------------------------------------------------------
(***************************************************************************)
(* The calls of a pass: each has gone through the first inputs of its new  *)
(* node, and all but the innermost wait for the next one.                  *)
(***************************************************************************)
CallsOver(N, F) == [node : N, new : N, inputs : Seq(F), allConst : BOOLEAN, changed : BOOLEAN]

\* A call is not given more inputs than its new node has.
WithinLinks(p, c) == Len(c.inputs) <= Len(p.links[c.new])
\* The next input is n.
WaitsFor(p, c, n) == /\ Len(c.inputs) < Len(p.links[c.new])
                     /\ p.links[c.new][Len(c.inputs) + 1] = n

\* F: what a call has been given so far
CallsOK(p, cs, F) ==
    /\ cs \in Seq(CallsOver(NodesOf(p), F))
    /\ \A i \in 1 .. Len(cs) : WithinLinks(p, cs[i])
    /\ \A i \in 1 .. Len(cs) - 1 : WaitsFor(p, cs[i], cs[i + 1].node)

\* A memo knows results that are finished.
MemoOver(memo, F) == memo \in [DOMAIN memo -> F]

\* A pass that has not begun
LEMMA NoCalls == ASSUME NEW p, NEW F PROVE CallsOK(p, <<>>, F) /\ MemoOver(<<>>, F) /\ <<>> \in Seq(F)
<1>1. <<>> \in Seq(F) /\ <<>> \in Seq(CallsOver(NodesOf(p), F)) /\ Len(<<>>) = 0
  BY EmptySeq
<1>2. CallsOK(p, <<>>, F)
  BY <1>1 DEF CallsOK
<1> QED
  BY <1>1, <1>2 DEF MemoOver

\* A result is filed.
LEMMA EntryAdded ==
    ASSUME NEW memo, NEW F, MemoOver(memo, F), NEW n, NEW result \in F
    PROVE  MemoOver(WithEntry(memo, n, result), F)
BY DEF MemoOver, WithEntry

\* More is finished.
LEMMA MemoKept ==
    ASSUME NEW memo, NEW F, MemoOver(memo, F), NEW G, F \subseteq G
    PROVE  MemoOver(memo, G)
BY DEF MemoOver

\* The node that is looked at next
LEMMA LookedAtIsNode ==
    ASSUME IsPool(pool), NEW F, CallsOK(pool, calls, F), outputs \in Seq(NodesOf(pool)), results \in Seq(F), Looking
    PROVE  LookedAt \in NodesOf(pool) /\ (calls # <<>> => WaitsFor(pool, calls[Len(calls)], LookedAt))
<1>1. CASE calls = <<>>
  <2>1. Len(results) < Len(outputs) /\ Len(results) \in Nat /\ Len(outputs) \in Nat
    BY <1>1, LenProperties DEF Looking
  <2> QED
    BY <2>1, <1>1, ElementOfSeq DEF LookedAt
<1>2. CASE calls # <<>>
  <2> DEFINE c == calls[Len(calls)]
  <2>1. c \in CallsOver(NodesOf(pool), F)
    <3>1. Len(calls) \in 1 .. Len(calls)
      BY <1>2, EmptySeq DEF CallsOK
    <3> QED
      BY <3>1, ElementOfSeq DEF CallsOK
  <2>2. c.new \in NodesOf(pool) /\ Len(c.inputs) \in Nat
    BY <2>1 DEF CallsOver
  <2>3. Caller = c
    BY DEF Caller
  <2> HIDE DEF c
  <2>4. pool.links[c.new] \in Seq(NodesOf(pool))
    BY <2>2, NodeOfPool
  <2>5. Len(c.inputs) < Len(pool.links[c.new]) /\ LookedAt = pool.links[c.new][Len(c.inputs) + 1]
    BY <1>2, <2>3 DEF Looking, LookedAt
  <2>6. LookedAt \in NodesOf(pool)
    BY <2>2, <2>4, <2>5
  <2> QED
    BY <2>5, <2>6 DEF WaitsFor, c
<1> QED
  BY <1>1, <1>2

\* The pool grows, and so does what calls may be given.
LEMMA CallsKept ==
    ASSUME NEW p, NEW cs, NEW F, CallsOK(p, cs, F), NEW q, NEW G, F \subseteq G,
           NodesOf(p) \subseteq NodesOf(q),
           \A i \in 1 .. Len(cs) : q.links[cs[i].new] = p.links[cs[i].new]
    PROVE  CallsOK(q, cs, G)
<1>1. cs \in Seq(CallsOver(NodesOf(p), F))
  BY DEF CallsOK
<1>2. Seq(F) \subseteq Seq(G)
  BY SeqMonotonic
<1>3. CallsOver(NodesOf(p), F) \subseteq CallsOver(NodesOf(q), G)
  BY <1>2 DEF CallsOver
<1>4. cs \in Seq(CallsOver(NodesOf(q), G))
  BY <1>1, <1>3, SeqMonotonic
<1>5. Len(cs) \in Nat
  BY <1>1, LenProperties
<1>6. \A i \in 1 .. Len(cs) : WithinLinks(q, cs[i])
  BY DEF CallsOK, WithinLinks
<1>7. ASSUME NEW i \in 1 .. Len(cs) - 1 PROVE WaitsFor(q, cs[i], cs[i + 1].node)
  <2>1. i \in 1 .. Len(cs)
    BY <1>5
  <2>2. q.links[cs[i].new] = p.links[cs[i].new]
    BY <2>1
  <2>3. WaitsFor(p, cs[i], cs[i + 1].node)
    BY DEF CallsOK
  <2> QED
    BY <2>2, <2>3 DEF WaitsFor
<1> QED
  BY <1>4, <1>6, <1>7 DEF CallsOK

\* A call is made on a node that the innermost call waits for.
LEMMA CallMade ==
    ASSUME NEW p, NEW cs, NEW F, CallsOK(p, cs, F), NEW n \in NodesOf(p), NEW new \in NodesOf(p),
           p.links[new] \in Seq(NodesOf(p)), cs # <<>> => WaitsFor(p, cs[Len(cs)], n)
    PROVE  LET longer == Append(cs, CallOn(n, new))
           IN  /\ CallsOK(p, longer, F)
               /\ Len(longer) = Len(cs) + 1
               /\ longer[Len(cs) + 1] = CallOn(n, new)
               /\ \A i \in 1 .. Len(cs) : longer[i] = cs[i]
<1> DEFINE c == CallOn(n, new)
           longer == Append(cs, c)
           len == Len(cs)
<1>1. c \in CallsOver(NodesOf(p), F) /\ c.node = n /\ c.new = new /\ c.inputs = <<>>
  BY DEF CallOn, CallsOver
<1>2. WithinLinks(p, c)
  BY <1>1 DEF WithinLinks
<1>3. cs \in Seq(CallsOver(NodesOf(p), F)) /\ len \in Nat
  BY DEF CallsOK
<1>4. len # 0 => cs # <<>>
  BY <1>3
<1> HIDE DEF c
<1>5. /\ longer \in Seq(CallsOver(NodesOf(p), F))
      /\ Len(longer) = len + 1
      /\ longer[len + 1] = c
      /\ \A i \in 1 .. len : longer[i] = cs[i]
  BY <1>1, <1>3, AppendProperties
<1> HIDE DEF longer
<1>6. \A i \in 1 .. len + 1 : WithinLinks(p, longer[i])
  BY <1>2, <1>3, <1>5 DEF CallsOK, len
<1>7. ASSUME NEW i \in 1 .. len PROVE WaitsFor(p, longer[i], longer[i + 1].node)
  <2>1. CASE i = len
    <3>1. longer[i] = cs[len] /\ longer[i + 1].node = n /\ len # 0
      BY <2>1, <1>1, <1>3, <1>5
    <3> QED
      BY <3>1, <1>4 DEF len
  <2>2. CASE i # len
    <3>1. i \in 1 .. len - 1 /\ i + 1 \in 1 .. len
      BY <2>2, <1>3
    <3> QED
      BY <3>1, <1>5 DEF CallsOK, len
  <2> QED
    BY <2>1, <2>2
<1>8. CallsOK(p, longer, F)
  <2>1. Len(longer) - 1 = len
    BY <1>3, <1>5
  <2> QED
    BY <1>5, <1>6, <1>7, <2>1 DEF CallsOK
<1> QED
  BY <1>5, <1>8 DEF longer, len, c

\* The innermost call returns.
LEMMA CallersWait ==
    ASSUME NEW p, NEW F, CallsOK(p, calls, F), calls # <<>>
    PROVE  /\ CallsOK(p, Callers, F)
           /\ Len(calls) \in Nat \ {0} /\ Len(Callers) = Len(calls) - 1
           /\ \A i \in 1 .. Len(Callers) : Callers[i] = calls[i]
           /\ Callers # <<>> => WaitsFor(p, Callers[Len(Callers)], Caller.node)
           /\ Caller \in CallsOver(NodesOf(p), F)
           /\ WithinLinks(p, Caller)
<1> DEFINE len == Len(calls)
<1>1. calls \in Seq(CallsOver(NodesOf(p), F)) /\ len \in Nat \ {0}
  BY EmptySeq DEF CallsOK
<1>2. /\ Callers \in Seq(CallsOver(NodesOf(p), F))
      /\ Len(Callers) = len - 1
      /\ \A i \in 1 .. len - 1 : Callers[i] = calls[i]
  <2>1. 1 \in 1 .. Len(calls) + 1 /\ len - 1 \in 1 - 1 .. Len(calls)
    BY <1>1
  <2>2. /\ Callers \in Seq(CallsOver(NodesOf(p), F))
        /\ Len(Callers) = IF 1 <= len - 1 THEN (len - 1) - 1 + 1 ELSE 0
        /\ \A i \in 1 .. (len - 1) - 1 + 1 : Callers[i] = calls[1 + i - 1]
    BY <1>1, <2>1, SubSeqProperties DEF Callers
  <2>3. len \in Nat \ {0}
    BY <1>1
  <2> HIDE DEF len
  <2>4. (len - 1) - 1 + 1 = len - 1 /\ (~(1 <= len - 1) => len - 1 = 0)
    BY <2>3
  <2>5. \A i \in 1 .. len - 1 : 1 + i - 1 = i
    BY <2>3
  <2> QED
    BY <2>2, <2>4, <2>5
<1>3. \A i \in 1 .. len - 1 : WithinLinks(p, Callers[i])
  BY <1>1, <1>2 DEF CallsOK, len
<1>4. \A i \in 1 .. (len - 1) - 1 : WaitsFor(p, Callers[i], Callers[i + 1].node)
  <2>1. \A i \in 1 .. (len - 1) - 1 : i \in 1 .. len - 1 /\ i + 1 \in 1 .. len - 1
    BY <1>1
  <2> QED
    BY <2>1, <1>2 DEF CallsOK, len
<1>5. Callers # <<>> => WaitsFor(p, Callers[Len(Callers)], Caller.node)
  <2> SUFFICES ASSUME Callers # <<>> PROVE WaitsFor(p, Callers[Len(Callers)], Caller.node)
    OBVIOUS
  <2>1. len - 1 \in 1 .. len - 1 /\ (len - 1) + 1 = len
    BY <1>1, <1>2, EmptySeq
  <2>2. WaitsFor(p, calls[len - 1], calls[(len - 1) + 1].node)
    BY <2>1 DEF CallsOK, len
  <2> QED
    BY <2>1, <2>2, <1>2 DEF Caller, len
<1>6. Caller \in CallsOver(NodesOf(p), F) /\ WithinLinks(p, Caller)
  BY <1>1 DEF Caller, CallsOK
<1>7. CallsOK(p, Callers, F)
  BY <1>2, <1>3, <1>4 DEF CallsOK
<1> QED
  BY <1>1, <1>2, <1>5, <1>6, <1>7 DEF len

\* The innermost of cs has received its input; its callers are what they were.
Received(cs, n, result, isConst) ==
    /\ Len(calls') = Len(cs)
    /\ \A i \in 1 .. Len(cs) :
          /\ calls'[i] = IF i = Len(cs) THEN Receive(cs[i], n, result, isConst) ELSE cs[i]
          /\ calls'[i].node = cs[i].node /\ calls'[i].new = cs[i].new

\* What the innermost of cs waits for is returned.
LEMMA ResultReturned ==
    ASSUME NEW p, NEW cs, NEW F, CallsOK(p, cs, F), NEW n,
           cs # <<>> => WaitsFor(p, cs[Len(cs)], n),
           NEW result \in F, NEW isConst \in BOOLEAN, results \in Seq(F),
           ReturnTo(cs, n, result, isConst)
    PROVE  /\ CallsOK(p, calls', F)
           /\ results' \in Seq(F)
           /\ Received(cs, n, result, isConst)
<1>1. CASE cs = <<>>
  <2>1. calls' = <<>> /\ results' = Append(results, result)
    BY <1>1 DEF ReturnTo
  <2>2. Len(cs) = 0
    BY <1>1, EmptySeq
  <2> QED
    BY <2>1, <2>2, <1>1, AppendProperties, NoCalls DEF Received
<1>2. CASE cs # <<>>
  <2> DEFINE len == Len(cs)
             c == Receive(cs[len], n, result, isConst)
  <2>1. calls' = [cs EXCEPT ![len] = c] /\ results' = results
    BY <1>2 DEF ReturnTo
  <2>2. cs \in Seq(CallsOver(NodesOf(p), F)) /\ len \in Nat \ {0}
    BY <1>2, EmptySeq DEF CallsOK
  <2>3. cs[len] \in CallsOver(NodesOf(p), F)
    BY <2>2
  <2>4. /\ c \in CallsOver(NodesOf(p), F)
        /\ c.new = cs[len].new /\ c.node = cs[len].node
        /\ c.inputs = Append(cs[len].inputs, result)
    <3> DEFINE b == cs[len]
    <3>1. c = [b EXCEPT !.inputs = Append(b.inputs, result), !.allConst = b.allConst /\ isConst,
                        !.changed = b.changed \/ result # n]
      BY DEF Receive
    <3>2. b \in CallsOver(NodesOf(p), F)
      BY <2>3
    <3> HIDE DEF b, c
    <3>3. Append(b.inputs, result) \in Seq(F)
      BY <3>2, AppendProperties DEF CallsOver
    <3>4. (b.allConst /\ isConst) \in BOOLEAN /\ (b.changed \/ result # n) \in BOOLEAN
      BY <3>2 DEF CallsOver
    <3>5. c = [node |-> b.node, new |-> b.new, inputs |-> Append(b.inputs, result),
               allConst |-> b.allConst /\ isConst, changed |-> b.changed \/ result # n]
      BY <3>1, <3>2 DEF CallsOver
    <3> QED
      BY <3>2, <3>3, <3>4, <3>5 DEF CallsOver, b
  <2> HIDE DEF c
  <2>5. WithinLinks(p, c)
    <3>1. WaitsFor(p, cs[len], n)
      BY <1>2
    <3>2. Len(c.inputs) = Len(cs[len].inputs) + 1
      BY <2>3, <2>4 DEF CallsOver
    <3>3. Len(cs[len].inputs) \in Nat /\ Len(p.links[c.new]) = Len(p.links[cs[len].new])
      BY <2>3, <2>4 DEF CallsOver
    <3>4. Len(cs[len].inputs) < Len(p.links[c.new])
      BY <3>1, <2>4 DEF WaitsFor
    <3> QED
      BY <3>2, <3>3, <3>4 DEF WithinLinks
  <2>6. /\ calls' \in Seq(CallsOver(NodesOf(p), F))
        /\ Len(calls') = len
        /\ \A i \in 1 .. len : calls'[i] = IF i = len THEN c ELSE cs[i]
    BY <2>1, <2>2, <2>4, ExceptSeq
  <2>7. \A i \in 1 .. len : WithinLinks(p, calls'[i])
    BY <2>5, <2>6 DEF CallsOK
  <2>8. ASSUME NEW i \in 1 .. len - 1 PROVE WaitsFor(p, calls'[i], calls'[i + 1].node)
    <3>1. i \in 1 .. len /\ i # len /\ i + 1 \in 1 .. len
      BY <2>2
    <3>2. calls'[i] = cs[i] /\ calls'[i + 1].node = cs[i + 1].node
      BY <3>1, <2>4, <2>6
    <3>3. WaitsFor(p, cs[i], cs[i + 1].node)
      BY DEF CallsOK
    <3> QED
      BY <3>2, <3>3
  <2>9. CallsOK(p, calls', F)
    BY <2>6, <2>7, <2>8 DEF CallsOK
  <2>10. \A i \in 1 .. len : calls'[i].node = cs[i].node /\ calls'[i].new = cs[i].new
    BY <2>4, <2>6
  <2> QED
    BY <2>1, <2>6, <2>9, <2>10 DEF c, Received
<1> QED
  BY <1>1, <1>2

-----------------------------------------------------------------------------
(***************************************************************************)
(* What is true in every pass                                              *)
(***************************************************************************)
\* The nodes of the module keep their operators and inputs, which is what makes it
\* possible to compile it again.
KeepsModule == \A n \in Originals : OpOf(pool, n) = module.bubbles[n].op /\ pool.links[n] = module.links[n]

\* In every pass the pool is a pool over the nodes of a module.
InPass ==
    /\ module \in Modules
    /\ IsPool(pool)
    /\ KeepsModule
    /\ outputs \in Seq(NodesOf(pool))

\* Nothing was returned yet but what is in F.
Passing(F) ==
    /\ F \subseteq NodesOf(pool)
    /\ CallsOK(pool, calls, F)
    /\ results \in Seq(F)
    /\ MemoOver(ready, F)

\* The nodes that are being translated are not linked to what is finished yet.
Fresh(F) ==
    \A i \in 1 .. Len(calls) :
        /\ calls[i].new \notin F \union Originals
        /\ \A j \in 1 .. Len(calls) : calls[i].new = calls[j].new => i = j

\* The translator: F is what is translated, linked to nothing that is not.
Translates(F) == Closed(pool, F) /\ Passing(F) /\ Fresh(F)

\* Winograd was chosen and the build has it.
WantsZip == Arm /\ Chosen("winograd")
\* The zipper may return any node: those it copies keep their old ones.
Zips == /\ Passing(NodesOf(pool))
        /\ ~WantsZip => calls = <<>> /\ results = <<>> /\ ready = <<>>

\* The nodes of the module are never deleted.
LEMMA OriginalsInPool == ASSUME NEW p, IsPool(p) PROVE Originals \subseteq NodesOf(p)
BY DEF IsPool, Numbered

\* The pool grows.
LEMMA InPassGrows ==
    ASSUME InPass, IsPool(pool'), Extends(pool, pool'), UNCHANGED <<module, outputs>>
    PROVE  InPass'
<1>1. KeepsModule'
  BY OriginalsInPool DEF InPass, KeepsModule, Extends
<1>2. outputs \in Seq(NodesOf(pool'))
  BY SeqMonotonic DEF InPass, Extends
<1> QED
  BY <1>1, <1>2 DEF InPass

\* The calls are about nodes that are still the same in q.
SameNodes(cs, q) ==
    \A i \in 1 .. Len(cs) : cs[i].new \in NodesOf(pool) /\ q.links[cs[i].new] = pool.links[cs[i].new]

\* A larger pool has the nodes that calls are about, with the same links.
LEMMA CallsSeeNodes ==
    ASSUME NEW cs, NEW F, CallsOK(pool, cs, F), NEW q, Extends(pool, q)
    PROVE  SameNodes(cs, q)
<1>1. cs \in Seq(CallsOver(NodesOf(pool), F))
  BY DEF CallsOK
<1>2. \A i \in 1 .. Len(cs) : cs[i] \in CallsOver(NodesOf(pool), F)
  BY <1>1
<1>3. \A i \in 1 .. Len(cs) : cs[i].new \in NodesOf(pool)
  BY <1>2 DEF CallsOver
<1>4. \A i \in 1 .. Len(cs) : q.links[cs[i].new] = pool.links[cs[i].new]
  BY <1>3 DEF Extends
<1> QED
  BY <1>3, <1>4 DEF SameNodes

\* So calls that were as they should stay so.
LEMMA CallsSeeGrowth ==
    ASSUME NEW cs, NEW F, CallsOK(pool, cs, F), NEW q, NEW G, Extends(pool, q), F \subseteq G
    PROVE  CallsOK(q, cs, G)
<1>1. \A i \in 1 .. Len(cs) : q.links[cs[i].new] = pool.links[cs[i].new]
  BY CallsSeeNodes DEF SameNodes
<1>2. NodesOf(pool) \subseteq NodesOf(q)
  BY DEF Extends
<1> QED
  BY ONLY CallsOK(pool, cs, F), F \subseteq G, <1>1, <1>2, CallsKept

\* A call on the node that is looked at, after the pool has grown
LEMMA CallMadeInGrown ==
    ASSUME InPass, NEW F, CallsOK(pool, calls, F), results \in Seq(F), Looking,
           IsPool(pool'), Extends(pool, pool'), NEW new \in NodesOf(pool'),
           calls' = Append(calls, CallOn(LookedAt, new))
    PROVE  /\ CallsOK(pool', calls', F)
           /\ Len(calls) \in Nat /\ Len(calls') = Len(calls) + 1
           /\ calls'[Len(calls) + 1] = CallOn(LookedAt, new)
           /\ \A i \in 1 .. Len(calls) : calls'[i] = calls[i] /\ calls[i].new \in NodesOf(pool)
<1> DEFINE n == LookedAt
<1>1. n \in NodesOf(pool) /\ (calls # <<>> => WaitsFor(pool, calls[Len(calls)], n))
  BY LookedAtIsNode DEF InPass
<1>2. /\ CallsOK(pool', calls, F)
      /\ \A i \in 1 .. Len(calls) : calls[i].new \in NodesOf(pool) /\ pool'.links[calls[i].new] = pool.links[calls[i].new]
  <2>1. CallsOK(pool', calls, F)
    BY CallsSeeGrowth
  <2>2. SameNodes(calls, pool')
    BY CallsSeeNodes
  <2> QED
    BY <2>1, <2>2 DEF SameNodes
<1>3. Len(calls) \in Nat /\ (calls # <<>> => Len(calls) \in 1 .. Len(calls))
  BY EmptySeq DEF CallsOK
<1>4. calls # <<>> => WaitsFor(pool', calls[Len(calls)], n)
  BY <1>1, <1>2, <1>3 DEF WaitsFor
<1>5. n \in NodesOf(pool') /\ pool'.links[new] \in Seq(NodesOf(pool'))
  BY <1>1, NodeOfPool DEF Extends
<1> HIDE DEF n
<1>6. new \in NodesOf(pool')
  OBVIOUS
<1>7. /\ CallsOK(pool', Append(calls, CallOn(n, new)), F)
      /\ Len(Append(calls, CallOn(n, new))) = Len(calls) + 1
      /\ Append(calls, CallOn(n, new))[Len(calls) + 1] = CallOn(n, new)
      /\ \A i \in 1 .. Len(calls) : Append(calls, CallOn(n, new))[i] = calls[i]
  BY ONLY <1>2, <1>4, <1>5, <1>6, CallMade
<1> QED
  BY <1>2, <1>3, <1>7 DEF n

-----------------------------------------------------------------------------
(***************************************************************************)
(* The translation                                                         *)
(***************************************************************************)
LEMMA UseTranslatedKeeps ==
    ASSUME InPass, NEW F, Translates(F), UseTranslated
    PROVE  InPass' /\ Translates(F)'
<1>1. /\ UNCHANGED <<module, pool, outputs, ready, phase>>
      /\ Looking /\ LookedAt \in DOMAIN ready
      /\ ReturnTo(calls, LookedAt, ready[LookedAt], TRUE)
  BY DEF UseTranslated, Translating
<1> DEFINE n == LookedAt
           result == ready[n]
<1>2. CallsOK(pool, calls, F) /\ results \in Seq(F) /\ result \in F
  BY <1>1 DEF Translates, Passing, MemoOver
<1>3. calls # <<>> => WaitsFor(pool, calls[Len(calls)], n)
  BY <1>1, <1>2, LookedAtIsNode DEF InPass
<1>4. ReturnTo(calls, n, result, TRUE) /\ TRUE \in BOOLEAN
  BY <1>1
<1> HIDE DEF n, result
<1>5. /\ CallsOK(pool, calls', F)
      /\ results' \in Seq(F)
      /\ Len(calls') = Len(calls)
      /\ \A i \in 1 .. Len(calls) : calls'[i].new = calls[i].new
  <2>1. CallsOK(pool, calls', F) /\ results' \in Seq(F) /\ Received(calls, n, result, TRUE)
    BY ONLY <1>2, <1>3, <1>4, ResultReturned
  <2> QED
    BY <2>1 DEF Received
<1>6. Fresh(F)'
  BY <1>5 DEF Translates, Fresh
<1>7. Passing(F)' /\ Closed(pool, F)'
  BY <1>1, <1>5 DEF Translates, Passing, Closed
<1>8. InPass'
  BY <1>1 DEF InPass, KeepsModule
<1> QED
  BY <1>6, <1>7, <1>8 DEF Translates

\* A node is translated: the call is about the new one.
LEMMA TranslateNodeKeeps ==
    ASSUME InPass, NEW F, Translates(F), TranslateNode
    PROVE  InPass' /\ Translates(F)'
<1> DEFINE n == LookedAt
           isOutput == calls = <<>>
           new == Newest(pool')
<1>1. /\ UNCHANGED <<module, outputs, results, ready, phase>> /\ Looking
      /\ pool' = RaiseVariance(Translated(pool, n, isOutput))
      /\ calls' = Append(calls, CallOn(n, new))
  BY DEF TranslateNode, Translating
<1>2. CallsOK(pool, calls, F) /\ results \in Seq(F) /\ F \subseteq NodesOf(pool) /\ IsPool(pool)
  BY DEF Translates, Passing, InPass
<1>3. n \in NodesOf(pool)
  BY <1>1, <1>2, LookedAtIsNode DEF InPass
<1>4. Grown(pool, pool')
  BY <1>1, <1>2, <1>3, TranslatedGrows
<1>5. IsPool(pool') /\ Extends(pool, pool') /\ new \in NodesOf(pool') /\ new \notin NodesOf(pool)
  BY <1>4 DEF Grown
<1>6. InPass'
  BY <1>1, <1>5, InPassGrows
<1>7. calls' = Append(calls, CallOn(LookedAt, new))
  BY <1>1
<1> HIDE DEF new
<1>8. /\ CallsOK(pool', calls', F)
      /\ Len(calls) \in Nat /\ Len(calls') = Len(calls) + 1
      /\ calls'[Len(calls) + 1] = CallOn(LookedAt, new)
      /\ \A i \in 1 .. Len(calls) : calls'[i] = calls[i] /\ calls[i].new \in NodesOf(pool)
  BY ONLY InPass, <1>1, <1>2, <1>5, <1>7, CallMadeInGrown
<1>9. calls'[Len(calls) + 1].new = new
  BY <1>8 DEF CallOn
<1>10. Fresh(F)'
  <2> DEFINE len == Len(calls)
  <2>1. \A i \in 1 .. len + 1 : i = len + 1 \/ i \in 1 .. len
    BY <1>8
  <2>2. \A i \in 1 .. len : calls'[i].new \in NodesOf(pool) /\ calls'[i].new = calls[i].new
    BY <1>8
  <2>3. new \notin F \union Originals
    BY <1>2, <1>5, OriginalsInPool
  <2>4. Len(calls') = len + 1 /\ calls'[len + 1].new = new
    BY <1>8, <1>9
  <2>5. \A i \in 1 .. len : /\ calls[i].new \notin F \union Originals
                            /\ \A j \in 1 .. len : calls[i].new = calls[j].new => i = j
    BY DEF Translates, Fresh
  <2> HIDE DEF len
  <2> QED
    BY <2>1, <2>2, <2>3, <2>4, <2>5, <1>5 DEF Fresh
<1>11. Closed(pool', F)
  BY <1>2, <1>5 DEF Translates, Closed, Extends
<1>12. Passing(F)'
  BY <1>1, <1>2, <1>5, <1>8 DEF Passing, Translates, Extends
<1> QED
  BY <1>6, <1>10, <1>11, <1>12 DEF Translates

\* q is p, but x is linked to what is finished, and finished.
IsRelinked(p, q, x, F) ==
    /\ IsPool(q)
    /\ NodesOf(q) = NodesOf(p)
    /\ \A n \in NodesOf(p) : OpOf(q, n) = OpOf(p, n)
    /\ \A n \in NodesOf(p) \ {x} : q.links[n] = p.links[n]
    /\ Closed(q, F \union {x})

\* A node that nothing finished is linked to gets finished inputs.
LEMMA Relinked ==
    ASSUME NEW p, IsPool(p), NEW F, Closed(p, F), NEW x \in NodesOf(p) \ F,
           NEW inputs \in Seq(F), Len(inputs) = Len(p.links[x]),
           NEW q, q = [p EXCEPT !.links[x] = inputs]
    PROVE  IsRelinked(p, q, x, F)
<1> DEFINE N == NodesOf(p)
<1>1. p = [bubbles |-> p.bubbles, links |-> p.links] /\ p.links \in [N -> Seq(N)] /\ F \subseteq N
  BY DEF IsPool, LinksOK, Closed
<1>2. /\ q = [bubbles |-> q.bubbles, links |-> q.links]
      /\ q.bubbles = p.bubbles
      /\ q.links = [p.links EXCEPT ![x] = inputs]
  BY <1>1
<1>3. NodesOf(q) = N
  BY <1>2 DEF NodesOf
<1>4. \A n \in N : OpOf(q, n) = OpOf(p, n)
  BY <1>2 DEF OpOf
<1>5. q.links[x] = inputs /\ \A n \in N \ {x} : q.links[n] = p.links[n]
  BY <1>1, <1>2
<1>6. inputs \in Seq(N) /\ Range(inputs) \subseteq F
  BY <1>1, SeqMonotonic, RangeOfSeq
<1>7. q.links \in [N -> Seq(N)]
  BY <1>1, <1>2, <1>6
<1>8. ASSUME NEW n \in N PROVE IsLinkedAs(OpOf(q, n), q.links[n])
  <2>1. IsLinkedAs(OpOf(p, n), p.links[n])
    BY NodeOfPool
  <2>2. CASE n # x
    BY <2>1, <2>2, <1>4, <1>5
  <2>3. CASE n = x
    <3>1. p.links[x] = <<>> => inputs = <<>>
      <4>1. p.links[x] = <<>> => Len(inputs) = 0
        BY EmptySeq
      <4> QED
        BY <4>1, EmptySeq
    <3> QED
      BY <3>1, <2>1, <2>3, <1>4, <1>5 DEF IsLinkedAs
  <2> QED
    BY <2>2, <2>3
<1>9. Grounded(N, q.links)
  <2>1. Grounded(N, p.links) /\ F \in SUBSET N /\ x \in N \ F
    BY <1>1 DEF IsPool, LinksOK
  <2>2. \A n \in F : Range(p.links[n]) \subseteq F
    BY DEF Closed
  <2>3. \A n \in N \ {x} : q.links[n] = p.links[n]
    BY <1>5
  <2>4. Range(q.links[x]) \subseteq F
    BY <1>5, <1>6
  <2> QED
    BY ONLY <2>1, <2>2, <2>3, <2>4, GroundedRelinked
<1>10. IsPool(q)
  <2>1. LinksOK(q)
    BY <1>3, <1>7, <1>8, <1>9 DEF LinksOK
  <2>2. BubblesOK(q)
    BY <1>2, <1>3 DEF IsPool, BubblesOK
  <2>3. Numbered(q)
    BY <1>3 DEF IsPool, Numbered
  <2> QED
    BY <1>2, <2>1, <2>2, <2>3 DEF IsPool
<1>11. Closed(q, F \union {x})
  <2>1. \A n \in F : Range(q.links[n]) \subseteq F
    BY <1>1, <1>5 DEF Closed
  <2> QED
    BY <2>1, <1>1, <1>3, <1>5, <1>6 DEF Closed
<1> QED
  BY <1>3, <1>4, <1>5, <1>10, <1>11 DEF IsRelinked

\* The innermost call has seen all inputs.
LEMMA AllInputs ==
    ASSUME IsPool(pool), NEW F, CallsOK(pool, calls, F), Seen
    PROVE  /\ calls # <<>>
           /\ Caller \in CallsOver(NodesOf(pool), F)
           /\ Len(Caller.inputs) = Len(pool.links[Caller.new])
<1>1. calls # <<>> /\ ~(Len(Caller.inputs) < Len(pool.links[Caller.new]))
  BY DEF Seen, Looking
<1>2. Caller \in CallsOver(NodesOf(pool), F) /\ WithinLinks(pool, Caller)
  BY <1>1, CallersWait
<1>3. Caller.inputs \in Seq(F) /\ Caller.new \in NodesOf(pool)
  BY <1>2 DEF CallsOver
<1>4. pool.links[Caller.new] \in Seq(NodesOf(pool))
  BY <1>3, NodeOfPool
<1>5. Len(Caller.inputs) \in Nat /\ Len(pool.links[Caller.new]) \in Nat
  BY <1>3, <1>4, LenProperties
<1> QED
  BY <1>1, <1>2, <1>5 DEF WithinLinks

\* A node whose inputs are translated is linked to those, and is finished.
LEMMA LinkTranslatedKeeps ==
    ASSUME InPass, NEW F, Translates(F), LinkTranslated
    PROVE  InPass' /\ \E G : Translates(G)'
<1>0. PICK x, n, G : x = Caller.new /\ n = Caller.node /\ G = F \union {x}
  OBVIOUS
<1>1. /\ UNCHANGED <<module, outputs, phase>> /\ Seen
      /\ pool' = [pool EXCEPT !.links[x] = Caller.inputs]
      /\ ready' = WithEntry(ready, n, x)
      /\ ReturnTo(Callers, n, x, TRUE)
  BY <1>0 DEF LinkTranslated, Translating
<1>2. /\ IsPool(pool) /\ Closed(pool, F) /\ CallsOK(pool, calls, F) /\ results \in Seq(F)
      /\ F \subseteq NodesOf(pool) /\ MemoOver(ready, F)
  BY DEF InPass, Translates, Passing
<1>3. /\ calls # <<>>
      /\ Caller \in CallsOver(NodesOf(pool), F)
      /\ Len(Caller.inputs) = Len(pool.links[x])
  BY <1>0, <1>1, <1>2, AllInputs
<1>4. x \in NodesOf(pool) /\ Caller.inputs \in Seq(F)
  BY <1>0, <1>3 DEF CallsOver
<1>5. /\ CallsOK(pool, Callers, F)
      /\ Len(calls) \in Nat \ {0} /\ Len(Callers) = Len(calls) - 1
      /\ \A i \in 1 .. Len(Callers) : Callers[i] = calls[i]
      /\ Callers # <<>> => WaitsFor(pool, Callers[Len(Callers)], n)
  BY <1>0, <1>2, <1>3, CallersWait
<1>6. x \notin F \union Originals /\ \A i \in 1 .. Len(Callers) : Callers[i].new # x
  <2>1. Len(calls) \in 1 .. Len(calls) /\ calls[Len(calls)].new = x
    BY <1>0, <1>5 DEF Caller
  <2>2. \A i \in 1 .. Len(Callers) : i \in 1 .. Len(calls) /\ i # Len(calls)
    BY <1>5
  <2> QED
    BY <2>1, <2>2, <1>5 DEF Translates, Fresh
<1>7. /\ IsPool(pool')
      /\ NodesOf(pool') = NodesOf(pool)
      /\ \A m \in NodesOf(pool) : OpOf(pool', m) = OpOf(pool, m)
      /\ \A m \in NodesOf(pool) \ {x} : pool'.links[m] = pool.links[m]
      /\ Closed(pool', G)
  <2>1. x \in NodesOf(pool) \ F
    BY <1>4, <1>6
  <2>2. IsRelinked(pool, pool', x, F)
    BY ONLY <1>1, <1>2, <1>3, <1>4, <2>1, Relinked
  <2> QED
    BY <1>0, <2>2 DEF IsRelinked
<1>8. InPass'
  <2>1. KeepsModule'
    BY <1>1, <1>2, <1>6, <1>7, OriginalsInPool DEF InPass, KeepsModule
  <2> QED
    BY <2>1, <1>1, <1>7 DEF InPass
<1>9. ASSUME NEW i \in 1 .. Len(Callers) PROVE pool'.links[Callers[i].new] = pool.links[Callers[i].new]
  <2>1. Callers \in Seq(CallsOver(NodesOf(pool), F))
    BY <1>5 DEF CallsOK
  <2>2. Callers[i] \in CallsOver(NodesOf(pool), F)
    BY <2>1
  <2>3. Callers[i].new \in NodesOf(pool)
    BY <2>2 DEF CallsOver
  <2> QED
    BY <2>3, <1>6, <1>7
<1>10. CallsOK(pool', Callers, G)
  <2>1. F \subseteq G /\ NodesOf(pool) \subseteq NodesOf(pool')
    BY <1>0, <1>7
  <2> QED
    BY ONLY <2>1, <1>5, <1>9, CallsKept
<1>11. Callers # <<>> => WaitsFor(pool', Callers[Len(Callers)], n)
  <2>1. Callers # <<>> => Len(Callers) \in 1 .. Len(Callers)
    BY <1>5, EmptySeq DEF CallsOK
  <2> QED
    BY <2>1, <1>5, <1>9 DEF WaitsFor
<1>12. x \in G /\ results \in Seq(G) /\ TRUE \in BOOLEAN /\ ReturnTo(Callers, n, x, TRUE)
  <2>1. F \subseteq G /\ x \in G
    BY <1>0
  <2> QED
    BY <2>1, <1>1, <1>2, SeqMonotonic
<1>13. CallsOK(pool', calls', G) /\ results' \in Seq(G) /\ Received(Callers, n, x, TRUE)
  BY ONLY <1>10, <1>11, <1>12, ResultReturned
<1>14. Passing(G)'
  <2>1. MemoOver(ready', G)
    <3>1. MemoOver(ready, G)
      BY <1>0, <1>2, MemoKept
    <3> QED
      BY <3>1, <1>1, <1>12, EntryAdded
  <2> QED
    BY <2>1, <1>2, <1>4, <1>7, <1>13, <1>0 DEF Passing
<1>15. Fresh(G)'
  <2>1. /\ Len(calls') = Len(Callers)
        /\ \A i \in 1 .. Len(Callers) : calls'[i].new = Callers[i].new
    BY <1>13 DEF Received
  <2>2. \A i \in 1 .. Len(Callers) : i \in 1 .. Len(calls) /\ calls'[i].new = calls[i].new
    BY <2>1, <1>5
  <2> QED
    BY <2>1, <2>2, <1>0, <1>5, <1>6 DEF Translates, Fresh
<1> QED
  BY <1>7, <1>8, <1>14, <1>15 DEF Translates

\* A pass begins: nothing was looked at yet.
LEMMA PassStarts ==
    ASSUME NEW p
    PROVE  Closed(p, {}) /\ CallsOK(p, <<>>, {}) /\ <<>> \in Seq({}) /\ MemoOver(<<>>, {})
           /\ CallsOK(p, <<>>, NodesOf(p)) /\ <<>> \in Seq(NodesOf(p)) /\ MemoOver(<<>>, NodesOf(p))
           /\ Len(<<>>) = 0
BY NoCalls, EmptySeq DEF Closed

\* The translated outputs become those of the graph.
LEMMA LoadTranslatedKeeps ==
    ASSUME InPass, NEW F, Translates(F), LoadTranslated
    PROVE  InPass' /\ Zips'
<1>1. /\ calls = <<>> /\ calls' = <<>> /\ results' = <<>> /\ ready' = <<>> /\ outputs' = results
      /\ UNCHANGED <<module, pool>>
  BY DEF LoadTranslated, AllSeen, NextPass, Translating
<1>2. outputs' \in Seq(NodesOf(pool))
  BY <1>1, SeqMonotonic DEF Translates, Passing
<1>3. InPass'
  BY <1>1, <1>2 DEF InPass, KeepsModule
<1>4. Zips'
  BY <1>1, PassStarts DEF Zips, Passing
<1> QED
  BY <1>3, <1>4

\* The passes leave the pool alone when they reject the module.
LEMMA RejectedKeeps ==
    ASSUME InPass, UNCHANGED <<module, pool, outputs>>
    PROVE  InPass'
BY DEF InPass, KeepsModule

-----------------------------------------------------------------------------
(***************************************************************************)
(* The zipper                                                              *)
(***************************************************************************)
LEMMA UseZippedKeeps ==
    ASSUME InPass, Zips, UseZipped
    PROVE  InPass' /\ Zips'
<1>0. PICK n, N : n = LookedAt /\ N = NodesOf(pool)
  OBVIOUS
<1>1. /\ UNCHANGED <<module, pool, outputs, ready>> /\ WantsZip /\ WantsZip'
      /\ Looking /\ n \in DOMAIN ready
      /\ ReturnTo(calls, n, ready[n], TRUE) /\ TRUE \in BOOLEAN
  BY <1>0 DEF UseZipped, StartsZip, Zipping, WantsZip, Chosen
<1>2. CallsOK(pool, calls, N) /\ results \in Seq(N) /\ MemoOver(ready, N) /\ ready[n] \in N
  BY <1>0, <1>1 DEF Zips, Passing, MemoOver
<1>3. calls # <<>> => WaitsFor(pool, calls[Len(calls)], n)
  BY <1>0, <1>1, <1>2, LookedAtIsNode DEF InPass
<1>4. CallsOK(pool, calls', N) /\ results' \in Seq(N)
  BY ONLY <1>1, <1>2, <1>3, ResultReturned
<1>5. Zips'
  BY <1>0, <1>1, <1>2, <1>4 DEF Zips, Passing
<1>6. InPass'
  BY <1>1, RejectedKeeps
<1> QED
  BY <1>5, <1>6

\* A node is zipped: the call is about what came out.
LEMMA ZipNodeKeeps ==
    ASSUME InPass, Zips, ZipNode
    PROVE  InPass' /\ Zips'
<1>0. PICK n, N, M, new : /\ n = LookedAt /\ N = NodesOf(pool) /\ M = NodesOf(pool')
                          /\ new = IF pool' = pool THEN n ELSE Newest(pool')
  OBVIOUS
<1>1. /\ UNCHANGED <<module, outputs, results, ready>> /\ WantsZip /\ WantsZip'
      /\ Looking
      /\ pool' = Zipped(pool, n)
      /\ calls' = Append(calls, CallOn(LookedAt, new))
  BY <1>0 DEF ZipNode, StartsZip, Zipping, WantsZip, Chosen
<1>2. IsPool(pool) /\ CallsOK(pool, calls, N) /\ results \in Seq(N) /\ MemoOver(ready, N)
  BY <1>0 DEF InPass, Zips, Passing
<1>3. n \in N
  BY <1>0, <1>1, <1>2, LookedAtIsNode DEF InPass
<1>4. pool' = pool \/ Grown(pool, pool')
  BY <1>0, <1>1, <1>2, <1>3, ZippedGrows
<1>5. IsPool(pool') /\ Extends(pool, pool') /\ new \in NodesOf(pool') /\ N \subseteq M
  BY <1>0, <1>2, <1>3, <1>4, ExtendsItself DEF Grown, Extends
<1>6. InPass'
  BY <1>1, <1>5, InPassGrows
<1>7. CallsOK(pool', calls', N)
  BY ONLY InPass, <1>1, <1>2, <1>5, CallMadeInGrown
<1>8. CallsOK(pool', calls', M)
  BY <1>5, <1>7, CallsKept
<1>9. results \in Seq(M) /\ MemoOver(ready, M)
  BY <1>2, <1>5, MemoKept, SeqMonotonic
<1>10. Zips'
  BY <1>0, <1>1, <1>8, <1>9 DEF Zips, Passing
<1> QED
  BY <1>6, <1>10

\* A node with a zipped input is copied, the others stay.
LEMMA LinkZippedKeeps ==
    ASSUME InPass, Zips, LinkZipped
    PROVE  InPass' /\ Zips'
<1>0. PICK n, N, M, c, zipped :
          /\ n = Caller.node /\ N = NodesOf(pool) /\ M = NodesOf(pool') /\ c = Caller
          /\ zipped = IF Caller.changed THEN Newest(pool') ELSE Caller.new
  OBVIOUS
<1>1. /\ UNCHANGED <<module, outputs>> /\ WantsZip /\ WantsZip' /\ Seen
      /\ pool' = IF c.changed THEN Made(pool, pool.bubbles[c.new], c.inputs) ELSE pool
      /\ ready' = WithEntry(ready, n, zipped)
      /\ ReturnTo(Callers, n, zipped, TRUE) /\ TRUE \in BOOLEAN
  BY <1>0 DEF LinkZipped, StartsZip, Zipping, WantsZip, Chosen
<1>2. IsPool(pool) /\ CallsOK(pool, calls, N) /\ results \in Seq(N) /\ MemoOver(ready, N)
  BY <1>0 DEF InPass, Zips, Passing
<1>3. calls # <<>> /\ c \in CallsOver(N, N) /\ Len(c.inputs) = Len(pool.links[c.new])
  BY <1>0, <1>1, <1>2, AllInputs
<1>4. c.new \in N /\ c.inputs \in Seq(N)
  BY <1>3 DEF CallsOver
<1>5. /\ CallsOK(pool, Callers, N)
      /\ Callers # <<>> => WaitsFor(pool, Callers[Len(Callers)], n)
  BY <1>0, <1>2, <1>3, CallersWait
<1>6. IsPool(pool') /\ Extends(pool, pool') /\ zipped \in M /\ N \subseteq M
  <2>1. CASE ~c.changed
    BY <2>1, <1>0, <1>1, <1>2, <1>4, ExtendsItself
  <2>2. CASE c.changed
    <3>1. IsBubble(pool.bubbles[c.new]) /\ IsLinkedAs(pool.bubbles[c.new].op, c.inputs)
      <4>1. IsBubble(pool.bubbles[c.new]) /\ IsLinkedAs(pool.bubbles[c.new].op, pool.links[c.new])
        BY <1>0, <1>2, <1>4, NodeOfPool
      <4>2. pool.links[c.new] = <<>> => c.inputs = <<>>
        <5>1. pool.links[c.new] = <<>> => Len(c.inputs) = 0
          BY <1>3, EmptySeq
        <5> QED
          BY <5>1, <1>4, EmptySeq
      <4> QED
        BY <4>1, <4>2, <1>3 DEF IsLinkedAs
    <3>2. c.inputs \in Seq(NodesOf(pool)) /\ Extends(pool, pool)
      BY <1>0, <1>4, ExtendsItself
    <3>3. Grown(pool, Made(pool, pool.bubbles[c.new], c.inputs))
      BY ONLY <1>2, <3>1, <3>2, GrownByOne
    <3> QED
      BY <3>3, <2>2, <1>0, <1>1 DEF Grown, Extends
  <2> QED
    BY <2>1, <2>2
<1>7. InPass'
  BY <1>1, <1>6, InPassGrows
<1>8. CallsOK(pool', Callers, M) /\ (Callers # <<>> => WaitsFor(pool', Callers[Len(Callers)], n))
  <2>1. CallsOK(pool', Callers, M)
    BY <1>5, <1>6, CallsSeeGrowth
  <2>2. SameNodes(Callers, pool')
    BY <1>5, <1>6, CallsSeeNodes
  <2>3. Callers # <<>> => Len(Callers) \in 1 .. Len(Callers)
    BY <1>5, EmptySeq DEF CallsOK
  <2> QED
    BY <2>1, <2>2, <2>3, <1>5 DEF SameNodes, WaitsFor
<1>9. results \in Seq(M) /\ MemoOver(ready, M)
  BY <1>2, <1>6, MemoKept, SeqMonotonic
<1>10. CallsOK(pool', calls', M) /\ results' \in Seq(M)
  BY ONLY <1>1, <1>6, <1>8, <1>9, ResultReturned
<1>11. MemoOver(ready', M)
  BY <1>1, <1>6, <1>9, EntryAdded
<1>12. Zips'
  BY <1>0, <1>1, <1>10, <1>11 DEF Zips, Passing
<1> QED
  BY <1>7, <1>12

-----------------------------------------------------------------------------
(***************************************************************************)
(* The folding                                                             *)
(***************************************************************************)
\* What may be left of a graph: closed, and all folded.
IsFolded(p, n) ==
    /\ OpOf(p, n) # "variable"
    /\ OpOf(p, n) \notin EndPoints => \E m \in Range(p.links[n]) : ~IsConst(p, m)

\* F can be the graph that is left.
Clean(p, F) == Closed(p, F) /\ \A n \in F : IsFolded(p, n)

\* A call knows whether its inputs are Consts, and whether they are those of its node.
FoldCall(p, c) ==
    /\ c.new = c.node
    /\ OpOf(p, c.node) \notin EndPoints
    /\ IF c.allConst THEN \A m \in Range(c.inputs) : IsConst(p, m)
                     ELSE \E m \in Range(c.inputs) : ~IsConst(p, m)
    /\ ~c.changed => \A i \in 1 .. Len(c.inputs) : c.inputs[i] = p.links[c.new][i]

\* Every call of the folding is so.
FoldCalls(p, cs) == \A i \in 1 .. Len(cs) : FoldCall(p, cs[i])

\* ready_const has Consts only, ready_nonconst none.
Consts(p, memo)    == \A n \in DOMAIN memo : IsConst(p, memo[n])
NonConsts(p, memo) == \A n \in DOMAIN memo : ~IsConst(p, memo[n])

\* The folding: F is what is folded.
Folds(F) ==
    /\ Clean(pool, F)
    /\ Passing(F)
    /\ MemoOver(readyConst, F)
    /\ NonConsts(pool, ready)
    /\ Consts(pool, readyConst)
    /\ FoldCalls(pool, calls)

\* The passes are over: nothing waits, and what is left is folded.
Done ==
    /\ calls = <<>> /\ results = <<>> /\ ready = <<>> /\ readyConst = <<>>
    /\ \E F : Clean(pool, F) /\ outputs \in Seq(F)

\* Without winograd the folding is next.
LEMMA SkipZipKeeps ==
    ASSUME InPass, Zips, readyConst = <<>>, SkipZip, UNCHANGED readyConst
    PROVE  InPass' /\ Folds({})'
<1>1. UNCHANGED <<module, pool, outputs, calls, results, ready, readyConst>>
  BY DEF SkipZip, Zipping
<1>2. calls = <<>> /\ results = <<>> /\ ready = <<>>
  BY DEF SkipZip, Zips, WantsZip
<1>3. Passing({})'
  BY <1>1, <1>2, PassStarts DEF Passing
<1>4. Clean(pool, {})
  BY PassStarts DEF Clean
<1>5. MemoOver(<<>>, {}) /\ NonConsts(pool, <<>>) /\ Consts(pool, <<>>) /\ FoldCalls(pool, <<>>)
  BY PassStarts DEF MemoOver, NonConsts, Consts, FoldCalls
<1> QED
  BY <1>1, <1>2, <1>3, <1>4, <1>5, RejectedKeeps DEF Folds

\* The zipped outputs become those of the graph.
LEMMA EndZipKeeps ==
    ASSUME InPass, Zips, readyConst = <<>>, EndZip, UNCHANGED readyConst
    PROVE  InPass' /\ Folds({})'
<1>1. /\ calls = <<>> /\ calls' = <<>> /\ results' = <<>> /\ ready' = <<>> /\ readyConst' = <<>>
      /\ outputs' = results /\ UNCHANGED <<module, pool>>
  BY DEF EndZip, AllSeen, NextPass, StartsZip, Zipping
<1>2. outputs' \in Seq(NodesOf(pool))
  BY <1>1 DEF Zips, Passing
<1>3. InPass'
  BY <1>1, <1>2 DEF InPass, KeepsModule
<1>4. Passing({})'
  BY <1>1, PassStarts DEF Passing
<1>5. Clean(pool, {})
  BY PassStarts DEF Clean
<1>6. MemoOver(<<>>, {}) /\ NonConsts(pool, <<>>) /\ Consts(pool, <<>>) /\ FoldCalls(pool, <<>>)
  BY PassStarts DEF MemoOver, NonConsts, Consts, FoldCalls
<1> QED
  BY <1>1, <1>3, <1>4, <1>5, <1>6 DEF Folds

\* A call stays true to what it says of itself when it receives another input.
LEMMA ReceivedFolds ==
    ASSUME NEW p, NEW F, NEW c \in CallsOver(NodesOf(p), F), FoldCall(p, c), NEW n, WaitsFor(p, c, n),
           NEW result \in F, NEW isConst \in BOOLEAN, isConst <=> IsConst(p, result)
    PROVE  FoldCall(p, Receive(c, n, result, isConst))
<1> DEFINE d == Receive(c, n, result, isConst)
<1>1. /\ d.new = c.new /\ d.node = c.node
      /\ d.inputs = Append(c.inputs, result)
      /\ d.allConst = (c.allConst /\ isConst)
      /\ d.changed = (c.changed \/ result # n)
  BY DEF Receive, CallsOver
<1> HIDE DEF d
<1>2. c.inputs \in Seq(F) /\ Len(c.inputs) \in Nat /\ c.allConst \in BOOLEAN /\ c.changed \in BOOLEAN
  BY DEF CallsOver
<1>3. /\ Len(d.inputs) = Len(c.inputs) + 1
      /\ d.inputs[Len(c.inputs) + 1] = result
      /\ \A i \in 1 .. Len(c.inputs) : d.inputs[i] = c.inputs[i]
  BY <1>1, <1>2, AppendProperties
<1>4. Range(d.inputs) = Range(c.inputs) \union {result}
  <2>1. d.inputs \in Seq(F)
    BY <1>1, <1>2, AppendProperties
  <2>2. /\ Range(d.inputs) = {d.inputs[i] : i \in 1 .. Len(d.inputs)}
        /\ Range(c.inputs) = {c.inputs[i] : i \in 1 .. Len(c.inputs)}
    BY <1>2, <2>1, RangeEquality
  <2> DEFINE count == Len(c.inputs)
  <2>3. \A i \in 1 .. count + 1 : i \in 1 .. count \/ i = count + 1
    BY <1>2
  <2>4. \A i \in 1 .. count : i \in 1 .. count + 1
    BY <1>2
  <2>5. count + 1 \in 1 .. count + 1
    BY <1>2
  <2> QED
    BY <2>2, <2>3, <2>4, <2>5, <1>3
<1>5. c.new = c.node /\ OpOf(p, c.node) \notin EndPoints
  BY DEF FoldCall
<1>6. IF d.allConst THEN \A m \in Range(d.inputs) : IsConst(p, m)
                    ELSE \E m \in Range(d.inputs) : ~IsConst(p, m)
  <2>1. IF c.allConst THEN \A m \in Range(c.inputs) : IsConst(p, m)
                      ELSE \E m \in Range(c.inputs) : ~IsConst(p, m)
    BY DEF FoldCall
  <2>2. CASE c.allConst /\ isConst
    BY <2>1, <2>2, <1>1, <1>4
  <2>3. CASE ~c.allConst
    BY <2>1, <2>3, <1>1, <1>4
  <2>4. CASE ~isConst
    BY <2>4, <1>1, <1>4
  <2> QED
    BY <2>2, <2>3, <2>4
<1>7. ~d.changed => \A i \in 1 .. Len(d.inputs) : d.inputs[i] = p.links[d.new][i]
  <2> SUFFICES ASSUME ~d.changed, NEW i \in 1 .. Len(d.inputs) PROVE d.inputs[i] = p.links[d.new][i]
    OBVIOUS
  <2>1. ~c.changed /\ result = n
    BY <1>1
  <2>2. CASE i \in 1 .. Len(c.inputs)
    BY <2>1, <2>2, <1>1, <1>3 DEF FoldCall
  <2>3. CASE i = Len(c.inputs) + 1
    BY <2>1, <2>3, <1>1, <1>3 DEF WaitsFor
  <2> QED
    BY <2>2, <2>3, <1>2, <1>3
<1> QED
  BY <1>1, <1>5, <1>6, <1>7 DEF FoldCall, d

\* The callers of a call that returns
LEMMA FoldReturns ==
    ASSUME NEW p, NEW cs, NEW F, CallsOK(p, cs, F), FoldCalls(p, cs), NEW n,
           cs # <<>> => WaitsFor(p, cs[Len(cs)], n),
           NEW result \in F, NEW isConst \in BOOLEAN, isConst <=> IsConst(p, result), results \in Seq(F),
           ReturnTo(cs, n, result, isConst)
    PROVE  CallsOK(p, calls', F) /\ results' \in Seq(F) /\ FoldCalls(p, calls')
<1>1. CallsOK(p, calls', F) /\ results' \in Seq(F) /\ Received(cs, n, result, isConst)
  BY ResultReturned
<1>2. cs \in Seq(CallsOver(NodesOf(p), F)) /\ Len(cs) \in Nat
  BY DEF CallsOK
<1>3. ASSUME NEW i \in 1 .. Len(cs) PROVE FoldCall(p, calls'[i])
  <2>1. CASE i # Len(cs)
    BY <2>1, <1>1 DEF Received, FoldCalls
  <2>2. CASE i = Len(cs)
    <3>1. cs[i] \in CallsOver(NodesOf(p), F) /\ FoldCall(p, cs[i]) /\ cs # <<>>
      BY <1>2 DEF FoldCalls
    <3>2. WaitsFor(p, cs[i], n)
      BY <3>1, <2>2
    <3>3. FoldCall(p, Receive(cs[i], n, result, isConst))
      BY <3>1, <3>2, ReceivedFolds
    <3> QED
      BY <3>3, <2>2, <1>1 DEF Received
  <2> QED
    BY <2>1, <2>2
<1> QED
  BY <1>1, <1>3 DEF Received, FoldCalls

\* The pool grows while nodes are being folded.
LEMMA FoldingGrows ==
    ASSUME IsPool(pool), NEW F, Clean(pool, F), NEW q, Extends(pool, q)
    PROVE  /\ Clean(q, F)
           /\ \A memo : MemoOver(memo, F) /\ NonConsts(pool, memo) => NonConsts(q, memo)
           /\ \A memo : MemoOver(memo, F) /\ Consts(pool, memo) => Consts(q, memo)
           /\ \A cs : CallsOK(pool, cs, F) /\ FoldCalls(pool, cs) => FoldCalls(q, cs)
<1>1. F \subseteq NodesOf(pool) /\ \A n \in F : Range(pool.links[n]) \subseteq F
  BY DEF Clean, Closed
<1>2. /\ NodesOf(pool) \subseteq NodesOf(q)
      /\ \A n \in NodesOf(pool) : /\ OpOf(q, n) = OpOf(pool, n)
                                  /\ IsConst(q, n) = IsConst(pool, n)
                                  /\ q.links[n] = pool.links[n]
  BY DEF Extends, IsConst
<1>3. Clean(q, F)
  <2>1. Closed(q, F)
    BY <1>1, <1>2 DEF Closed
  <2>2. ASSUME NEW n \in F PROVE IsFolded(q, n)
    <3>1. IsFolded(pool, n) /\ Range(pool.links[n]) \subseteq NodesOf(pool) /\ n \in NodesOf(pool)
      BY <1>1 DEF Clean
    <3> QED
      BY <3>1, <1>2 DEF IsFolded
  <2> QED
    BY <2>1, <2>2 DEF Clean
<1>4. ASSUME NEW memo, MemoOver(memo, F)
      PROVE  \A n \in DOMAIN memo : IsConst(q, memo[n]) = IsConst(pool, memo[n])
  BY <1>1, <1>2, <1>4 DEF MemoOver
<1>5. ASSUME NEW cs, CallsOK(pool, cs, F), FoldCalls(pool, cs)
      PROVE  FoldCalls(q, cs)
  <2> SUFFICES ASSUME NEW i \in 1 .. Len(cs) PROVE FoldCall(q, cs[i])
    BY DEF FoldCalls
  <2>1. cs \in Seq(CallsOver(NodesOf(pool), F))
    BY <1>5 DEF CallsOK
  <2>2. cs[i] \in CallsOver(NodesOf(pool), F)
    BY <2>1
  <2>3. cs[i].new \in NodesOf(pool) /\ cs[i].node \in NodesOf(pool) /\ cs[i].inputs \in Seq(F)
    BY <2>2 DEF CallsOver
  <2>4. Range(cs[i].inputs) \subseteq NodesOf(pool)
    BY <2>3, <1>1, RangeOfSeq
  <2>5. FoldCall(pool, cs[i])
    BY <1>5 DEF FoldCalls
  <2> QED
    BY <2>3, <2>4, <2>5, <1>2 DEF FoldCall
<1> QED
  BY <1>3, <1>4, <1>5 DEF NonConsts, Consts

\* An empty sequence holds nothing.
LEMMA EmptyRange == Len(<<>>) = 0 /\ Range(<<>>) = {}
<1>1. <<>> \in Seq({}) /\ Len(<<>>) = 0
  BY EmptySeq
<1>2. Range(<<>>) = {<<>>[i] : i \in 1 .. Len(<<>>)}
  BY <1>1, RangeEquality
<1> QED
  BY <1>1, <1>2

\* A node that is folded joins the others.
LEMMA CleanMore ==
    ASSUME NEW p, NEW F, Clean(p, F), NEW n \in NodesOf(p), Range(p.links[n]) \subseteq F, IsFolded(p, n)
    PROVE  Clean(p, F \union {n})
BY DEF Clean, Closed

\* What a memo says does not change when something is added to it.
LEMMA EntryKind ==
    ASSUME NEW p, NEW memo, NEW n, NEW result
    PROVE  /\ Consts(p, memo) /\ IsConst(p, result) => Consts(p, WithEntry(memo, n, result))
           /\ NonConsts(p, memo) /\ ~IsConst(p, result) => NonConsts(p, WithEntry(memo, n, result))
BY DEF Consts, NonConsts, WithEntry

\* The memo of the other nodes stays, this one's may get the result.
Filed(result, isConst) ==
    /\ ready' = ready \/ (~isConst /\ \E k : ready' = WithEntry(ready, k, result))
    /\ readyConst' = readyConst \/ (isConst /\ \E k : readyConst' = WithEntry(readyConst, k, result))

\* Every step of folding that returns something does this.
LEMMA FoldingKeeps ==
    ASSUME InPass, NEW F, Folds(F), UNCHANGED <<module, outputs>>,
           IsPool(pool'), Extends(pool, pool'), NEW G, F \subseteq G, Clean(pool', G),
           NEW cs, CallsOK(pool, cs, F), FoldCalls(pool, cs), NEW n,
           cs # <<>> => WaitsFor(pool, cs[Len(cs)], n),
           NEW result \in G, NEW isConst \in BOOLEAN, isConst <=> IsConst(pool', result),
           ReturnTo(cs, n, result, isConst), Filed(result, isConst)
    PROVE  InPass' /\ Folds(G)'
<1>1. /\ IsPool(pool) /\ Clean(pool, F) /\ results \in Seq(F) /\ MemoOver(ready, F) /\ MemoOver(readyConst, F)
      /\ NonConsts(pool, ready) /\ Consts(pool, readyConst)
  BY DEF InPass, Folds, Passing
<1>2. InPass'
  BY InPassGrows
<1>3. CallsOK(pool', cs, G) /\ SameNodes(cs, pool')
  BY CallsSeeGrowth, CallsSeeNodes
<1>4. NonConsts(pool', ready) /\ Consts(pool', readyConst) /\ FoldCalls(pool', cs)
  BY <1>1, FoldingGrows
<1>5. cs # <<>> => WaitsFor(pool', cs[Len(cs)], n)
  <2>1. cs # <<>> => Len(cs) \in 1 .. Len(cs)
    BY EmptySeq DEF CallsOK
  <2> QED
    BY <2>1, <1>3 DEF SameNodes, WaitsFor
<1>6. results \in Seq(G) /\ MemoOver(ready, G) /\ MemoOver(readyConst, G)
  BY <1>1, SeqMonotonic, MemoKept
<1>7. result \in G /\ isConst \in BOOLEAN /\ (isConst <=> IsConst(pool', result)) /\ ReturnTo(cs, n, result, isConst)
  OBVIOUS
<1>8. CallsOK(pool', calls', G) /\ results' \in Seq(G) /\ FoldCalls(pool', calls')
  BY ONLY <1>3, <1>4, <1>5, <1>6, <1>7, FoldReturns
<1>9. MemoOver(ready', G) /\ NonConsts(pool', ready')
  <2>1. CASE ready' = ready
    BY <2>1, <1>4, <1>6
  <2>2. CASE ~isConst /\ \E k : ready' = WithEntry(ready, k, result)
    BY <2>2, <1>4, <1>6, <1>7, EntryAdded, EntryKind
  <2> QED
    BY <2>1, <2>2 DEF Filed
<1>10. MemoOver(readyConst', G) /\ Consts(pool', readyConst')
  <2>1. CASE readyConst' = readyConst
    BY <2>1, <1>4, <1>6
  <2>2. CASE isConst /\ \E k : readyConst' = WithEntry(readyConst, k, result)
    BY <2>2, <1>4, <1>6, <1>7, EntryAdded, EntryKind
  <2> QED
    BY <2>1, <2>2 DEF Filed
<1>11. Passing(G)'
  BY <1>8, <1>9 DEF Passing, Clean, Closed
<1> QED
  BY <1>2, <1>8, <1>9, <1>10, <1>11 DEF Folds

\* The node that is looked at is returned, or what is known about it.
LEMMA FoldingReturns ==
    ASSUME InPass, NEW F, Folds(F), UNCHANGED <<module, pool, outputs>>, Looking, NEW G, F \subseteq G, Clean(pool, G),
           NEW result \in G, NEW isConst \in BOOLEAN, isConst <=> IsConst(pool, result),
           ReturnTo(calls, LookedAt, result, isConst), Filed(result, isConst)
    PROVE  InPass' /\ Folds(G)'
<1>1. PICK n : n = LookedAt
  OBVIOUS
<1>2. IsPool(pool) /\ CallsOK(pool, calls, F) /\ FoldCalls(pool, calls) /\ results \in Seq(F)
  BY DEF InPass, Folds, Passing
<1>3. calls # <<>> => WaitsFor(pool, calls[Len(calls)], n)
  BY <1>1, <1>2, LookedAtIsNode DEF InPass
<1>4. IsPool(pool') /\ Extends(pool, pool') /\ Clean(pool', G) /\ (isConst <=> IsConst(pool', result))
  BY <1>2, ExtendsItself
<1>5. ReturnTo(calls, n, result, isConst)
  BY <1>1
<1>6. UNCHANGED <<module, outputs>> /\ result \in G /\ isConst \in BOOLEAN
  OBVIOUS
<1> QED
  BY ONLY InPass, Folds(F), F \subseteq G, Filed(result, isConst), <1>2, <1>3, <1>4, <1>5, <1>6, FoldingKeeps

\* A node that was folded before
LEMMA UseReadyKeeps ==
    ASSUME InPass, NEW F, Folds(F), UseReadyNonconst \/ UseReadyConst
    PROVE  InPass' /\ Folds(F)'
<1>1. /\ UNCHANGED <<module, pool, outputs, ready, readyConst>> /\ Looking
      /\ \/ LookedAt \in DOMAIN ready /\ ReturnTo(calls, LookedAt, ready[LookedAt], FALSE)
         \/ LookedAt \in DOMAIN readyConst /\ ReturnTo(calls, LookedAt, readyConst[LookedAt], TRUE)
  BY DEF UseReadyNonconst, UseReadyConst, Folding
<1>2. Clean(pool, F) /\ MemoOver(ready, F) /\ MemoOver(readyConst, F) /\ NonConsts(pool, ready) /\ Consts(pool, readyConst)
  BY DEF Folds, Passing
<1>3. \A result, isConst : Filed(result, isConst)
  BY <1>1 DEF Filed
<1>4. CASE LookedAt \in DOMAIN ready /\ ReturnTo(calls, LookedAt, ready[LookedAt], FALSE)
  <2>1. PICK result : result = ready[LookedAt]
    OBVIOUS
  <2>2. result \in F /\ ~IsConst(pool, result) /\ ReturnTo(calls, LookedAt, result, FALSE)
    BY <2>1, <1>2, <1>4 DEF MemoOver, NonConsts
  <2> QED
    BY <2>2, <1>1, <1>2, <1>3, FoldingReturns
<1>5. CASE LookedAt \in DOMAIN readyConst /\ ReturnTo(calls, LookedAt, readyConst[LookedAt], TRUE)
  <2>1. PICK result : result = readyConst[LookedAt]
    OBVIOUS
  <2>2. result \in F /\ IsConst(pool, result) /\ ReturnTo(calls, LookedAt, result, TRUE)
    BY <2>1, <1>2, <1>5 DEF MemoOver, Consts
  <2> QED
    BY <2>2, <1>1, <1>2, <1>3, FoldingReturns
<1> QED
  BY <1>1, <1>4, <1>5

\* A Const or a Parameter is folded as it is.
LEMMA TakeLeafKeeps ==
    ASSUME InPass, NEW F, Folds(F), TakeConst \/ TakeParameter
    PROVE  InPass' /\ \E G : Folds(G)'
<1>0. PICK n, G : n = LookedAt /\ G = F \union {n}
  OBVIOUS
<1>1. /\ UNCHANGED <<module, pool, outputs>> /\ Looking
      /\ \/ /\ OpOf(pool, n) = "const" /\ ReturnTo(calls, n, n, TRUE)
            /\ readyConst' = WithEntry(readyConst, n, n) /\ ready' = ready
         \/ /\ OpOf(pool, n) = "param" /\ ReturnTo(calls, n, n, FALSE)
            /\ ready' = WithEntry(ready, n, n) /\ readyConst' = readyConst
  BY <1>0 DEF TakeConst, TakeParameter, Unknown, Folding, Op
<1>2. IsPool(pool) /\ Clean(pool, F) /\ CallsOK(pool, calls, F) /\ results \in Seq(F)
  BY DEF InPass, Folds, Passing
<1>3. n \in NodesOf(pool)
  BY <1>0, <1>1, <1>2, LookedAtIsNode DEF InPass
<1>4. pool.links[n] = <<>> /\ Range(pool.links[n]) = {}
  <2>1. IsLinkedAs(OpOf(pool, n), pool.links[n])
    BY <1>2, <1>3, NodeOfPool
  <2>2. pool.links[n] = <<>>
    BY <2>1, <1>1 DEF IsLinkedAs, EndPoints
  <2> QED
    BY <2>2, EmptyRange
<1>5. IsFolded(pool, n)
  BY <1>1 DEF IsFolded, EndPoints
<1>6. Clean(pool, G) /\ F \subseteq G /\ n \in G
  BY <1>0, <1>2, <1>3, <1>4, <1>5, CleanMore
<1>7. CASE /\ OpOf(pool, n) = "const" /\ ReturnTo(calls, n, n, TRUE)
           /\ readyConst' = WithEntry(readyConst, n, n) /\ ready' = ready
  <2>1. Filed(n, TRUE) /\ ReturnTo(calls, LookedAt, n, TRUE)
    BY <1>0, <1>7 DEF Filed
  <2>2. TRUE \in BOOLEAN /\ (TRUE <=> IsConst(pool, n))
    BY <1>7 DEF IsConst
  <2> QED
    BY <2>1, <2>2, <1>1, <1>6, FoldingReturns
<1>8. CASE /\ OpOf(pool, n) = "param" /\ ReturnTo(calls, n, n, FALSE)
           /\ ready' = WithEntry(ready, n, n) /\ readyConst' = readyConst
  <2>1. Filed(n, FALSE) /\ ReturnTo(calls, LookedAt, n, FALSE)
    BY <1>0, <1>8 DEF Filed
  <2>2. FALSE \in BOOLEAN /\ (FALSE <=> IsConst(pool, n))
    BY <1>8 DEF IsConst
  <2> QED
    BY <2>1, <2>2, <1>1, <1>6, FoldingReturns
<1> QED
  BY <1>1, <1>7, <1>8

\* The inputs of an operator are folded first.
LEMMA EnterKeeps ==
    ASSUME InPass, NEW F, Folds(F), Enter
    PROVE  InPass' /\ Folds(F)'
<1>0. PICK n : n = LookedAt
  OBVIOUS
<1>1. /\ UNCHANGED <<module, pool, outputs, results, ready, readyConst>> /\ Looking
      /\ OpOf(pool, n) \notin EndPoints
      /\ calls' = Append(calls, CallOn(LookedAt, n))
  BY <1>0 DEF Enter, Unknown, Folding, Op
<1>2. IsPool(pool) /\ CallsOK(pool, calls, F) /\ results \in Seq(F) /\ FoldCalls(pool, calls)
  BY DEF InPass, Folds, Passing
<1>3. IsPool(pool') /\ Extends(pool, pool') /\ n \in NodesOf(pool')
  BY <1>0, <1>1, <1>2, LookedAtIsNode, ExtendsItself DEF InPass
<1>4. /\ CallsOK(pool', calls', F)
      /\ Len(calls) \in Nat /\ Len(calls') = Len(calls) + 1
      /\ calls'[Len(calls) + 1] = CallOn(LookedAt, n)
      /\ \A i \in 1 .. Len(calls) : calls'[i] = calls[i] /\ calls[i].new \in NodesOf(pool)
  BY ONLY InPass, <1>1, <1>2, <1>3, CallMadeInGrown
<1>5. FoldCall(pool, CallOn(n, n))
  <2>1. Len(<<>>) = 0 /\ Range(<<>>) = {}
    BY EmptyRange
  <2> QED
    BY <2>1, <1>1 DEF FoldCall, CallOn
<1>6. FoldCalls(pool, calls')
  <2> SUFFICES ASSUME NEW i \in 1 .. Len(calls') PROVE FoldCall(pool, calls'[i])
    BY DEF FoldCalls
  <2>1. i \in 1 .. Len(calls) \/ i = Len(calls) + 1
    BY <1>4
  <2> QED
    BY <2>1, <1>0, <1>2, <1>4, <1>5 DEF FoldCalls
<1>7. Passing(F)'
  BY <1>1, <1>4 DEF Folds, Passing
<1>8. InPass'
  BY <1>1, RejectedKeeps
<1> QED
  BY <1>1, <1>6, <1>7, <1>8 DEF Folds

\* The innermost call, when it has seen all inputs
LEMMA FoldedCall ==
    ASSUME InPass, NEW F, Folds(F), Seen, NEW c, c = Caller
    PROVE  /\ c.node \in NodesOf(pool) /\ c.new = c.node /\ c.inputs \in Seq(F)
           /\ Len(c.inputs) = Len(pool.links[c.node])
           /\ FoldCall(pool, c)
           /\ CallsOK(pool, Callers, F) /\ FoldCalls(pool, Callers)
           /\ Callers # <<>> => WaitsFor(pool, Callers[Len(Callers)], c.node)
<1>1. IsPool(pool) /\ CallsOK(pool, calls, F) /\ FoldCalls(pool, calls)
  BY DEF InPass, Folds, Passing
<1>2. calls # <<>> /\ c \in CallsOver(NodesOf(pool), F) /\ Len(c.inputs) = Len(pool.links[c.new])
  BY <1>1, AllInputs
<1>3. /\ CallsOK(pool, Callers, F)
      /\ Len(calls) \in Nat \ {0} /\ Len(Callers) = Len(calls) - 1
      /\ \A i \in 1 .. Len(Callers) : Callers[i] = calls[i]
      /\ Callers # <<>> => WaitsFor(pool, Callers[Len(Callers)], c.node)
  BY <1>1, <1>2, CallersWait
<1>4. FoldCall(pool, c)
  <2>1. Len(calls) \in 1 .. Len(calls)
    BY <1>3
  <2> QED
    BY <2>1, <1>1 DEF FoldCalls, Caller
<1>5. FoldCalls(pool, Callers)
  <2>1. \A i \in 1 .. Len(Callers) : i \in 1 .. Len(calls)
    BY <1>3
  <2> QED
    BY <2>1, <1>1, <1>3 DEF FoldCalls
<1>6. c.new = c.node
  BY <1>4 DEF FoldCall
<1>7. c.node \in NodesOf(pool) /\ c.inputs \in Seq(F)
  BY <1>2 DEF CallsOver
<1> QED
  BY <1>2, <1>3, <1>4, <1>5, <1>6, <1>7

\* An operator with the inputs it had, not all Consts, stays.
LEMMA KeepKeeps ==
    ASSUME InPass, NEW F, Folds(F), Keep
    PROVE  InPass' /\ \E G : Folds(G)'
<1>0. PICK c, n, G, cs : c = Caller /\ n = c.node /\ G = F \union {n} /\ cs = Callers
  OBVIOUS
<1>1. /\ UNCHANGED <<module, pool, outputs, readyConst>> /\ Seen
      /\ ~c.allConst /\ ~c.changed
      /\ ready' = WithEntry(ready, n, n)
      /\ ReturnTo(cs, n, n, FALSE)
  BY <1>0 DEF Keep, Folding
<1>2. /\ n \in NodesOf(pool) /\ c.new = n /\ c.inputs \in Seq(F)
      /\ Len(c.inputs) = Len(pool.links[n])
      /\ FoldCall(pool, c)
      /\ CallsOK(pool, cs, F) /\ FoldCalls(pool, cs)
      /\ cs # <<>> => WaitsFor(pool, cs[Len(cs)], n)
  BY <1>0, <1>1, FoldedCall
<1>3. IsPool(pool) /\ Clean(pool, F) /\ pool.links[n] \in Seq(NodesOf(pool))
  BY <1>2, NodeOfPool DEF InPass, Folds
<1>4. pool.links[n] = c.inputs
  <2>1. \A i \in 1 .. Len(c.inputs) : c.inputs[i] = pool.links[n][i]
    BY <1>1, <1>2 DEF FoldCall
  <2> QED
    BY <2>1, <1>2, <1>3, SeqEqual
<1>5. Range(pool.links[n]) \subseteq F /\ OpOf(pool, n) \notin EndPoints /\ \E m \in Range(pool.links[n]) : ~IsConst(pool, m)
  BY <1>0, <1>1, <1>2, <1>4, RangeOfSeq DEF FoldCall
<1>6. IsFolded(pool, n) /\ ~IsConst(pool, n)
  BY <1>5 DEF IsFolded, EndPoints, IsConst
<1>7. Clean(pool, G) /\ F \subseteq G /\ n \in G
  BY <1>0, <1>2, <1>3, <1>5, <1>6, CleanMore
<1>8. Filed(n, FALSE)
  BY <1>1 DEF Filed
<1>9. /\ IsPool(pool') /\ Extends(pool, pool') /\ Clean(pool', G)
      /\ FALSE \in BOOLEAN /\ (FALSE <=> IsConst(pool', n)) /\ ReturnTo(cs, n, n, FALSE) /\ UNCHANGED <<module, outputs>>
  BY <1>1, <1>3, <1>6, <1>7, ExtendsItself
<1>10. InPass' /\ Folds(G)'
  BY ONLY InPass, Folds(F), <1>2, <1>7, <1>8, <1>9, FoldingKeeps
<1> QED
  BY <1>10

\* A node is made for what the innermost call returns.
LEMMA FoldingMakes ==
    ASSUME InPass, NEW F, Folds(F), Seen, UNCHANGED <<module, outputs>>, NEW c, c = Caller,
           NEW bubble, IsBubble(bubble), NEW inputs \in Seq(F), IsLinkedAs(bubble.op, inputs),
           pool' = Made(pool, bubble, inputs), bubble.op # "variable",
           bubble.op \notin EndPoints => \E m \in Range(inputs) : ~IsConst(pool, m),
           NEW result, result = Newest(pool'), NEW isConst \in BOOLEAN, isConst <=> bubble.op = "const",
           ReturnTo(Callers, c.node, result, isConst), Filed(result, isConst)
    PROVE  InPass' /\ \E G : Folds(G)'
<1>0. PICK n, G, cs : n = c.node /\ G = F \union {result} /\ cs = Callers
  OBVIOUS
<1>1. /\ CallsOK(pool, cs, F) /\ FoldCalls(pool, cs)
      /\ cs # <<>> => WaitsFor(pool, cs[Len(cs)], n)
  BY <1>0, FoldedCall
<1>2. IsPool(pool) /\ Clean(pool, F) /\ F \subseteq NodesOf(pool)
  BY DEF InPass, Folds, Clean, Closed
<1>3. inputs \in Seq(NodesOf(pool)) /\ Range(inputs) \subseteq F
  BY <1>2, SeqMonotonic, RangeOfSeq
<1>4. IsBubble(bubble) /\ IsLinkedAs(bubble.op, inputs)
  OBVIOUS
<1>5. PICK q : q = Made(pool, bubble, inputs)
  OBVIOUS
<1>6. /\ IsPool(Made(pool, bubble, inputs))
      /\ NodesOf(Made(pool, bubble, inputs)) = NodesOf(pool) \union {Newest(Made(pool, bubble, inputs))}
      /\ \A m \in NodesOf(pool) : /\ Made(pool, bubble, inputs).bubbles[m] = pool.bubbles[m]
                                  /\ Made(pool, bubble, inputs).links[m] = pool.links[m]
      /\ Made(pool, bubble, inputs).bubbles[Newest(Made(pool, bubble, inputs))] = bubble
      /\ Made(pool, bubble, inputs).links[Newest(Made(pool, bubble, inputs))] = inputs
  BY ONLY <1>2, <1>3, <1>4, PoolGrowsByOne
<1>7. /\ IsPool(pool') /\ Extends(pool, pool')
      /\ result \in NodesOf(pool') /\ OpOf(pool', result) = bubble.op /\ pool'.links[result] = inputs
  BY <1>6 DEF Extends, OpOf
<1>8. Clean(pool', F) /\ \A m \in NodesOf(pool) : IsConst(pool', m) = IsConst(pool, m)
  BY <1>2, <1>7, FoldingGrows DEF Extends, IsConst
<1>9. IsFolded(pool', result)
  BY <1>2, <1>3, <1>7, <1>8 DEF IsFolded
<1>10. Clean(pool', G) /\ F \subseteq G /\ result \in G
  BY <1>0, <1>3, <1>7, <1>8, <1>9, CleanMore
<1>11. (isConst <=> IsConst(pool', result)) /\ isConst \in BOOLEAN
  BY <1>7 DEF IsConst
<1>12. ReturnTo(cs, n, result, isConst) /\ Filed(result, isConst) /\ UNCHANGED <<module, outputs>>
  BY <1>0
<1>13. InPass' /\ Folds(G)'
  BY ONLY InPass, Folds(F), <1>1, <1>7, <1>10, <1>11, <1>12, FoldingKeeps
<1> QED
  BY <1>13

\* An operator that an input was replaced of is copied.
LEMMA CopyKeeps ==
    ASSUME InPass, NEW F, Folds(F), Copy
    PROVE  InPass' /\ \E G : Folds(G)'
<1>0. PICK c, bubble, result : c = Caller /\ bubble = pool.bubbles[c.node] /\ result = Newest(pool')
  OBVIOUS
<1>1. /\ UNCHANGED <<module, outputs, readyConst>> /\ Seen
      /\ ~c.allConst
      /\ pool' = Made(pool, bubble, c.inputs)
      /\ ready' = WithEntry(ready, MemoKey(c.node, result), result)
      /\ ReturnTo(Callers, c.node, result, FALSE)
  BY <1>0 DEF Copy, Folding
<1>2. /\ c.node \in NodesOf(pool) /\ c.inputs \in Seq(F)
      /\ Len(c.inputs) = Len(pool.links[c.node])
      /\ FoldCall(pool, c)
  BY <1>0, <1>1, FoldedCall
<1>3. bubble.op \notin EndPoints /\ \E m \in Range(c.inputs) : ~IsConst(pool, m)
  BY <1>0, <1>1, <1>2 DEF FoldCall, OpOf
<1>4. IsBubble(bubble) /\ IsLinkedAs(bubble.op, c.inputs)
  <2>1. IsBubble(bubble) /\ IsLinkedAs(bubble.op, pool.links[c.node])
    BY <1>0, <1>2, NodeOfPool DEF InPass
  <2> QED
    BY <2>1, <1>2, <1>3 DEF IsLinkedAs
<1>5. bubble.op # "variable" /\ FALSE \in BOOLEAN /\ (FALSE <=> bubble.op = "const")
  BY <1>3 DEF EndPoints
<1>6. Filed(result, FALSE)
  BY <1>1 DEF Filed
<1>7. PICK inputs : inputs = c.inputs
  OBVIOUS
<1>8. inputs \in Seq(F) /\ IsLinkedAs(bubble.op, inputs) /\ pool' = Made(pool, bubble, inputs)
      /\ (bubble.op \notin EndPoints => \E m \in Range(inputs) : ~IsConst(pool, m))
  BY <1>1, <1>2, <1>3, <1>4, <1>7
<1> QED
  BY ONLY InPass, Folds(F), <1>0, <1>1, <1>4, <1>5, <1>6, <1>8, FoldingMakes

\* An operator on Consts becomes a Const.
LEMMA ComputeKeeps ==
    ASSUME InPass, NEW F, Folds(F), Compute
    PROVE  InPass' /\ \E G : Folds(G)'
<1>0. PICK c, bubble, result : c = Caller /\ bubble = Computed(c.node, c.inputs) /\ result = Newest(pool')
  OBVIOUS
<1>1. /\ UNCHANGED <<module, outputs, ready>> /\ Seen
      /\ pool' = Made(pool, bubble, <<>>)
      /\ readyConst' = WithEntry(readyConst, MemoKey(c.node, result), result)
      /\ ReturnTo(Callers, c.node, result, TRUE)
  BY <1>0 DEF Compute, Folding
<1>2. IsBubble(bubble) /\ bubble.op = "const"
  BY <1>0, DataMade DEF Computed
<1>3. <<>> \in Seq(F) /\ IsLinkedAs(bubble.op, <<>>) /\ bubble.op \in EndPoints /\ bubble.op # "variable"
  BY <1>2, EmptySeq, Linkable
<1>4. Filed(result, TRUE) /\ TRUE \in BOOLEAN /\ (TRUE <=> bubble.op = "const")
  BY <1>1, <1>2 DEF Filed
<1>5. bubble.op \notin EndPoints => \E m \in Range(<<>>) : ~IsConst(pool, m)
  BY <1>3
<1> QED
  BY ONLY InPass, Folds(F), <1>0, <1>1, <1>2, <1>3, <1>4, <1>5, FoldingMakes

\* The folded outputs become those of the graph.
LEMMA EndFoldingKeeps ==
    ASSUME InPass, NEW F, Folds(F), EndFolding
    PROVE  InPass' /\ Done'
<1>1. /\ calls = <<>> /\ calls' = <<>> /\ results' = <<>> /\ ready' = <<>> /\ readyConst' = <<>>
      /\ outputs' = results /\ UNCHANGED <<module, pool>>
  BY DEF EndFolding, AllSeen, NextPass, Folding
<1>2. Clean(pool, F) /\ results \in Seq(F) /\ F \subseteq NodesOf(pool)
  BY DEF Folds, Passing
<1>3. outputs' \in Seq(NodesOf(pool))
  BY <1>1, <1>2, SeqMonotonic
<1>4. InPass'
  BY <1>1, <1>3 DEF InPass, KeepsModule
<1> QED
  BY <1>1, <1>2, <1>4 DEF Done

-----------------------------------------------------------------------------
(***************************************************************************)
(* Compiling, and compiling again                                          *)
(***************************************************************************)
InPhase ==
    /\ phase \in {"translating", "zipping", "folding", "compiling", "rejected"}
    /\ phase = "translating" => \E F : Translates(F)
    /\ phase = "zipping" => Zips
    /\ phase = "folding" => \E F : Folds(F)
    /\ phase = "compiling" => Done
    /\ phase = "rejected" => results \in Seq(NodesOf(pool))
    /\ phase \in {"translating", "zipping"} => readyConst = <<>>
    /\ phase # "compiling" => pc = "seeding"

\* The invariant of the passes
CompileInv == InPass /\ InPhase

\* What ModulesAssumption says of one module
LEMMA ModuleIsPool ==
    ASSUME NEW m \in Modules, NEW p, p = [bubbles |-> p.bubbles, links |-> p.links],
           p.bubbles = [n \in Originals |-> p.bubbles[n]], p.links = [n \in Originals |-> p.links[n]],
           \A n \in Originals : IsBubble(p.bubbles[n]) /\ OpOf(p, n) = m.bubbles[n].op /\ p.links[n] = m.links[n]
    PROVE  IsPool(p) /\ NodesOf(p) = Originals
<1>1. NodesOf(p) = Originals
  BY DEF NodesOf
<1>2. Numbered(p)
  <2>1. 0 \in Nat /\ Originals = Originals \union 1 .. 0
    OBVIOUS
  <2> QED
    BY <2>1, <1>1 DEF Numbered
<1>3. m.links \in [Originals -> Seq(Originals)] /\ \A n \in Originals : IsLinkedAs(m.bubbles[n].op, m.links[n])
  BY ModulesAssumption
<1>4. Grounded(Originals, m.links)
  BY ModulesAssumption
<1>5. p.links = m.links
  BY <1>3
<1>6. LinksOK(p)
  BY <1>1, <1>3, <1>4, <1>5 DEF LinksOK
<1>7. BubblesOK(p)
  BY <1>1 DEF BubblesOK
<1> QED
  BY <1>1, <1>2, <1>6, <1>7 DEF IsPool

\* A compilation begins with the translator, or with the zipper.
LEMMA FirstPassIs ==
    ASSUME NEW m
    PROVE  FirstPass(m) \in {"translating", "zipping"}
BY DEF FirstPass

\* A module that was not compiled yet
LEMMA CompileInitInv == CompileInit => CompileInv
<1> SUFFICES ASSUME CompileInit PROVE CompileInv
  OBVIOUS
<1>1. /\ module \in Modules
      /\ pool = [bubbles |-> module.bubbles, links |-> module.links]
      /\ phase = FirstPass(module)
      /\ outputs = module.outputs
      /\ calls = <<>> /\ results = <<>> /\ ready = <<>> /\ readyConst = <<>>
      /\ pc = "seeding"
  BY DEF CompileInit, InitFor
<1>2. /\ module.links \in [Originals -> Seq(Originals)]
      /\ module.bubbles = [n \in Originals |-> module.bubbles[n]]
      /\ \A n \in Originals : IsBubble(module.bubbles[n])
      /\ module.outputs \in Seq(Originals)
  BY <1>1, ModulesAssumption
<1>3. IsPool(pool) /\ NodesOf(pool) = Originals
  <2>1. /\ pool = [bubbles |-> pool.bubbles, links |-> pool.links]
        /\ pool.bubbles = [n \in Originals |-> pool.bubbles[n]] /\ pool.links = [n \in Originals |-> pool.links[n]]
        /\ \A n \in Originals : /\ IsBubble(pool.bubbles[n]) /\ OpOf(pool, n) = module.bubbles[n].op
                                /\ pool.links[n] = module.links[n]
    BY <1>1, <1>2 DEF OpOf
  <2> QED
    BY ONLY <1>1, <2>1, ModuleIsPool
<1>4. InPass
  BY <1>1, <1>2, <1>3 DEF InPass, KeepsModule, OpOf
<1>5. Translates({}) /\ Zips
  BY <1>1, PassStarts DEF Translates, Passing, Fresh, Zips
<1>6. InPhase
  BY <1>1, <1>5, FirstPassIs DEF InPhase
<1> QED
  BY <1>4, <1>6 DEF CompileInv

\* A step of the translator keeps the invariant of the passes.
LEMMA TranslateStepKeeps ==
    ASSUME CompileInv, TranslateStep
    PROVE  CompileInv'
<1>1. phase = "translating" /\ InPass /\ (\E F : Translates(F)) /\ pc = "seeding" /\ readyConst = <<>>
  BY DEF TranslateStep, TranslateNext, UseTranslated, TranslateNode, RejectKernel, LinkTranslated, LoadTranslated,
         Translating, CompileInv, InPhase
<1>2. UNCHANGED <<readyConst, pc>>
  BY DEF TranslateStep, vars
<1>3. PICK F : Translates(F)
  BY <1>1
<1>4. ASSUME UseTranslated \/ TranslateNode \/ LinkTranslated PROVE phase' = phase /\ InPass' /\ (\E G : Translates(G))'
  <2>1. CASE UseTranslated
    BY <2>1, <1>1, <1>3, UseTranslatedKeeps DEF UseTranslated
  <2>2. CASE TranslateNode
    BY <2>2, <1>1, <1>3, TranslateNodeKeeps DEF TranslateNode
  <2>3. CASE LinkTranslated
    BY <2>3, <1>1, <1>3, LinkTranslatedKeeps DEF LinkTranslated
  <2> QED
    BY <1>4, <2>1, <2>2, <2>3
<1>5. ASSUME RejectKernel PROVE phase' = "rejected" /\ InPass' /\ results' \in Seq(NodesOf(pool'))
  BY <1>1, <1>3, <1>5, RejectedKeeps, SeqMonotonic DEF RejectKernel, Rejected, Translating, Translates, Passing
<1>6. ASSUME LoadTranslated PROVE phase' = "zipping" /\ InPass' /\ Zips'
  BY <1>1, <1>3, <1>6, LoadTranslatedKeeps DEF LoadTranslated, NextPass
<1> QED
  BY <1>1, <1>2, <1>4, <1>5, <1>6 DEF TranslateStep, TranslateNext, CompileInv, InPhase

\* A step of the zipper does,
LEMMA ZipStepKeeps ==
    ASSUME CompileInv, ZipStep
    PROVE  CompileInv'
<1>1. phase = "zipping" /\ InPass /\ Zips /\ pc = "seeding" /\ readyConst = <<>>
  BY DEF ZipStep, ZipNext, SkipZip, UseZipped, ZipNode, RejectWinograd, LinkZipped, EndZip, StartsZip, Zipping,
         CompileInv, InPhase
<1>2. UNCHANGED <<readyConst, pc>>
  BY DEF ZipStep, vars
<1>3. ASSUME UseZipped \/ ZipNode \/ LinkZipped PROVE phase' = phase /\ InPass' /\ Zips'
  <2>1. CASE UseZipped
    BY <2>1, <1>1, UseZippedKeeps DEF UseZipped
  <2>2. CASE ZipNode
    BY <2>2, <1>1, ZipNodeKeeps DEF ZipNode
  <2>3. CASE LinkZipped
    BY <2>3, <1>1, LinkZippedKeeps DEF LinkZipped
  <2> QED
    BY <1>3, <2>1, <2>2, <2>3
<1>4. ASSUME RejectWinograd PROVE phase' = "rejected" /\ InPass' /\ results' \in Seq(NodesOf(pool'))
  BY <1>1, <1>4, RejectedKeeps DEF RejectWinograd, Rejected, StartsZip, Zipping, Zips, Passing
<1>5. ASSUME SkipZip \/ EndZip PROVE phase' = "folding" /\ InPass' /\ Folds({})'
  BY <1>1, <1>2, <1>5, SkipZipKeeps, EndZipKeeps DEF SkipZip, EndZip, NextPass
<1> QED
  BY <1>1, <1>2, <1>3, <1>4, <1>5 DEF ZipStep, ZipNext, CompileInv, InPhase

\* and a step of the folding.
LEMMA FoldStepKeeps ==
    ASSUME CompileInv, FoldStep
    PROVE  CompileInv'
<1>1. phase = "folding" /\ InPass /\ (\E F : Folds(F)) /\ pc = "seeding"
  BY DEF FoldStep, FoldNext, UseReadyNonconst, UseReadyConst, RejectVariable, TakeConst, TakeParameter, Enter, Keep,
         Copy, Compute, RejectOperator, EndFolding, Unknown, Folding, CompileInv, InPhase
<1>2. UNCHANGED pc
  BY DEF FoldStep, vars
<1>3. PICK F : Folds(F)
  BY <1>1
<1>4. ASSUME UseReadyNonconst \/ UseReadyConst \/ TakeConst \/ TakeParameter \/ Enter \/ Keep \/ Copy \/ Compute
      PROVE  phase' = phase /\ InPass' /\ (\E G : Folds(G))'
  <2>1. CASE UseReadyNonconst \/ UseReadyConst
    BY <2>1, <1>1, <1>3, UseReadyKeeps DEF UseReadyNonconst, UseReadyConst
  <2>2. CASE TakeConst \/ TakeParameter
    BY <2>2, <1>1, <1>3, TakeLeafKeeps DEF TakeConst, TakeParameter
  <2>3. CASE Enter
    BY <2>3, <1>1, <1>3, EnterKeeps DEF Enter
  <2>4. CASE Keep
    BY <2>4, <1>1, <1>3, KeepKeeps DEF Keep
  <2>5. CASE Copy
    BY <2>5, <1>1, <1>3, CopyKeeps DEF Copy
  <2>6. CASE Compute
    BY <2>6, <1>1, <1>3, ComputeKeeps DEF Compute
  <2> QED
    BY <1>4, <2>1, <2>2, <2>3, <2>4, <2>5, <2>6
<1>5. ASSUME RejectVariable \/ RejectOperator PROVE phase' = "rejected" /\ InPass' /\ results' \in Seq(NodesOf(pool'))
  BY <1>1, <1>3, <1>5, RejectedKeeps, SeqMonotonic
     DEF RejectVariable, RejectOperator, Rejected, Unknown, Folding, Folds, Passing
<1>6. ASSUME EndFolding PROVE phase' = "compiling" /\ InPass' /\ Done'
  BY <1>1, <1>3, <1>6, EndFoldingKeeps DEF EndFolding, NextPass
<1> QED
  BY <1>1, <1>2, <1>4, <1>5, <1>6 DEF FoldStep, FoldNext, CompileInv, InPhase

\* Nothing but NodeRefs moves while the references are solved, or at the end.
LEMMA RestKeeps ==
    ASSUME CompileInv, StartRefs \/ FindRefs \/ StayEnded \/ UNCHANGED compileVars
    PROVE  CompileInv'
<1>1. UNCHANGED foldingVars /\ (phase = "compiling" \/ UNCHANGED pc)
  BY DEF StartRefs, HandedOver, FindRefs, StayEnded, compileVars, vars
<1>2. UNCHANGED <<phase, pool, outputs, calls, results, ready, module, readyConst>>
  BY <1>1 DEF foldingVars, translatorVars, rewritingVars
<1>3. InPass'
  BY <1>2, RejectedKeeps DEF CompileInv
<1>4. InPhase'
  <2>1. \A F : Translates(F) => Translates(F)'
    BY <1>2 DEF Translates, Passing, Fresh, Closed
  <2>2. Zips => Zips'
    BY <1>2 DEF Zips, Passing, WantsZip, Chosen
  <2>3. \A F : Folds(F) => Folds(F)'
    BY <1>2 DEF Folds, Passing
  <2>4. Done => Done'
    BY <1>2 DEF Done
  <2> QED
    BY <1>1, <1>2, <2>1, <2>2, <2>3, <2>4 DEF CompileInv, InPhase
<1> QED
  BY <1>3, <1>4 DEF CompileInv

\* Without the nodes of the last graph the pool is that of the module again.
LEMMA CompileAgainKeeps ==
    ASSUME CompileInv, CompileAgain
    PROVE  CompileInv'
<1>1. /\ phase' = FirstPass(module)
      /\ pool' = [bubbles |-> Restrict(pool.bubbles, Originals), links |-> Restrict(pool.links, Originals)]
      /\ outputs' = module.outputs /\ results' = <<>> /\ pc' = "seeding"
      /\ UNCHANGED <<module, calls, ready, readyConst>>
  BY DEF CompileAgain
<1>2. calls = <<>> /\ ready = <<>> /\ readyConst = <<>>
  BY DEF CompileAgain, CompileInv, InPhase, Done
<1>3. /\ module \in Modules /\ IsPool(pool) /\ KeepsModule
      /\ module.outputs \in Seq(Originals)
  BY ModulesAssumption DEF CompileInv, InPass
<1>4. /\ pool'.bubbles = [n \in Originals |-> pool.bubbles[n]]
      /\ pool'.links = [n \in Originals |-> pool.links[n]]
      /\ pool' = [bubbles |-> pool'.bubbles, links |-> pool'.links]
  BY <1>1 DEF Restrict
<1>5. \A n \in Originals : IsBubble(pool.bubbles[n])
  BY <1>3, OriginalsInPool, NodeOfPool
<1>6. IsPool(pool') /\ NodesOf(pool') = Originals
  <2>1. /\ pool'.bubbles = [n \in Originals |-> pool'.bubbles[n]] /\ pool'.links = [n \in Originals |-> pool'.links[n]]
        /\ \A n \in Originals : /\ IsBubble(pool'.bubbles[n]) /\ OpOf(pool', n) = module.bubbles[n].op
                                /\ pool'.links[n] = module.links[n]
    BY <1>3, <1>4, <1>5 DEF OpOf, KeepsModule
  <2> QED
    BY ONLY <1>3, <1>4, <2>1, ModuleIsPool
<1>7. InPass'
  <2>1. KeepsModule'
    BY <1>1, <1>3, <1>4 DEF KeepsModule, OpOf
  <2> QED
    BY <2>1, <1>1, <1>3, <1>6 DEF InPass
<1>8. Translates({})' /\ Zips'
  BY <1>1, <1>2, PassStarts DEF Translates, Passing, Fresh, Zips
<1>9. InPhase'
  BY <1>1, <1>2, <1>8, FirstPassIs DEF InPhase
<1> QED
  BY <1>7, <1>9 DEF CompileInv

\* So does every step.
LEMMA CompileNextKeeps == CompileInv /\ [CompileNext]_compileVars => CompileInv'
BY TranslateStepKeeps, ZipStepKeeps, FoldStepKeeps, RestKeeps, CompileAgainKeeps DEF CompileNext

-----------------------------------------------------------------------------
(***************************************************************************)
(* The references of the graph that is left                                *)
(***************************************************************************)
\* list_reference_nodes has not started.
Blank ==
    /\ pc = "seeding" /\ position = 1
    /\ depth = <<>> /\ walker = <<>> /\ schedule = <<>> /\ refs = <<>>

\* The graph that build_node_refs is called with
Passed == [args |-> pool.links, outputs |-> outputs]

\* Whatever holds the outputs and the inputs of its nodes holds what is reached.
StaysWithin == \A C : Closed(pool, C) /\ Range(outputs) \subseteq C => Reached \subseteq C

\* The references that are looked for are those of the graph that is left, and all
\* that is reached comes from its outputs.
RefsAreOfPool ==
    /\ graph = NoGraph => Blank
    /\ phase # "compiling" => graph = NoGraph
    /\ graph # NoGraph => graph = Passed
    /\ pc = "done" => schedule = <<>>
    /\ pc = "seeding" => \A i \in 1 .. position - 1 : outputs[i] \in Reached
    /\ pc # "seeding" => Range(outputs) \subseteq Reached
    /\ StaysWithin

\* The invariant of Program::Compile
FullInv == CompileInv /\ Inductive /\ RefsAreOfPool

\* Nothing is reached before list_reference_nodes starts, whatever the graph.
LEMMA BlankIsInductive == Blank' /\ IsLinked(graph') => Inductive'
<1> SUFFICES ASSUME Blank', IsLinked(graph') PROVE Inductive'
  OBVIOUS
<1>1. Reached' = {} /\ DOMAIN refs' = {} /\ DOMAIN schedule' = {}
  BY DEF Blank, Reached
<1>2. TypeOK'
  BY <1>1, EmptySeq DEF Blank, TypeOK
<1>3. InputsDeeper'
  BY <1>1 DEF InputsDeeper
<1>4. RefsSolved' /\ ScheduleSorted'
  BY <1>1 DEF Blank, RefsSolved, ScheduleSorted
<1> QED
  BY <1>2, <1>3, <1>4 DEF Inductive

\* Nor is anything found.
LEMMA BlankIsOfPool ==
    ASSUME Blank', graph' = NoGraph \/ (phase' = "compiling" /\ graph' = Passed')
    PROVE  RefsAreOfPool'
<1>1. Reached' = {} /\ pc' = "seeding" /\ position' - 1 = 0
  BY DEF Blank, Reached
<1> QED
  BY <1>1 DEF RefsAreOfPool, StaysWithin

\* The graph before there is one has no links at all.
LEMMA NoGraphIsLinked == IsLinked(NoGraph)
<1>1. NoGraph.args = <<>> /\ DOMAIN NoGraph.args = {} /\ NoGraph.outputs = <<>>
  BY DEF NoGraph
<1> QED
  BY <1>1, EmptySeq DEF IsLinked

\* The first state
LEMMA CompileInitFull == CompileInit => FullInv
<1> SUFFICES ASSUME CompileInit PROVE FullInv
  OBVIOUS
<1>1. InitFor(NoGraph)
  BY DEF CompileInit
<1>2. Inductive
  BY <1>1, NoGraphIsLinked, InitForInductive
<1>3. Blank /\ graph = NoGraph /\ Reached = {} /\ pc = "seeding" /\ position - 1 = 0
  BY <1>1 DEF InitFor, Blank, Reached
<1>4. RefsAreOfPool
  BY <1>3 DEF RefsAreOfPool, StaysWithin
<1> QED
  BY <1>2, <1>4, CompileInitInv DEF FullInv

\* While the passes are running there is no graph.
LEMMA PassesLeaveRefs ==
    ASSUME FullInv, TranslateStep \/ ZipStep \/ FoldStep
    PROVE  Inductive' /\ RefsAreOfPool'
<1>1. UNCHANGED vars /\ phase # "compiling"
  BY DEF TranslateStep, TranslateNext, UseTranslated, TranslateNode, RejectKernel, LinkTranslated, LoadTranslated,
         Translating, ZipStep, ZipNext, SkipZip, UseZipped, ZipNode, RejectWinograd, LinkZipped, EndZip, StartsZip,
         Zipping, FoldStep, FoldNext, UseReadyNonconst, UseReadyConst, RejectVariable, TakeConst, TakeParameter,
         Enter, Keep, Copy, Compute, RejectOperator, EndFolding, Unknown, Folding
<1>2. Inductive'
  BY <1>1, StopKeeps DEF FullInv
<1>3. graph = NoGraph /\ Blank
  BY <1>1 DEF FullInv, RefsAreOfPool
<1>4. Blank' /\ graph' = NoGraph
  BY <1>1, <1>3 DEF Blank, vars, NoGraph
<1>5. RefsAreOfPool'
  BY <1>4, BlankIsOfPool
<1> QED
  BY <1>2, <1>5

\* A pool is a graph that can be walked: no node is linked to itself.
LEMMA PoolIsLinked ==
    ASSUME IsPool(pool), outputs \in Seq(NodesOf(pool))
    PROVE  IsLinked(Passed)
<1>1. pool.links \in [NodesOf(pool) -> Seq(NodesOf(pool))] /\ Grounded(NodesOf(pool), pool.links)
  BY DEF IsPool, LinksOK
<1>2. ASSUME NEW n \in NodesOf(pool) PROVE n \notin Range(pool.links[n])
  <2>1. {n} \in SUBSET NodesOf(pool) /\ {n} # {}
    OBVIOUS
  <2>2. \E m \in {n} : Range(pool.links[m]) \intersect {n} = {}
    BY <1>1, <2>1 DEF Grounded
  <2> QED
    BY <2>2
<1>3. Passed.args = pool.links /\ Passed.outputs = outputs /\ DOMAIN Passed.args = NodesOf(pool)
  BY <1>1 DEF Passed
<1> QED
  BY <1>1, <1>2, <1>3 DEF IsLinked

\* build_node_refs is called.
LEMMA StartRefsKeeps ==
    ASSUME FullInv, StartRefs
    PROVE  Inductive' /\ RefsAreOfPool'
<1>1. /\ phase = "compiling" /\ graph = NoGraph /\ graph' = Passed
      /\ UNCHANGED <<foldingVars, pc, position, depth, walker, schedule, refs>>
  BY DEF StartRefs, HandedOver, Passed
<1>2. UNCHANGED <<pool, outputs, phase>>
  BY <1>1 DEF foldingVars, translatorVars, rewritingVars
<1>3. Blank
  BY <1>1 DEF FullInv, RefsAreOfPool
<1>4. Blank'
  BY <1>1, <1>3 DEF Blank
<1>5. IsLinked(graph')
  BY <1>1, PoolIsLinked DEF FullInv, CompileInv, InPass
<1>6. phase' = "compiling" /\ graph' = Passed'
  BY <1>1, <1>2 DEF Passed
<1> QED
  BY <1>4, <1>5, <1>6, BlankIsInductive, BlankIsOfPool

\* The next compilation has no graph yet.
LEMMA RefsStartAgain ==
    ASSUME FullInv, CompileAgain
    PROVE  Inductive' /\ RefsAreOfPool'
<1>1. /\ pc = "done" /\ graph' = NoGraph /\ pc' = "seeding" /\ position' = 1 /\ depth' = <<>> /\ refs' = <<>>
      /\ UNCHANGED <<walker, schedule>>
  BY DEF CompileAgain
<1>2. walker = <<>> /\ schedule = <<>>
  BY <1>1 DEF FullInv, Inductive, ScheduleSorted, RefsAreOfPool
<1>3. Blank'
  BY <1>1, <1>2 DEF Blank
<1> QED
  BY <1>1, <1>3, NoGraphIsLinked, BlankIsInductive, BlankIsOfPool

\* What is reached stays reached, and nothing is reached but outputs and the
\* inputs of what was reached.
LEMMA ReachedGrows ==
    ASSUME FullInv, FindRefs
    PROVE  /\ Reached \subseteq Reached'
           /\ StaysWithin
           /\ \A m \in Reached' \ Reached :
                  \/ pc = "seeding" /\ position \in 1 .. Len(outputs) /\ m = outputs[position]
                  \/ pc = "walking" /\ m \in Range(pool.links[node])
<1>1. graph = Passed /\ Inductive /\ TypeOK /\ StaysWithin
  BY DEF FindRefs, FullInv, RefsAreOfPool, Inductive
<1>2. graph.outputs = outputs /\ \A n : Inputs(n) = pool.links[n]
  BY <1>1 DEF Passed, Inputs
<1>3. position \in Nat \ {0} /\ IsLinked(graph)
  BY <1>1 DEF TypeOK
<1>4. \A n, d : depth' = WithDepth(n, d) => Reached' = Reached \union {n}
  BY DEF WithDepth, Reached
<1>5. CASE Seed
  <2> DEFINE n == outputs[position]
  <2>1. pc = "seeding" /\ position <= Len(outputs) /\ (depth' = depth \/ depth' = WithDepth(n, 1))
    BY <1>2, <1>5 DEF Seed
  <2>2. Len(outputs) \in Nat
    BY <1>2, <1>3, GraphShape, LenProperties
  <2>3. position \in 1 .. Len(outputs)
    BY <2>1, <2>2, <1>3
  <2>4. Reached' = Reached \/ Reached' = Reached \union {n}
    BY <2>1, <1>4 DEF Reached
  <2> QED
    BY <2>1, <2>3, <2>4, <1>1
<1>6. CASE Visit
  <2> DEFINE m == Inputs(node)[position]
             d == depth[node] + 1
  <2>1. pc = "walking" /\ position <= Len(Inputs(node)) /\ (depth' = depth \/ depth' = WithDepth(m, d))
    BY <1>6 DEF Visit
  <2>2. Inputs(node) \in Seq(Nodes)
    <3>1. node \in Nodes
      BY <2>1, <1>1 DEF TypeOK
    <3> QED
      BY <3>1, <1>3, GraphShape
  <2>3. m \in Range(Inputs(node))
    <3>1. DOMAIN Inputs(node) = 1 .. Len(Inputs(node)) /\ Len(Inputs(node)) \in Nat
      BY <2>2, RangeWithin
    <3>2. position \in DOMAIN Inputs(node)
      BY <3>1, <2>1, <1>3
    <3> QED
      BY <3>2, <2>2, RangeWithin
  <2>4. Reached' = Reached \/ Reached' = Reached \union {m}
    BY <2>1, <1>4 DEF Reached
  <2>5. Range(Inputs(node)) = Range(pool.links[node])
    BY <1>2
  <2> HIDE DEF m
  <2> QED
    BY <2>1, <2>3, <2>4, <2>5, <1>1
<1>7. CASE Take \/ Sort \/ AddRefs \/ Return
  <2>1. depth' = depth
    BY <1>7 DEF Take, Sort, AddRefs, Return
  <2> QED
    BY <2>1, <1>1 DEF Reached
<1> QED
  BY <1>5, <1>6, <1>7 DEF FindRefs

\* The walk begins with every output reached.
LEMMA OutputsReached ==
    ASSUME FullInv, FindRefs
    PROVE  /\ pc' = "seeding" => \A i \in 1 .. position' - 1 : outputs[i] \in Reached'
           /\ pc' # "seeding" => Range(outputs) \subseteq Reached'
<1>1. graph = Passed /\ TypeOK
  BY DEF FindRefs, FullInv, RefsAreOfPool, Inductive
<1>2. graph.outputs = outputs /\ outputs \in Seq(Nodes) /\ position \in Nat \ {0}
  <2>1. graph.outputs = outputs /\ IsLinked(graph) /\ position \in Nat \ {0}
    BY <1>1 DEF Passed, TypeOK
  <2> QED
    BY <2>1, GraphShape
<1>3. Range(outputs) = {outputs[i] : i \in 1 .. Len(outputs)} /\ Len(outputs) \in Nat
  BY <1>2, RangeEquality, LenProperties
<1>4. /\ pc = "seeding" => \A i \in 1 .. position - 1 : outputs[i] \in Reached
      /\ pc # "seeding" => Range(outputs) \subseteq Reached
  BY DEF FullInv, RefsAreOfPool
<1>5. Reached \subseteq Reached'
  BY ReachedGrows
<1>6. CASE Seed
  <2>1. pc = "seeding" /\ pc' = "seeding" /\ position' = position + 1
    BY <1>6 DEF Seed
  <2>2. outputs[position] \in Reached'
    BY <1>2, <1>6 DEF Seed, WithDepth, Reached
  <2>3. ASSUME NEW i \in 1 .. position' - 1 PROVE outputs[i] \in Reached'
    <3>1. i \in 1 .. position - 1 \/ i = position
      BY <2>1, <1>2
    <3> QED
      BY <3>1, <2>1, <2>2, <1>4, <1>5
  <2> QED
    BY <2>1, <2>3
<1>7. CASE Take \/ Sort
  <2>1. LoopOver /\ pc' # "seeding" /\ (pc = "seeding" => position > Len(outputs))
    BY <1>2, <1>7 DEF Take, Sort, LoopOver
  <2>2. pc = "seeding" => \A i \in 1 .. Len(outputs) : i \in 1 .. position - 1
    BY <2>1, <1>2, <1>3
  <2>3. Range(outputs) \subseteq Reached
    BY <2>2, <1>3, <1>4
  <2> QED
    BY <2>1, <2>3, <1>5
<1>8. CASE Visit \/ AddRefs \/ Return
  <2>1. pc # "seeding" /\ pc' # "seeding"
    BY <1>8 DEF Visit, AddRefs, Return
  <2> QED
    BY <2>1, <1>4, <1>5
<1> QED
  BY <1>6, <1>7, <1>8 DEF FindRefs

\* One step of list_reference_nodes or build_node_refs, in a pool that stays as it is
LEMMA FindRefsKeeps ==
    ASSUME FullInv, FindRefs
    PROVE  Inductive' /\ RefsAreOfPool'
<1>1. Inductive'
  BY SeedKeeps, TakeKeeps, VisitKeeps, SortKeeps, AddRefsKeeps, ReturnKeeps DEF FindRefs, FullInv
<1>2. phase = "compiling" /\ graph # NoGraph /\ graph = Passed
  BY DEF FindRefs, FullInv, RefsAreOfPool
<1>3. UNCHANGED <<graph, phase, pool, outputs>>
  <2>1. UNCHANGED graph /\ UNCHANGED foldingVars
    BY DEF FindRefs, Seed, Take, Visit, Sort, AddRefs, Return
  <2> QED
    BY <2>1 DEF foldingVars, translatorVars, rewritingVars
<1>4. /\ pc' = "seeding" => \A i \in 1 .. position' - 1 : outputs'[i] \in Reached'
      /\ pc' # "seeding" => Range(outputs') \subseteq Reached'
  BY <1>3, OutputsReached
<1>5. pc' = "done" => schedule' = <<>>
  BY DEF FindRefs, FullInv, RefsAreOfPool, Seed, Take, Visit, Sort, AddRefs, Return
<1>6. StaysWithin'
  <2> SUFFICES ASSUME NEW C, Closed(pool, C), Range(outputs) \subseteq C, NEW m \in Reached' PROVE m \in C
    BY <1>3 DEF StaysWithin, Closed, NodesOf
  <2>1. Reached \subseteq C
    BY ReachedGrows DEF StaysWithin
  <2>2. CASE m \in Reached
    BY <2>1, <2>2
  <2>3. CASE m \notin Reached /\ pc = "seeding" /\ position \in 1 .. Len(outputs) /\ m = outputs[position]
    <3>1. outputs \in Seq(NodesOf(pool))
      BY DEF FullInv, CompileInv, InPass
    <3> QED
      BY <2>3, <3>1, RangeWithin
  <2>4. CASE m \notin Reached /\ pc = "walking" /\ m \in Range(pool.links[node])
    <3>1. node \in C
      BY <2>1, <2>4 DEF FullInv, Inductive, TypeOK
    <3> QED
      BY <3>1, <2>4 DEF Closed
  <2> QED
    BY <2>2, <2>3, <2>4, ReachedGrows
<1>7. graph' # NoGraph /\ graph' = Passed' /\ phase' = "compiling"
  BY <1>2, <1>3 DEF Passed, NoGraph
<1> QED
  BY <1>1, <1>4, <1>5, <1>6, <1>7 DEF RefsAreOfPool

\* A step that changes nothing
LEMMA StayKeeps ==
    ASSUME FullInv, UNCHANGED compileVars
    PROVE  Inductive' /\ RefsAreOfPool'
<1>1. UNCHANGED vars /\ UNCHANGED <<pool, outputs, phase>>
  BY DEF compileVars, foldingVars, translatorVars, rewritingVars
<1>2. Inductive'
  BY <1>1, StopKeeps DEF FullInv
<1>3. RefsAreOfPool'
  BY <1>1 DEF FullInv, RefsAreOfPool, StaysWithin, Blank, Passed, Closed, Reached, NodesOf, NoGraph, vars
<1> QED
  BY <1>2, <1>3

\* Every step of the compilation
LEMMA CompileNextFull == FullInv /\ [CompileNext]_compileVars => FullInv'
<1> SUFFICES ASSUME FullInv, [CompileNext]_compileVars PROVE FullInv'
  OBVIOUS
<1>1. CompileInv'
  BY CompileNextKeeps DEF FullInv
<1>2. Inductive' /\ RefsAreOfPool'
  BY PassesLeaveRefs, StartRefsKeeps, FindRefsKeeps, RefsStartAgain, StayKeeps DEF CompileNext, StayEnded
<1> QED
  BY <1>1, <1>2 DEF FullInv

\* Once build_node_refs is done, what is reached is what the folding left.
LEMMA FullInvCompiles == FullInv => CompilesAGraph
<1> SUFFICES ASSUME FullInv, pc = "done" PROVE CompilesAGraph
  BY DEF CompilesAGraph
<1>1. phase = "compiling" /\ graph = Passed
  <2>1. graph # NoGraph
    BY DEF FullInv, RefsAreOfPool, Blank
  <2> QED
    BY <2>1 DEF FullInv, RefsAreOfPool
<1>2. /\ schedule = <<>> /\ Range(outputs) \subseteq Reached /\ StaysWithin
      /\ TypeOK /\ RefsSolved
  BY DEF FullInv, RefsAreOfPool, Inductive
<1>3. IsPool(pool) /\ outputs \in Seq(NodesOf(pool))
  BY DEF FullInv, CompileInv, InPass
<1>4. DOMAIN refs = Reached
  <2>1. Range(schedule) = {}
    BY <1>2, EmptyRange
  <2> QED
    BY <2>1, <1>2 DEF RefsSolved
<1>5. PICK F : Clean(pool, F) /\ outputs \in Seq(F)
  BY <1>1 DEF FullInv, CompileInv, InPhase, Done
<1>6. Reached \subseteq F
  BY <1>2, <1>5, RangeOfSeq DEF StaysWithin, Clean
<1>7. outputs \in Seq(DOMAIN refs)
  <2>1. \A i \in 1 .. Len(outputs) : outputs[i] \in Reached
    BY <1>2, <1>3, RangeWithin
  <2> QED
    BY <2>1, <1>3, <1>4, LenProperties, SeqDef
<1>8. ASSUME NEW n \in DOMAIN refs
      PROVE  /\ pool.links[n] \in Seq(DOMAIN refs)
             /\ refs[n] = UNION {{m} \union refs[m] : m \in Range(pool.links[n])}
             /\ n \notin refs[n]
             /\ Op(n) # "variable"
             /\ Op(n) \in EndPoints => pool.links[n] = <<>>
             /\ Op(n) \notin EndPoints => \E m \in Range(pool.links[n]) : Op(m) # "const"
  <2>1. Inputs(n) = pool.links[n]
    BY <1>1 DEF Inputs, Passed
  <2>2. /\ Range(pool.links[n]) \subseteq DOMAIN refs
        /\ refs[n] = UNION {{m} \union refs[m] : m \in Range(pool.links[n])}
        /\ n \notin refs[n]
    BY <2>1, <1>2 DEF RefsSolved
  <2>3. IsFolded(pool, n) /\ n \in NodesOf(pool)
    BY <1>4, <1>5, <1>6 DEF Clean, Closed
  <2>4. pool.links[n] \in Seq(NodesOf(pool)) /\ IsLinkedAs(OpOf(pool, n), pool.links[n])
    BY <1>3, <2>3, NodeOfPool
  <2>5. pool.links[n] \in Seq(DOMAIN refs)
    <3>1. \A i \in 1 .. Len(pool.links[n]) : pool.links[n][i] \in DOMAIN refs
      BY <2>2, <2>4, RangeWithin
    <3> QED
      BY <3>1, <2>4, LenProperties, SeqDef
  <2>6. /\ Op(n) # "variable"
        /\ Op(n) \in EndPoints => pool.links[n] = <<>>
        /\ Op(n) \notin EndPoints => \E m \in Range(pool.links[n]) : Op(m) # "const"
    BY <2>3, <2>4 DEF IsFolded, IsLinkedAs, Op, IsConst
  <2> QED
    BY <2>2, <2>5, <2>6
<1> QED
  BY <1>7, <1>8 DEF CompilesAGraph

-----------------------------------------------------------------------------
\* Program::Compile: through all passes, and however often a module is compiled,
\* nodes are linked to nodes that were there before them, what a pass returns is
\* made of what it has finished, the nodes of the module keep their operators and
\* inputs, and the references that are being found are those of the graph that is left.
THEOREM PassesKeepPool == CompileSpec => []FullInv
BY CompileInitFull, CompileNextFull, PTL DEF CompileSpec

\* The references are found as NodeRefs says, for every graph that the passes leave.
THEOREM RefsOfCompiled == CompileSpec => []Inductive
<1>1. FullInv => Inductive
  BY DEF FullInv
<1> QED
  BY <1>1, PassesKeepPool, PTL

\* The loop of Compiler::compile is given what it relies on: no Variable, no
\* operator that has nothing but Consts, no end point with inputs, and all references.
THEOREM GraphIsCompilable == CompileSpec => []CompilesAGraph
BY FullInvCompiles, PassesKeepPool, PTL

-----------------------------------------------------------------------------
(***************************************************************************)
(* What nodes denote is determined by what the nodes denote that they are  *)
(* linked to: there is one meaning, because links go around in no circle.  *)
(***************************************************************************)
\* What node n denotes, if D is what its inputs denote
ValueOf(p, D, n) ==
    CASE IsConst(p, n) -> p.bubbles[n].data
      [] OpOf(p, n) \in EndPoints \ {"const"} -> <<OpOf(p, n), p.bubbles[n].name>>
      [] OTHER -> Applied(p.bubbles[n], [i \in DOMAIN p.links[n] |-> D[p.links[n][i]]])

\* D is a meaning of the nodes S.
Denotes(p, S, D) == D = [n \in S |-> ValueOf(p, D, n)]

\* D and E give the inputs of n the same meaning.
AgreeOnInputs(p, D, E, n) == \A i \in DOMAIN p.links[n] : D[p.links[n][i]] = E[p.links[n][i]]

\* Then it is the same for n.
LEMMA SameValue ==
    ASSUME NEW p, NEW D, NEW E, NEW n, AgreeOnInputs(p, D, E, n)
    PROVE  ValueOf(p, D, n) = ValueOf(p, E, n)
<1> DEFINE d == [i \in DOMAIN p.links[n] |-> D[p.links[n][i]]]
           e == [i \in DOMAIN p.links[n] |-> E[p.links[n][i]]]
<1>1. d = e
  BY DEF AgreeOnInputs
<1>2. ValueOf(p, D, n) = CASE IsConst(p, n) -> p.bubbles[n].data
                           [] OpOf(p, n) \in EndPoints \ {"const"} -> <<OpOf(p, n), p.bubbles[n].name>>
                           [] OTHER -> Applied(p.bubbles[n], d)
  BY Zenon DEF ValueOf
<1>3. ValueOf(p, E, n) = CASE IsConst(p, n) -> p.bubbles[n].data
                           [] OpOf(p, n) \in EndPoints \ {"const"} -> <<OpOf(p, n), p.bubbles[n].name>>
                           [] OTHER -> Applied(p.bubbles[n], e)
  BY Zenon DEF ValueOf
<1> HIDE DEF d, e
<1> QED
  BY ONLY <1>1, <1>2, <1>3, Zenon

\* Inputs of a node of a closed set
LEMMA InputsWithin ==
    ASSUME NEW p, IsPool(p), NEW S, Closed(p, S), NEW n \in S
    PROVE  /\ n \in NodesOf(p)
           /\ \A i \in DOMAIN p.links[n] : p.links[n][i] \in S /\ p.links[n][i] \in Range(p.links[n])
<1>1. n \in NodesOf(p) /\ Range(p.links[n]) \subseteq S
  BY DEF Closed
<1>2. p.links[n] \in Seq(NodesOf(p))
  BY <1>1, NodeOfPool
<1> QED
  BY <1>1, <1>2, RangeWithin

\* Two meanings agree where both are given.
LEMMA MeaningsAgree ==
    ASSUME NEW p, IsPool(p), NEW S, Closed(p, S), NEW D, \A n \in S : D[n] = ValueOf(p, D, n),
           NEW T, Closed(p, T), NEW E, \A n \in T : E[n] = ValueOf(p, E, n)
    PROVE  \A n \in S \intersect T : D[n] = E[n]
<1> DEFINE X == {n \in S \intersect T : D[n] # E[n]}
<1> SUFFICES ASSUME X # {}  PROVE FALSE
  OBVIOUS
<1>1. X \subseteq NodesOf(p) /\ Grounded(NodesOf(p), p.links)
  BY DEF Closed, IsPool, LinksOK
<1>2. PICK n \in X : Range(p.links[n]) \intersect X = {}
  BY <1>1 DEF Grounded
<1>3. \A i \in DOMAIN p.links[n] : p.links[n][i] \in S \intersect T /\ p.links[n][i] \in Range(p.links[n])
  BY InputsWithin
<1>4. AgreeOnInputs(p, D, E, n)
  BY <1>2, <1>3 DEF AgreeOnInputs
<1>5. ValueOf(p, D, n) = ValueOf(p, E, n)
  BY <1>4, SameValue
<1> QED
  BY <1>5

\* Part of the nodes with a meaning
Partial(p, S, D) == Closed(p, S) /\ Denotes(p, S, D)

\* In such a part the values are as they have to be.
LEMMA PartialValues ==
    ASSUME NEW p, NEW S, NEW D, Denotes(p, S, D)
    PROVE  \A n \in S : D[n] = ValueOf(p, D, n)
BY Zenon DEF Denotes

\* All nodes of a pool have a meaning.
LEMMA MeaningExists ==
    ASSUME NEW p, IsPool(p)
    PROVE  \E D : Denotes(p, NodesOf(p), D)
<1> DEFINE U == {n \in NodesOf(p) : \E S, D : n \in S /\ Partial(p, S, D)}
           G == [n \in U |-> CHOOSE v : \E S, D : n \in S /\ Partial(p, S, D) /\ v = D[n]]
<1>1. ASSUME NEW S, NEW D, Partial(p, S, D)
      PROVE  S \subseteq U /\ \A n \in S : G[n] = D[n]
  <2>1. S \subseteq U
    BY <1>1 DEF Partial, Closed
  <2>2. ASSUME NEW n \in S  PROVE G[n] = D[n]
    <3>1. G[n] = CHOOSE v : \E T, E : n \in T /\ Partial(p, T, E) /\ v = E[n]
      BY <2>1, Zenon
    <3>2. PICK T, E : n \in T /\ Partial(p, T, E) /\ G[n] = E[n]
      BY <1>1, <3>1, Zenon
    <3>3. E[n] = D[n]
      BY <1>1, <3>2, PartialValues, MeaningsAgree DEF Partial
    <3> QED
      BY <3>2, <3>3
  <2> QED
    BY <2>1, <2>2
<1>2. ASSUME NEW n \in U
      PROVE  Range(p.links[n]) \subseteq U /\ G[n] = ValueOf(p, G, n)
  <2>1. PICK S, D : n \in S /\ Partial(p, S, D)
    OBVIOUS
  <2>2. S \subseteq U /\ \A m \in S : G[m] = D[m]
    BY <1>1, <2>1
  <2>3. Range(p.links[n]) \subseteq S
    BY <2>1 DEF Partial, Closed
  <2>4. AgreeOnInputs(p, G, D, n)
    <3> HIDE DEF G
    <3>1. \A i \in DOMAIN p.links[n] : p.links[n][i] \in S
      BY <2>1, InputsWithin DEF Partial
    <3> QED
      BY <2>2, <3>1 DEF AgreeOnInputs
  <2>5. ValueOf(p, G, n) = ValueOf(p, D, n) /\ D[n] = ValueOf(p, D, n)
    BY <2>1, <2>4, SameValue, PartialValues DEF Partial
  <2> HIDE DEF G, U
  <2> QED
    BY <2>1, <2>2, <2>3, <2>5
<1>3. U \subseteq NodesOf(p) /\ Closed(p, U) /\ Denotes(p, U, G)
  <2>1. U \subseteq NodesOf(p) /\ Closed(p, U)
    BY <1>2 DEF Closed
  <2>2. G = [n \in U |-> G[n]]
    OBVIOUS
  <2>3. G = [n \in U |-> ValueOf(p, G, n)]
    <3> HIDE DEF G, U
    <3> QED
      BY <1>2, <2>2
  <2> QED
    BY <2>1, <2>3 DEF Denotes
<1> HIDE DEF G
<1>4. U = NodesOf(p)
  <2> SUFFICES ASSUME NodesOf(p) \ U # {}  PROVE FALSE
    BY <1>3
  <2>1. PICK n \in NodesOf(p) \ U : Range(p.links[n]) \intersect (NodesOf(p) \ U) = {}
    BY DEF IsPool, LinksOK, Grounded
  <2>2. Range(p.links[n]) \subseteq U
    <3>1. p.links[n] \in Seq(NodesOf(p))
      BY <2>1, NodeOfPool
    <3>2. Range(p.links[n]) \subseteq NodesOf(p)
      BY <3>1, RangeWithin
    <3> QED
      BY <2>1, <3>2
  <2> DEFINE S == U \union {n}
             D == [m \in S |-> IF m = n THEN ValueOf(p, G, n) ELSE G[m]]
  <2>3. Closed(p, S)
    BY <1>3, <2>1, <2>2 DEF Closed
  <2>4. ASSUME NEW m \in S  PROVE D[m] = ValueOf(p, D, m)
    <3>1. \A i \in DOMAIN p.links[m] : p.links[m][i] \in U
      <4>1. CASE m = n
        <5>1. p.links[n] \in Seq(NodesOf(p))
          BY <2>1, NodeOfPool
        <5> HIDE DEF U
        <5> QED
          BY <2>2, <4>1, <5>1, RangeWithin
      <4>2. CASE m \in U
        <5> HIDE DEF U
        <5> QED
          BY <1>3, <4>2, InputsWithin
      <4> QED
        BY <4>1, <4>2
    <3>2. \A k \in U : k \in S /\ k # n /\ D[k] = G[k]
      <4> HIDE DEF U
      <4> QED
        BY <2>1
    <3>3. AgreeOnInputs(p, D, G, m)
      <4> HIDE DEF D, U
      <4> QED
        BY <3>1, <3>2 DEF AgreeOnInputs
    <3>4. ValueOf(p, D, m) = ValueOf(p, G, m)
      BY <3>3, SameValue
    <3>5. D[m] = ValueOf(p, G, m)
      <4>1. CASE m = n
        BY <4>1
      <4>2. CASE m \in U
        <5>1. D[m] = G[m]
          BY <3>2, <4>2
        <5> HIDE DEF D
        <5> QED
          BY <1>2, <4>2, <5>1
      <4> QED
        BY <4>1, <4>2
    <3> HIDE DEF D
    <3> QED
      BY <3>4, <3>5
  <2>5. Denotes(p, S, D)
    <3>1. D = [m \in S |-> D[m]]
      OBVIOUS
    <3> HIDE DEF D, S
    <3> QED
      BY <2>4, <3>1 DEF Denotes
  <2>6. n \in S /\ Partial(p, S, D)
    BY <2>3, <2>5 DEF Partial
  <2> HIDE DEF S, D
  <2> QED
    BY <2>1, <2>6
<1> HIDE DEF U
<1> QED
  BY <1>3, <1>4

\* Denoted is that meaning.
LEMMA DenotedIs == \A p : Denoted(p) = CHOOSE D : Denotes(p, NodesOf(p), D)
BY Zenon DEF Denoted, Denotes, ValueOf

\* The nodes of a pool denote what they are computed to from their inputs.
LEMMA DenotedValues ==
    ASSUME NEW p, IsPool(p)
    PROVE  \A n \in NodesOf(p) : Denoted(p)[n] = ValueOf(p, Denoted(p), n)
<1> DEFINE D == Denoted(p)
<1>1. Denotes(p, NodesOf(p), D)
  BY MeaningExists, DenotedIs, Zenon
<1> HIDE DEF D
<1>2. \A n \in NodesOf(p) : D[n] = ValueOf(p, D, n)
  BY <1>1, PartialValues
<1> QED
  BY <1>2 DEF D

\* Whatever satisfies the equations on a closed set is what its nodes denote.
LEMMA DenotedUnique ==
    ASSUME NEW p, IsPool(p), NEW S, Closed(p, S), NEW D, \A n \in S : D[n] = ValueOf(p, D, n)
    PROVE  \A n \in S : Denoted(p)[n] = D[n]
<1> DEFINE E == Denoted(p)
<1>1. \A n \in NodesOf(p) : E[n] = ValueOf(p, E, n)
  BY DenotedValues
<1>2. Closed(p, NodesOf(p))
  <2>1. ASSUME NEW n \in NodesOf(p)  PROVE Range(p.links[n]) \subseteq NodesOf(p)
    <3>1. p.links[n] \in Seq(NodesOf(p))
      BY NodeOfPool
    <3> QED
      BY <3>1, RangeWithin
  <2> QED
    BY <2>1 DEF Closed
<1> HIDE DEF E
<1>3. \A n \in S \intersect NodesOf(p) : D[n] = E[n]
  BY <1>1, <1>2, MeaningsAgree
<1>4. S \subseteq NodesOf(p)
  BY DEF Closed
<1> QED
  BY <1>3, <1>4 DEF E

-----------------------------------------------------------------------------
(***************************************************************************)
(* Steps that change the pool and no meaning                               *)
(***************************************************************************)
\* A node of p may be linked to other nodes in q, if these denote the same.
SameInputs(p, q, n) ==
    /\ Len(q.links[n]) = Len(p.links[n])
    /\ \A i \in 1 .. Len(p.links[n]) :
          q.links[n][i] \in NodesOf(p) /\ Denoted(p)[q.links[n][i]] = Denoted(p)[p.links[n][i]]

\* The nodes of p are nodes of q with their bubbles, on inputs that mean the same.
Rewrites(p, q) ==
    /\ IsPool(q)
    /\ NodesOf(p) \subseteq NodesOf(q)
    /\ \A n \in NodesOf(p) : q.bubbles[n] = p.bubbles[n] /\ SameInputs(p, q, n)

\* So they mean the same themselves, and so do their inputs.
SameMeanings(p, q) ==
    \A n \in NodesOf(p) :
        /\ Denoted(q)[n] = Denoted(p)[n]
        /\ Len(q.links[n]) = Len(p.links[n])
        /\ \A i \in 1 .. Len(p.links[n]) : Denoted(q)[q.links[n][i]] = Denoted(p)[p.links[n][i]]

\* Links are sequences of nodes.
LEMMA LinksOfNode ==
    ASSUME NEW p, IsPool(p), NEW n \in NodesOf(p)
    PROVE  /\ p.links[n] \in Seq(NodesOf(p))
           /\ Len(p.links[n]) \in Nat /\ DOMAIN p.links[n] = 1 .. Len(p.links[n])
           /\ \A i \in 1 .. Len(p.links[n]) : p.links[n][i] \in NodesOf(p)
<1>1. p.links[n] \in Seq(NodesOf(p))
  BY NodeOfPool
<1> QED
  BY <1>1, RangeWithin

\* Node m of q has the bubble of node n of p, and inputs that have the same values.
IsLike(p, D, n, q, E, m) ==
    /\ q.bubbles[m] = p.bubbles[n]
    /\ DOMAIN q.links[m] = DOMAIN p.links[n]
    /\ \A i \in DOMAIN p.links[n] : E[q.links[m][i]] = D[p.links[n][i]]

\* Then it has the same value.
LEMMA ValueAcross ==
    ASSUME NEW p, NEW D, NEW n, NEW q, NEW E, NEW m, IsLike(p, D, n, q, E, m)
    PROVE  ValueOf(q, E, m) = ValueOf(p, D, n)
<1> DEFINE d == [i \in DOMAIN p.links[n] |-> D[p.links[n][i]]]
           e == [i \in DOMAIN q.links[m] |-> E[q.links[m][i]]]
           b == p.bubbles[n]
<1>1. d = e /\ q.bubbles[m] = b
  BY DEF IsLike
<1>2. ValueOf(p, D, n) = CASE b.op = "const" -> b.data
                           [] b.op \in EndPoints \ {"const"} -> <<b.op, b.name>>
                           [] OTHER -> Applied(b, d)
  BY Zenon DEF ValueOf, IsConst, OpOf
<1>3. ValueOf(q, E, m) = CASE b.op = "const" -> b.data
                           [] b.op \in EndPoints \ {"const"} -> <<b.op, b.name>>
                           [] OTHER -> Applied(b, e)
  BY <1>1, Zenon DEF ValueOf, IsConst, OpOf
<1> HIDE DEF d, e, b
<1> QED
  BY ONLY <1>1, <1>2, <1>3, Zenon

\* Rewriting keeps meanings.
LEMMA RewritingKeepsMeaning ==
    ASSUME NEW p, IsPool(p), NEW q, Rewrites(p, q)
    PROVE  SameMeanings(p, q)
<1> DEFINE D == Denoted(p)
           N == NodesOf(p)
<1>1. \A n \in N : D[n] = ValueOf(p, D, n)
  BY DenotedValues
<1>2. IsPool(q) /\ N \subseteq NodesOf(q) /\ \A n \in N : q.bubbles[n] = p.bubbles[n] /\ SameInputs(p, q, n)
  BY DEF Rewrites
<1>3. ASSUME NEW n \in N
      PROVE  /\ Len(q.links[n]) = Len(p.links[n])
             /\ \A i \in 1 .. Len(p.links[n]) : q.links[n][i] \in N /\ D[q.links[n][i]] = D[p.links[n][i]]
             /\ DOMAIN q.links[n] = 1 .. Len(p.links[n]) /\ DOMAIN p.links[n] = 1 .. Len(p.links[n])
             /\ q.links[n] \in Seq(NodesOf(q))
  <2>1. SameInputs(p, q, n) /\ n \in NodesOf(q)
    BY <1>2
  <2> QED
    BY <1>2, <2>1, LinksOfNode DEF SameInputs
<1>4. Closed(q, N)
  <2>1. ASSUME NEW n \in N  PROVE Range(q.links[n]) \subseteq N
    BY <1>3 DEF Range
  <2> QED
    BY <1>2, <2>1 DEF Closed
<1> HIDE DEF D
<1>5. ASSUME NEW n \in N  PROVE D[n] = ValueOf(q, D, n)
  <2>1. q.bubbles[n] = p.bubbles[n]
    BY <1>2
  <2>2. DOMAIN q.links[n] = DOMAIN p.links[n]
    BY <1>3
  <2>3. \A i \in DOMAIN p.links[n] : D[q.links[n][i]] = D[p.links[n][i]]
    BY <1>3
  <2>4. IsLike(p, D, n, q, D, n)
    BY <2>1, <2>2, <2>3 DEF IsLike
  <2>5. ValueOf(q, D, n) = ValueOf(p, D, n)
    BY <2>4, ValueAcross
  <2> QED
    BY <1>1, <2>5
<1>6. \A n \in N : Denoted(q)[n] = D[n]
  BY <1>2, <1>4, <1>5, DenotedUnique
<1>7. \A n \in N : \A i \in 1 .. Len(p.links[n]) : Denoted(q)[q.links[n][i]] = D[p.links[n][i]]
  BY <1>3, <1>6
<1> QED
  BY <1>3, <1>6, <1>7 DEF SameMeanings, D

\* Nothing changes.
LEMMA RewritesItself ==
    ASSUME NEW p, IsPool(p)
    PROVE  Rewrites(p, p)
BY LinksOfNode DEF Rewrites, SameInputs

\* Nodes are added.
OnlyAdds(p, q) ==
    /\ IsPool(q)
    /\ NodesOf(p) \subseteq NodesOf(q)
    /\ \A n \in NodesOf(p) : q.bubbles[n] = p.bubbles[n] /\ q.links[n] = p.links[n]

\* Added nodes leave the others alone.
LEMMA AddingRewrites ==
    ASSUME NEW p, IsPool(p), NEW q, OnlyAdds(p, q)
    PROVE  Rewrites(p, q)
BY LinksOfNode DEF OnlyAdds, Rewrites, SameInputs

\* A node made with the bubble of n, on inputs that denote the same, denotes the same.
LEMMA SameBubbleSameMeaning ==
    ASSUME NEW p, IsPool(p), NEW m \in NodesOf(p), NEW n \in NodesOf(p), p.bubbles[m] = p.bubbles[n],
           Len(p.links[m]) = Len(p.links[n]),
           \A i \in 1 .. Len(p.links[n]) : Denoted(p)[p.links[m][i]] = Denoted(p)[p.links[n][i]]
    PROVE  Denoted(p)[m] = Denoted(p)[n]
<1>1. DOMAIN p.links[m] = 1 .. Len(p.links[n]) /\ DOMAIN p.links[n] = 1 .. Len(p.links[n])
  BY LinksOfNode
<1>2. ValueOf(p, Denoted(p), m) = ValueOf(p, Denoted(p), n)
  <2> DEFINE D == Denoted(p)
  <2>1. \A i \in DOMAIN p.links[n] : D[p.links[m][i]] = D[p.links[n][i]]
    BY <1>1
  <2>2. DOMAIN p.links[m] = DOMAIN p.links[n]
    BY <1>1
  <2>3. IsLike(p, D, n, p, D, m)
    BY <2>1, <2>2 DEF IsLike
  <2> HIDE DEF D
  <2>4. ValueOf(p, D, m) = ValueOf(p, D, n)
    BY <2>3, ValueAcross
  <2> QED
    BY <2>4 DEF D
<1> QED
  BY <1>2, DenotedValues

-----------------------------------------------------------------------------
(***************************************************************************)
(* What the passes make denotes what it is made for, if nothing is packed  *)
(* and no variance is raised.                                              *)
(***************************************************************************)
\* The newest node of q denotes what n does.
NewMeans(p, q, n) ==
    /\ OnlyAdds(p, q)
    /\ Newest(q) \in NodesOf(q) \ NodesOf(p)
    /\ Denoted(q)[Newest(q)] = Denoted(p)[n]

\* Adding keeps what nodes denote.
LEMMA AddingKeepsMeaning ==
    ASSUME NEW p, IsPool(p), NEW q, OnlyAdds(p, q)
    PROVE  \A n \in NodesOf(p) : Denoted(q)[n] = Denoted(p)[n]
BY AddingRewrites, RewritingKeepsMeaning DEF SameMeanings

\* A node is made.
LEMMA MadeAdds ==
    ASSUME NEW p, IsPool(p), NEW bubble, IsBubble(bubble),
           NEW inputs \in Seq(NodesOf(p)), IsLinkedAs(bubble.op, inputs),
           NEW q, q = Made(p, bubble, inputs)
    PROVE  /\ OnlyAdds(p, q) /\ IsPool(q)
           /\ NodesOf(q) = NodesOf(p) \union {Newest(q)}
           /\ Newest(q) \in NodesOf(q) \ NodesOf(p)
           /\ q.bubbles[Newest(q)] = bubble
           /\ q.links[Newest(q)] = inputs
<1>1. /\ IsPool(Made(p, bubble, inputs))
      /\ NodesOf(Made(p, bubble, inputs)) = NodesOf(p) \union {Newest(Made(p, bubble, inputs))}
      /\ Newest(Made(p, bubble, inputs)) \notin NodesOf(p)
  BY PoolGrowsByOne
<1>2. /\ \A n \in NodesOf(p) : /\ Made(p, bubble, inputs).bubbles[n] = p.bubbles[n]
                               /\ Made(p, bubble, inputs).links[n] = p.links[n]
      /\ Made(p, bubble, inputs).bubbles[Newest(Made(p, bubble, inputs))] = bubble
      /\ Made(p, bubble, inputs).links[Newest(Made(p, bubble, inputs))] = inputs
  BY PoolGrowsByOne
<1> QED
  BY <1>1, <1>2 DEF OnlyAdds

\* Inputs that can be given to n instead of its own
LikeInputs(p, inputs, n) ==
    /\ inputs \in Seq(NodesOf(p)) /\ Len(inputs) = Len(p.links[n])
    /\ \A i \in 1 .. Len(p.links[n]) : Denoted(p)[inputs[i]] = Denoted(p)[p.links[n][i]]

\* The node m was made with the bubble of n, and denotes what n does.
MeansLike(p, q, m, n) ==
    NewMeans(p, q, n) /\ m = Newest(q) /\ NodesOf(q) = NodesOf(p) \union {m} /\ q.bubbles[m] = p.bubbles[n]

\* A node with the bubble of n on inputs that denote the same
LEMMA MadeMeans ==
    ASSUME NEW p, IsPool(p), NEW n \in NodesOf(p), NEW inputs, LikeInputs(p, inputs, n),
           NEW bubble, bubble = p.bubbles[n], NEW q, q = Made(p, bubble, inputs)
    PROVE  MeansLike(p, q, Newest(q), n)
<1>0. /\ inputs \in Seq(NodesOf(p)) /\ Len(inputs) = Len(p.links[n])
      /\ \A i \in 1 .. Len(p.links[n]) : Denoted(p)[inputs[i]] = Denoted(p)[p.links[n][i]]
  BY DEF LikeInputs
<1>1. IsBubble(p.bubbles[n]) /\ IsLinkedAs(p.bubbles[n].op, p.links[n]) /\ p.links[n] \in Seq(NodesOf(p))
  BY NodeOfPool
<1>2. IsLinkedAs(p.bubbles[n].op, inputs)
  BY <1>0, <1>1, LinkedAsLong
<1>3. /\ OnlyAdds(p, q) /\ IsPool(q)
      /\ NodesOf(q) = NodesOf(p) \union {Newest(q)}
      /\ Newest(q) \in NodesOf(q) \ NodesOf(p)
      /\ q.bubbles[Newest(q)] = p.bubbles[n] /\ q.links[Newest(q)] = inputs
  BY <1>0, <1>1, <1>2, MadeAdds
<1>4. /\ \A m \in NodesOf(p) : Denoted(q)[m] = Denoted(p)[m]
      /\ q.bubbles[n] = p.bubbles[n] /\ q.links[n] = p.links[n] /\ n \in NodesOf(q)
  BY <1>3, AddingKeepsMeaning DEF OnlyAdds
<1>5. \A i \in 1 .. Len(p.links[n]) : inputs[i] \in NodesOf(p) /\ p.links[n][i] \in NodesOf(p)
  BY <1>0, <1>1, RangeWithin
<1> DEFINE m == Newest(q)
<1>6. /\ m \in NodesOf(q) /\ q.bubbles[m] = q.bubbles[n] /\ Len(q.links[m]) = Len(q.links[n])
      /\ \A i \in 1 .. Len(q.links[n]) : Denoted(q)[q.links[m][i]] = Denoted(q)[q.links[n][i]]
  BY <1>0, <1>3, <1>4, <1>5
<1> HIDE DEF m
<1>7. IsPool(q) /\ n \in NodesOf(q)
  BY <1>3, <1>4
<1>8. Denoted(q)[m] = Denoted(q)[n]
  BY ONLY <1>6, <1>7, SameBubbleSameMeaning
<1> QED
  BY <1>3, <1>4, <1>8 DEF NewMeans, MeansLike, m

\* A copy denotes the same.
LEMMA CopiedMeans ==
    ASSUME NEW p, IsPool(p), NEW n \in NodesOf(p), NEW q, q = Copied(p, n)
    PROVE  NewMeans(p, q, n) /\ NodesOf(q) = NodesOf(p) \union {Newest(q)}
           /\ q.bubbles[Newest(q)] = p.bubbles[n]
<1>1. PICK inputs, bubble : inputs = p.links[n] /\ bubble = p.bubbles[n]
  OBVIOUS
<1>2. q = Made(p, bubble, inputs)
  BY <1>1 DEF Copied
<1>3. LikeInputs(p, inputs, n)
  BY <1>1, LinksOfNode DEF LikeInputs
<1>4. MeansLike(p, q, Newest(q), n)
  BY ONLY IsPool(p), n \in NodesOf(p), <1>1, <1>2, <1>3, MadeMeans
<1> QED
  BY <1>4 DEF MeansLike

\* A cast denotes what it casts.
LEMMA CastValue ==
    ASSUME NEW p, IsPool(p), NEW m \in NodesOf(p), OpOf(p, m) = "cast", NEW n, p.links[m] = <<n>>
    PROVE  Denoted(p)[m] = Denoted(p)[n]
<1> DEFINE D == Denoted(p)
           v == [i \in DOMAIN p.links[m] |-> D[p.links[m][i]]]
           b == p.bubbles[m]
<1>1. D[m] = ValueOf(p, D, m)
  BY DenotedValues
<1>2. b.op = "cast" /\ ~IsConst(p, m) /\ OpOf(p, m) \notin EndPoints
  BY DEF OpOf, IsConst, EndPoints
<1>3. ValueOf(p, D, m) = CASE IsConst(p, m) -> b.data
                           [] OpOf(p, m) \in EndPoints \ {"const"} -> <<OpOf(p, m), b.name>>
                           [] OTHER -> Applied(b, v)
  BY Zenon DEF ValueOf
<1>4. v[1] = D[n]
  <2>1. 1 \in DOMAIN p.links[m] /\ p.links[m][1] = n
    OBVIOUS
  <2> QED
    BY <2>1
<1> HIDE DEF v, D
<1>5. ValueOf(p, D, m) = Applied(b, v)
  BY <1>2, <1>3
<1> HIDE DEF b
<1>6. Applied(b, v) = v[1]
  BY <1>2 DEF Applied
<1> QED
  BY <1>1, <1>4, <1>5, <1>6 DEF D

\* So does a cast that is made for a node.
LEMMA CastToMeans ==
    ASSUME NEW p, IsPool(p), NEW dtype, NEW n \in NodesOf(p), NEW q, q = CastTo(p, dtype, n)
    PROVE  NewMeans(p, q, n) /\ NodesOf(q) = NodesOf(p) \union {Newest(q)}
           /\ q.bubbles[Newest(q)] = CastBubble(p, dtype, n)
<1>1. PICK b, inputs : b = CastBubble(p, dtype, n) /\ inputs = <<n>>
  OBVIOUS
<1>2. IsBubble(b) /\ b.op = "cast"
  BY <1>1, CastMade
<1>3. IsLinkedAs(b.op, inputs) /\ inputs \in Seq(NodesOf(p)) /\ q = Made(p, b, inputs)
  BY <1>1, <1>2, Linkable DEF CastTo
<1>4. /\ OnlyAdds(p, q) /\ IsPool(q)
      /\ NodesOf(q) = NodesOf(p) \union {Newest(q)}
      /\ Newest(q) \in NodesOf(q) \ NodesOf(p)
      /\ q.bubbles[Newest(q)] = b /\ q.links[Newest(q)] = inputs
  BY ONLY IsPool(p), <1>3, <1>2, MadeAdds
<1>5. Denoted(q)[Newest(q)] = Denoted(q)[n]
  BY <1>1, <1>2, <1>4, CastValue DEF OpOf
<1>6. Denoted(q)[n] = Denoted(p)[n]
  BY <1>4, AddingKeepsMeaning
<1> QED
  BY <1>1, <1>4, <1>5, <1>6 DEF NewMeans

\* A plain pool: no kernel is packed, and no variance is to be raised.
PlainBubble(b) == /\ "kernel_packed" \notin b.flags
                  /\ Chosen("float16") /\ b.op = "batch_norm" => "epsilon" \notin b.flags
PlainPool(p) == \A n \in NodesOf(p) : PlainBubble(p.bubbles[n])

\* A plain node is made that denotes what n does.
PlainlyMeans(p, q, n) == NewMeans(p, q, n) /\ IsPool(q) /\ PlainPool(q)

\* A copy of n with the casts it needs denotes what n does.
LEMMA WithCastsMeans ==
    ASSUME NEW p, IsPool(p), PlainPool(p), NEW n \in NodesOf(p), NEW q, q = WithCasts(p, n)
    PROVE  PlainlyMeans(p, q, n)
<1>0. PICK new, count, needed : CastsAre(p, n, new, count, needed) /\ q = Made(MadeAll(p, new), p.bubbles[n], needed)
  BY WithCastsMakes
<1>1. PICK r : r = MadeAll(p, new)
  OBVIOUS
<1>2. /\ CanBeMade(p, new, count) /\ count \in Nat
      /\ \A k \in 1 .. count : new[k].bubble.op = "cast" /\ new[k].bubble.flags = {}
      /\ needed \in Seq(NodesOf(r)) /\ Len(needed) = Len(p.links[n])
      /\ \A j \in 1 .. Len(p.links[n]) :
            \/ needed[j] = p.links[n][j]
            \/ \E k \in 1 .. count : needed[j] = Newest(p) + k /\ new[k].inputs = <<p.links[n][j]>>
  BY <1>0, <1>1 DEF CastsAre, CanBeMade
<1>3. /\ IsPool(r) /\ NodesOf(r) = NodesOf(p) \union NextIds(p, count)
      /\ \A m \in NodesOf(p) : r.bubbles[m] = p.bubbles[m] /\ r.links[m] = p.links[m]
      /\ \A k \in 1 .. count : /\ Newest(p) + k \notin NodesOf(p)
                               /\ r.bubbles[Newest(p) + k] = new[k].bubble
                               /\ r.links[Newest(p) + k] = new[k].inputs
  <2>1. IsPool(MadeAll(p, new)) /\ NodesOf(MadeAll(p, new)) = NodesOf(p) \union NextIds(p, count)
    BY ONLY IsPool(p), <1>2, PoolGrows
  <2>2. \A m \in NodesOf(p) : MadeAll(p, new).bubbles[m] = p.bubbles[m] /\ MadeAll(p, new).links[m] = p.links[m]
    BY ONLY IsPool(p), <1>2, PoolGrows
  <2>3. \A k \in 1 .. count : /\ Newest(p) + k \notin NodesOf(p)
                              /\ MadeAll(p, new).bubbles[Newest(p) + k] = new[k].bubble
                              /\ MadeAll(p, new).links[Newest(p) + k] = new[k].inputs
    BY ONLY IsPool(p), <1>2, PoolGrows
  <2> QED
    BY <1>1, <2>1, <2>2, <2>3
<1>4. Newest(p) \in Nat
  BY NewestIsLast DEF IsPool
<1>5. \A k \in 1 .. count : Newest(p) + k \in NodesOf(r)
  BY <1>2, <1>3, <1>4 DEF NextIds
<1>6. OnlyAdds(p, r)
  BY <1>3 DEF OnlyAdds
<1>7. \A m \in NodesOf(p) : Denoted(r)[m] = Denoted(p)[m]
  BY <1>6, AddingKeepsMeaning
<1>8. n \in NodesOf(r) /\ r.bubbles[n] = p.bubbles[n] /\ r.links[n] = p.links[n]
  BY <1>3
<1>9. ASSUME NEW j \in 1 .. Len(r.links[n])  PROVE Denoted(r)[needed[j]] = Denoted(r)[r.links[n][j]]
  <2>1. CASE needed[j] = p.links[n][j]
    BY <2>1, <1>8
  <2>2. CASE \E k \in 1 .. count : needed[j] = Newest(p) + k /\ new[k].inputs = <<p.links[n][j]>>
    <3>1. PICK k \in 1 .. count : needed[j] = Newest(p) + k /\ new[k].inputs = <<p.links[n][j]>>
      BY <2>2
    <3>2. PICK m, k1 : m = Newest(p) + k /\ k1 = p.links[n][j]
      OBVIOUS
    <3>3. m \in NodesOf(r) /\ OpOf(r, m) = "cast" /\ r.links[m] = <<k1>>
      BY <1>2, <1>3, <1>5, <3>1, <3>2 DEF OpOf
    <3>4. Denoted(r)[m] = Denoted(r)[k1]
      BY <1>3, <3>3, CastValue
    <3> QED
      BY <1>8, <3>1, <3>2, <3>4
  <2> QED
    BY <1>2, <1>8, <2>1, <2>2
<1>10. Len(needed) = Len(r.links[n]) /\ q = Made(r, r.bubbles[n], needed)
  BY <1>0, <1>1, <1>2, <1>8
<1>11. NewMeans(r, q, n) /\ NodesOf(q) = NodesOf(r) \union {Newest(q)} /\ q.bubbles[Newest(q)] = r.bubbles[n]
  <2>1. PICK bubble : bubble = r.bubbles[n]
    OBVIOUS
  <2>2. IsPool(r) /\ n \in NodesOf(r) /\ LikeInputs(r, needed, n)
    BY <1>2, <1>3, <1>8, <1>9, <1>10 DEF LikeInputs
  <2>3. q = Made(r, bubble, needed)
    BY <1>10, <2>1
  <2>4. MeansLike(r, q, Newest(q), n)
    BY ONLY <2>1, <2>2, <2>3, MadeMeans
  <2> QED
    BY <2>4 DEF MeansLike
<1>12. /\ IsPool(q) /\ NodesOf(r) \subseteq NodesOf(q)
       /\ \A m \in NodesOf(r) : q.bubbles[m] = r.bubbles[m] /\ q.links[m] = r.links[m]
       /\ Newest(q) \in NodesOf(q) \ NodesOf(r) /\ Denoted(q)[Newest(q)] = Denoted(r)[n]
  BY <1>11 DEF NewMeans, OnlyAdds
<1>13. OnlyAdds(p, q)
  BY <1>3, <1>12 DEF OnlyAdds
<1>14. NewMeans(p, q, n)
  BY <1>3, <1>7, <1>12, <1>13 DEF NewMeans
<1>15. ASSUME NEW m \in NodesOf(q)  PROVE PlainBubble(q.bubbles[m])
  <2>1. \A k \in NodesOf(p) : PlainBubble(r.bubbles[k])
    BY <1>3 DEF PlainPool
  <2>2. \A k \in NextIds(p, count) : PlainBubble(r.bubbles[k])
    <3> SUFFICES ASSUME NEW k \in NextIds(p, count)  PROVE PlainBubble(r.bubbles[k])
      OBVIOUS
    <3>1. PICK i \in 1 .. count : k = Newest(p) + i
      <4>1. k - Newest(p) \in 1 .. count /\ k = Newest(p) + (k - Newest(p))
        BY <1>2, <1>4 DEF NextIds
      <4> QED
        BY <4>1
    <3>2. r.bubbles[k].flags = {}
      BY <1>2, <1>3, <3>1
    <3> QED
      BY <3>2 DEF PlainBubble
  <2>3. m \in NodesOf(r) \/ m = Newest(q)
    BY <1>11
  <2>4. m \in NodesOf(r) => PlainBubble(q.bubbles[m])
    BY <1>3, <1>12, <2>1, <2>2
  <2>5. PlainBubble(q.bubbles[Newest(q)])
    BY <1>8, <1>11, <2>1
  <2> QED
    BY <2>3, <2>4, <2>5
<1> QED
  BY <1>12, <1>14, <1>15 DEF PlainlyMeans, PlainPool

\* Writing what is there changes nothing.
LEMMA DataWrittenBack ==
    ASSUME NEW p, IsPool(p), NEW k
    PROVE  WithData(p, k, p.bubbles[k].data) = p
<1> DEFINE b == p.bubbles
           c == [b EXCEPT ![k].data = b[k].data]
<1>1. p = [bubbles |-> b, links |-> p.links] /\ b = [m \in NodesOf(p) |-> b[m]] /\ \A m \in NodesOf(p) : IsBubble(b[m])
  BY DEF IsPool, BubblesOK
<1>2. WithData(p, k, b[k].data) = [bubbles |-> c, links |-> p.links]
  BY <1>1 DEF WithData
<1> HIDE DEF b
<1>3. c = [m \in NodesOf(p) |-> c[m]]
  BY <1>1
<1>4. ASSUME NEW m \in NodesOf(p)  PROVE c[m] = b[m]
  <2>1. CASE m = k
    <3>1. c[m] = [b[m] EXCEPT !.data = b[m].data]
      BY <1>1, <2>1
    <3> QED
      BY <1>1, <3>1 DEF IsBubble
  <2> QED
    BY <1>1, <2>1
<1> HIDE DEF c
<1>5. c = b
  BY <1>1, <1>3, <1>4
<1> QED
  BY <1>1, <1>2, <1>5 DEF b

\* That is also true of flags.
LEMMA FlagsWrittenBack ==
    ASSUME NEW p, IsPool(p), NEW k
    PROVE  [p EXCEPT !.bubbles[k].flags = p.bubbles[k].flags] = p
<1> DEFINE b == p.bubbles
           c == [b EXCEPT ![k].flags = b[k].flags]
<1>1. p = [bubbles |-> b, links |-> p.links] /\ b = [m \in NodesOf(p) |-> b[m]] /\ \A m \in NodesOf(p) : IsBubble(b[m])
  BY DEF IsPool, BubblesOK
<1>2. [p EXCEPT !.bubbles[k].flags = b[k].flags] = [bubbles |-> c, links |-> p.links]
  BY <1>1
<1> HIDE DEF b
<1>3. c = [m \in NodesOf(p) |-> c[m]]
  BY <1>1
<1>4. ASSUME NEW m \in NodesOf(p)  PROVE c[m] = b[m]
  <2>1. CASE m = k
    <3>1. c[m] = [b[m] EXCEPT !.flags = b[m].flags]
      BY <1>1, <2>1
    <3> QED
      BY <1>1, <3>1 DEF IsBubble
  <2> QED
    BY <1>1, <2>1
<1> HIDE DEF c
<1>5. c = b
  BY <1>1, <1>3, <1>4
<1> QED
  BY <1>1, <1>2, <1>5 DEF b

\* No variance is raised in a plain pool.
LEMMA NoVarianceRaised ==
    ASSUME NEW p, IsPool(p), PlainBubble(p.bubbles[Newest(p)])
    PROVE  RaiseVariance(p) = p
<1>0. PICK n, b, const, raised : /\ n = Newest(p) /\ b = p.bubbles[n] /\ const = Source(p, p.links[n][3])
                                 /\ raised = Given("epsilon", b, <<"raised", ConstData(p, const)>>, ConstData(p, const))
  OBVIOUS
<1>1. RaiseVariance(p) = p
      \/ /\ Chosen("float16") /\ b.op = "batch_norm"
         /\ RaiseVariance(p) = [WithData(p, const, raised)
                                   EXCEPT !.bubbles[n].flags = b.flags \ {"epsilon"}]
  BY <1>0, Zenon DEF RaiseVariance
<1>2. CASE /\ Chosen("float16") /\ b.op = "batch_norm"
           /\ RaiseVariance(p) = [WithData(p, const, raised)
                                     EXCEPT !.bubbles[n].flags = b.flags \ {"epsilon"}]
  <2>1. "epsilon" \notin b.flags
    BY <1>0, <1>2 DEF PlainBubble
  <2>2. raised = p.bubbles[const].data
    BY <1>0, <2>1 DEF Given, ConstData
  <2>3. b.flags \ {"epsilon"} = p.bubbles[n].flags
    BY <1>0, <2>1
  <2>4. WithData(p, const, raised) = p
    BY <2>2, DataWrittenBack
  <2>5. RaiseVariance(p) = [p EXCEPT !.bubbles[n].flags = p.bubbles[n].flags]
    BY <1>2, <2>3, <2>4
  <2> QED
    BY <2>5, FlagsWrittenBack
<1> QED
  BY <1>1, <1>2

\* A pool with one more plain node is plain.
LEMMA OneMorePlain ==
    ASSUME NEW p, PlainPool(p), NEW q, NEW n, NewMeans(p, q, n), NodesOf(q) = NodesOf(p) \union {Newest(q)},
           PlainBubble(q.bubbles[Newest(q)])
    PROVE  PlainlyMeans(p, q, n)
BY DEF PlainlyMeans, NewMeans, OnlyAdds, PlainPool

\* Whatever Fp16TranslatorOption makes of a node denotes what the node does.
LEMMA Fp16Means ==
    ASSUME NEW p, IsPool(p), PlainPool(p), NEW n \in NodesOf(p), NEW isOutput \in BOOLEAN, NEW q, q = Fp16(p, n, isOutput)
    PROVE  PlainlyMeans(p, q, n)
<1>1. q = Copied(p, n) \/ q = CastTo(p, "float32", n) \/ q = WithCasts(p, n)
  BY DEF Fp16
<1>2. CASE q = Copied(p, n)
  BY <1>2, CopiedMeans, OneMorePlain DEF PlainPool
<1>3. CASE q = CastTo(p, "float32", n)
  <2>1. CastBubble(p, "float32", n).flags = {}
    BY DEF CastBubble, Bubble
  <2>2. NewMeans(p, q, n) /\ NodesOf(q) = NodesOf(p) \union {Newest(q)} /\ q.bubbles[Newest(q)] = CastBubble(p, "float32", n)
    BY <1>3, CastToMeans
  <2>3. PlainBubble(q.bubbles[Newest(q)])
    BY <2>1, <2>2 DEF PlainBubble
  <2> QED
    BY <2>2, <2>3, OneMorePlain
<1>4. CASE q = WithCasts(p, n)
  BY <1>4, WithCastsMeans
<1> QED
  BY <1>1, <1>2, <1>3, <1>4

\* So does what the translator makes of it with that option.
LEMMA TranslatedMeans ==
    ASSUME NEW p, IsPool(p), PlainPool(p), Chosen("float16"), NEW n \in NodesOf(p), NEW isOutput \in BOOLEAN,
           NEW q, q = RaiseVariance(Translated(p, n, isOutput))
    PROVE  PlainlyMeans(p, q, n)
<1>1. PICK r : r = Fp16(p, n, isOutput)
  OBVIOUS
<1>2. PlainlyMeans(p, r, n)
  BY <1>1, Fp16Means
<1>3. IsPool(r) /\ PlainBubble(r.bubbles[Newest(r)])
  BY <1>2 DEF PlainlyMeans, NewMeans, PlainPool
<1>4. q = r
  BY <1>1, <1>3, NoVarianceRaised DEF Translated
<1> QED
  BY <1>2, <1>4

\* A convolution gives what winograd gives.
LEMMA WinogradApplies ==
    ASSUME NEW b, b.op \in {"conv2d", "conv2d_v2"}, "kernel_packed" \notin b.flags,
           NEW c, c.op = "conv2d_winograd", c.name = b.name, "kernel_packed" \notin c.flags, NEW v
    PROVE  Applied(c, v) = Applied(b, v)
<1>1. Kernel(b, v[Len(v)]) = v[Len(v)] /\ Kernel(c, v[Len(v)]) = v[Len(v)]
  BY DEF Kernel
<1>2. Applied(b, v) = <<"conv2d", b.name, SubSeq(v, 1, Len(v) - 1), Kernel(b, v[Len(v)])>>
  BY DEF Applied
<1>3. Applied(c, v) = <<"conv2d", c.name, SubSeq(v, 1, Len(v) - 1), Kernel(c, v[Len(v)])>>
  BY DEF Applied
<1> QED
  BY <1>1, <1>2, <1>3, Zenon

\* The value of an operator
LEMMA OperatorValue ==
    ASSUME NEW p, NEW D, NEW n, OpOf(p, n) \notin EndPoints
    PROVE  ValueOf(p, D, n) = Applied(p.bubbles[n], [i \in DOMAIN p.links[n] |-> D[p.links[n][i]]])
<1> DEFINE v == Applied(p.bubbles[n], [i \in DOMAIN p.links[n] |-> D[p.links[n][i]]])
<1>1. ~IsConst(p, n) /\ OpOf(p, n) \notin EndPoints \ {"const"}
  BY DEF IsConst, EndPoints
<1>2. ValueOf(p, D, n) = CASE IsConst(p, n) -> p.bubbles[n].data
                           [] OpOf(p, n) \in EndPoints \ {"const"} -> <<OpOf(p, n), p.bubbles[n].name>>
                           [] OTHER -> v
  BY Zenon DEF ValueOf
<1> HIDE DEF v
<1>3. ValueOf(p, D, n) = v
  BY <1>1, <1>2
<1> QED
  BY <1>3 DEF v

\* The value of a Const
LEMMA ConstValue ==
    ASSUME NEW p, NEW D, NEW n, IsConst(p, n)
    PROVE  ValueOf(p, D, n) = p.bubbles[n].data
<1> DEFINE v == Applied(p.bubbles[n], [i \in DOMAIN p.links[n] |-> D[p.links[n][i]]])
<1>1. OpOf(p, n) \notin EndPoints \ {"const"}
  BY DEF IsConst
<1>2. ValueOf(p, D, n) = CASE IsConst(p, n) -> p.bubbles[n].data
                           [] OpOf(p, n) \in EndPoints \ {"const"} -> <<OpOf(p, n), p.bubbles[n].name>>
                           [] OTHER -> v
  BY Zenon DEF ValueOf
<1> HIDE DEF v
<1> QED
  BY <1>1, <1>2

\* What the zipper makes of a plain node
LEMMA WinogradMeans ==
    ASSUME NEW p, IsPool(p), PlainPool(p), NEW n \in NodesOf(p), OpOf(p, n) \in {"conv2d", "conv2d_v2"},
           NEW q, q = Winograd(p, n)
    PROVE  PlainlyMeans(p, q, n)
<1> DEFINE b == Bubble("conv2d_winograd", p.bubbles[n].name)
           bubble == [b EXCEPT !.flags = {"NCHW"}]
<1>1. IsBubble(b) /\ b.op = "conv2d_winograd" /\ b.name = p.bubbles[n].name
  BY OperatorMade DEF Bubble
<1>2. q = Made(p, bubble, p.links[n])
  BY DEF Winograd
<1> HIDE DEF b
<1>3. IsBubble(bubble) /\ bubble.op = "conv2d_winograd" /\ bubble.name = p.bubbles[n].name /\ bubble.flags = {"NCHW"}
  BY <1>1 DEF IsBubble
<1> HIDE DEF bubble
<1>4. p.links[n] \in Seq(NodesOf(p)) /\ IsLinkedAs(bubble.op, p.links[n])
  BY <1>3, Linkable, NodeOfPool
<1>5. PICK m : m = Newest(q)
  OBVIOUS
<1>6. /\ OnlyAdds(p, q) /\ IsPool(q)
      /\ NodesOf(q) = NodesOf(p) \union {m}
      /\ m \in NodesOf(q) \ NodesOf(p)
      /\ q.bubbles[m] = bubble
      /\ q.links[m] = p.links[n]
  BY <1>2, <1>3, <1>4, <1>5, MadeAdds
<1>7. n \in NodesOf(q) /\ q.bubbles[n] = p.bubbles[n] /\ q.links[n] = p.links[n]
  BY <1>6 DEF OnlyAdds
<1>8. PICK D, v : D = Denoted(q) /\ v = [i \in DOMAIN p.links[n] |-> D[p.links[n][i]]]
  OBVIOUS
<1>9. D[m] = ValueOf(q, D, m) /\ D[n] = ValueOf(q, D, n)
  BY <1>6, <1>7, <1>8, DenotedValues
<1>10. OpOf(q, m) \notin EndPoints /\ OpOf(q, n) \notin EndPoints
  BY <1>3, <1>6, <1>7 DEF OpOf, EndPoints
<1>11. D[m] = Applied(bubble, v)
  BY <1>6, <1>8, <1>9, <1>10, OperatorValue
<1>12. D[n] = Applied(p.bubbles[n], v)
  BY <1>7, <1>8, <1>9, <1>10, OperatorValue
<1>13. Applied(bubble, v) = Applied(p.bubbles[n], v)
  <2>1. PICK a : a = p.bubbles[n]
    OBVIOUS
  <2>2. a.op \in {"conv2d", "conv2d_v2"} /\ "kernel_packed" \notin a.flags
    BY <2>1 DEF OpOf, PlainPool, PlainBubble
  <2>3. bubble.op = "conv2d_winograd" /\ bubble.name = a.name /\ "kernel_packed" \notin bubble.flags
    BY <1>3, <2>1
  <2> QED
    BY <2>1, <2>2, <2>3, WinogradApplies
<1>14. Denoted(q)[n] = Denoted(p)[n]
  BY <1>6, AddingKeepsMeaning
<1>15. NewMeans(p, q, n)
  BY <1>5, <1>6, <1>8, <1>11, <1>12, <1>13, <1>14 DEF NewMeans
<1>16. PlainBubble(q.bubbles[Newest(q)])
  BY <1>3, <1>5, <1>6 DEF PlainBubble
<1> QED
  BY <1>5, <1>6, <1>15, <1>16, OneMorePlain

\* What the zipper leaves or makes denotes what the node does.
LEMMA ZippedMeans ==
    ASSUME NEW p, IsPool(p), PlainPool(p), NEW n \in NodesOf(p), NEW q, q = Zipped(p, n)
    PROVE  q = p \/ PlainlyMeans(p, q, n)
<1>1. CASE Fits(p, n)
  <2>1. OpOf(p, n) \in {"conv2d", "conv2d_v2"} /\ q = Winograd(p, n)
    BY <1>1 DEF Fits, Zipped
  <2> QED
    BY <2>1, WinogradMeans
<1>2. CASE ~Fits(p, n)
  BY <1>2 DEF Zipped
<1> QED
  BY <1>1, <1>2

\* A Const that is computed from Consts that denote what the inputs of n do
LEMMA ComputedMeans ==
    ASSUME NEW p, IsPool(p), PlainPool(p), NEW n \in NodesOf(p), OpOf(p, n) \notin EndPoints,
           NEW consts \in Seq(NodesOf(p)), Len(consts) = Len(p.links[n]),
           \A i \in 1 .. Len(p.links[n]) : IsConst(p, consts[i]) /\ Denoted(p)[consts[i]] = Denoted(p)[p.links[n][i]],
           NEW name, NEW dtype,
           NEW data, data = Applied(p.bubbles[n], [i \in DOMAIN consts |-> ConstData(p, consts[i])]),
           NEW q, q = Made(p, DataBubble(name, data, dtype), <<>>)
    PROVE  PlainlyMeans(p, q, n)
<1>1. PICK D, v, w : /\ D = Denoted(p) /\ v = [i \in DOMAIN consts |-> ConstData(p, consts[i])]
                     /\ w = [i \in DOMAIN p.links[n] |-> D[p.links[n][i]]]
  OBVIOUS
<1>2. DOMAIN consts = 1 .. Len(p.links[n]) /\ DOMAIN p.links[n] = 1 .. Len(p.links[n])
  BY LinksOfNode
<1>3. \A i \in 1 .. Len(p.links[n]) : consts[i] \in NodesOf(p)
  BY <1>2
<1>4. ASSUME NEW i \in 1 .. Len(p.links[n])  PROVE ConstData(p, consts[i]) = D[p.links[n][i]]
  <2>1. PICK m : m = consts[i]
    OBVIOUS
  <2>2. m \in NodesOf(p) /\ IsConst(p, m) /\ D[m] = D[p.links[n][i]]
    BY <1>1, <1>3, <2>1
  <2>3. D[m] = p.bubbles[m].data
    BY <1>1, <2>2, DenotedValues, ConstValue
  <2> QED
    BY <2>1, <2>2, <2>3 DEF ConstData
<1>5. v = w
  BY <1>1, <1>2, <1>4
<1>6. D[n] = Applied(p.bubbles[n], w)
  BY <1>1, DenotedValues, OperatorValue
<1>7. data = D[n]
  BY <1>1, <1>5, <1>6
<1> DEFINE bubble == DataBubble(name, data, dtype)
<1>8. IsBubble(bubble) /\ bubble.op = "const" /\ bubble.data = data /\ bubble.flags = {}
  BY DataMade DEF DataBubble, Bubble
<1> HIDE DEF bubble
<1>9. PICK none : none = <<>>
  OBVIOUS
<1>10. none \in Seq(NodesOf(p)) /\ IsLinkedAs(bubble.op, none) /\ q = Made(p, bubble, none)
  BY <1>8, <1>9, EmptySeq, Linkable DEF bubble
<1>11. PICK m : m = Newest(q)
  OBVIOUS
<1>12. /\ OnlyAdds(p, q) /\ IsPool(q)
       /\ NodesOf(q) = NodesOf(p) \union {m}
       /\ m \in NodesOf(q) \ NodesOf(p)
       /\ q.bubbles[m] = bubble
  BY <1>8, <1>10, <1>11, MadeAdds
<1>13. Denoted(q)[m] = data
  <2>1. IsConst(q, m)
    BY <1>8, <1>12 DEF IsConst, OpOf
  <2>2. Denoted(q)[m] = ValueOf(q, Denoted(q), m)
    BY <1>12, DenotedValues
  <2> QED
    BY <1>8, <1>12, <2>1, <2>2, ConstValue
<1>14. NewMeans(p, q, n)
  BY <1>1, <1>7, <1>11, <1>12, <1>13 DEF NewMeans
<1>15. PlainBubble(q.bubbles[Newest(q)])
  BY <1>8, <1>11, <1>12 DEF PlainBubble
<1> QED
  BY <1>11, <1>12, <1>14, <1>15, OneMorePlain

-----------------------------------------------------------------------------
(***************************************************************************)
(* The passes keep what the outputs denote                                 *)
(***************************************************************************)
\* Nothing is packed, and no variance raised.
PlainModule == /\ Chosen("pack") => Chosen("float16")
               /\ \A n \in Originals : PlainBubble(module.bubbles[n])

\* A memo gives nodes that denote what the nodes do that they are filed under.
MemoMeans(p, memo) ==
    \A n \in DOMAIN memo : n \in NodesOf(p) /\ memo[n] \in NodesOf(p) /\ Denoted(p)[memo[n]] = Denoted(p)[n]

\* The new node denotes what the node does that the call is on, and the inputs that
\* it was given what its own do.
CallMeans(p, c) ==
    /\ c.node \in NodesOf(p) /\ c.new \in NodesOf(p)
    /\ Denoted(p)[c.new] = Denoted(p)[c.node]
    /\ \A j \in 1 .. Len(c.inputs) :
          /\ j <= Len(p.links[c.new])
          /\ c.inputs[j] \in NodesOf(p)
          /\ Denoted(p)[c.inputs[j]] = Denoted(p)[p.links[c.new][j]]

CallsMean(p, cs) == \A k \in 1 .. Len(cs) : CallMeans(p, cs[k])

\* The nodes rs denote what the first of the nodes outs do.
ListMeans(p, rs, outs) ==
    /\ Len(rs) <= Len(outs)
    /\ \A k \in 1 .. Len(rs) : rs[k] \in NodesOf(p) /\ outs[k] \in NodesOf(p) /\ Denoted(p)[rs[k]] = Denoted(p)[outs[k]]

\* The outermost call is on the next of the outputs.
StartsAt(cs, rs, outs) == cs # <<>> => Len(rs) < Len(outs) /\ cs[1].node = outs[Len(rs) + 1]

\* What is true in the passes of a plain module
Means ==
    /\ PlainPool(pool)
    /\ \A n \in Originals : pool.bubbles[n] = module.bubbles[n]
    /\ phase = "translating" => Chosen("float16")
    /\ Len(outputs) = Len(module.outputs) /\ ListMeans(pool, outputs, module.outputs)
    /\ ListMeans(pool, results, outputs)
    /\ StartsAt(calls, results, outputs)
    /\ MemoMeans(pool, ready) /\ MemoMeans(pool, readyConst)
    /\ CallsMean(pool, calls)

\* A step that keeps meanings keeps all of this.
LEMMA MeaningsMove ==
    ASSUME NEW p, IsPool(p), NEW q, Rewrites(p, q)
    PROVE  /\ \A memo : MemoMeans(p, memo) => MemoMeans(q, memo)
           /\ \A cs : CallsMean(p, cs) => CallsMean(q, cs)
           /\ \A rs, outs : ListMeans(p, rs, outs) => ListMeans(q, rs, outs)
<1>1. PICK D, E : D = Denoted(p) /\ E = Denoted(q)
  OBVIOUS
<1>2. /\ NodesOf(p) \subseteq NodesOf(q)
      /\ \A n \in NodesOf(p) : /\ E[n] = D[n]
                               /\ Len(q.links[n]) = Len(p.links[n])
                               /\ \A i \in 1 .. Len(p.links[n]) : E[q.links[n][i]] = D[p.links[n][i]]
  <2>1. SameMeanings(p, q)
    BY RewritingKeepsMeaning
  <2> QED
    BY <1>1, <2>1 DEF SameMeanings, Rewrites
<1>3. ASSUME NEW memo, MemoMeans(p, memo)  PROVE MemoMeans(q, memo)
  BY <1>1, <1>2, <1>3 DEF MemoMeans
<1>4. ASSUME NEW c, CallMeans(p, c)  PROVE CallMeans(q, c)
  <2>1. c.node \in NodesOf(p) /\ c.new \in NodesOf(p) /\ D[c.new] = D[c.node]
    BY <1>1, <1>4 DEF CallMeans
  <2>2. ASSUME NEW j \in 1 .. Len(c.inputs)
        PROVE  /\ j <= Len(q.links[c.new]) /\ c.inputs[j] \in NodesOf(q)
               /\ E[c.inputs[j]] = E[q.links[c.new][j]]
    <3>1. j <= Len(p.links[c.new]) /\ c.inputs[j] \in NodesOf(p) /\ D[c.inputs[j]] = D[p.links[c.new][j]]
      BY <1>1, <1>4 DEF CallMeans
    <3>2. Len(p.links[c.new]) \in Nat
      BY <2>1, LinksOfNode
    <3>3. j \in 1 .. Len(p.links[c.new])
      BY <3>1, <3>2
    <3> QED
      BY <1>2, <2>1, <3>1, <3>3
  <2> QED
    BY <1>1, <1>2, <2>1, <2>2 DEF CallMeans
<1>5. ASSUME NEW rs, NEW outs, ListMeans(p, rs, outs)  PROVE ListMeans(q, rs, outs)
  BY <1>1, <1>2, <1>5 DEF ListMeans
<1> QED
  BY <1>3, <1>4, <1>5 DEF CallsMean

\* n is what the innermost of cs, or the loop over the outputs, waits for.
Awaited(q, cs, n) ==
    IF cs = <<>>
    THEN /\ Len(results) < Len(outputs) /\ outputs[Len(results) + 1] \in NodesOf(q)
         /\ Denoted(q)[outputs[Len(results) + 1]] = Denoted(q)[n]
    ELSE LET c == cs[Len(cs)]
         IN  /\ Len(c.inputs) < Len(q.links[c.new])
             /\ Denoted(q)[q.links[c.new][Len(c.inputs) + 1]] = Denoted(q)[n]

\* A node is returned that denotes what was waited for.
LEMMA ReturnMeans ==
    ASSUME NEW q, NEW cs, NEW p, NEW F, CallsOK(p, cs, F), results \in Seq(F), NEW n, Awaited(q, cs, n),
           CallsMean(q, cs), ListMeans(q, results, outputs), StartsAt(cs, results, outputs), outputs \in Seq(NodesOf(p)),
           NEW result \in NodesOf(q), Denoted(q)[result] = Denoted(q)[n], NEW isConst,
           ReturnTo(cs, n, result, isConst)
    PROVE  CallsMean(q, calls') /\ ListMeans(q, results', outputs) /\ StartsAt(calls', results', outputs)
<1>1. CASE cs = <<>>
  <2>1. calls' = <<>> /\ results' = Append(results, result)
    BY <1>1 DEF ReturnTo
  <2>2. Len(calls') = 0
    BY <2>1, EmptySeq
  <2>3. /\ Len(results) \in Nat /\ Len(outputs) \in Nat /\ Len(results') = Len(results) + 1
        /\ results'[Len(results) + 1] = result
        /\ \A k \in 1 .. Len(results) : results'[k] = results[k]
    BY <2>1, LenProperties, AppendProperties
  <2>4. /\ Len(results) < Len(outputs) /\ outputs[Len(results) + 1] \in NodesOf(q)
        /\ Denoted(q)[outputs[Len(results) + 1]] = Denoted(q)[n]
    BY <1>1 DEF Awaited
  <2>5. ListMeans(q, results', outputs)
    <3>1. \A k \in 1 .. Len(results') : k \in 1 .. Len(results) \/ k = Len(results) + 1
      BY <2>3
    <3>2. Len(results') <= Len(outputs)
      BY <2>3, <2>4
    <3> QED
      BY <2>3, <2>4, <3>1, <3>2 DEF ListMeans
  <2> QED
    BY <2>1, <2>2, <2>5 DEF CallsMean, StartsAt
<1>2. CASE cs # <<>>
  <2>1. PICK len, c, d : len = Len(cs) /\ c = cs[len] /\ d = Receive(c, n, result, isConst)
    OBVIOUS
  <2>2. calls' = [cs EXCEPT ![len] = d] /\ results' = results
    BY <1>2, <2>1 DEF ReturnTo
  <2>3. cs \in Seq(CallsOver(NodesOf(p), F)) /\ len \in Nat \ {0}
    BY <1>2, <2>1, EmptySeq DEF CallsOK
  <2>4. c \in CallsOver(NodesOf(p), F)
    BY <2>1, <2>3
  <2>5. /\ d.node = c.node /\ d.new = c.new /\ d.inputs = Append(c.inputs, result)
    BY <2>1, <2>4 DEF Receive, CallsOver
  <2>6. /\ Len(calls') = len
        /\ \A k \in 1 .. len : calls'[k] = IF k = len THEN d ELSE cs[k]
    <3>1. DOMAIN cs = 1 .. len /\ DOMAIN calls' = 1 .. len
      BY <2>1, <2>2, <2>3
    <3>2. calls' = [k \in 1 .. len |-> calls'[k]]
      BY <2>2, <3>1
    <3>3. Len(calls') = len
      BY <2>3, <3>2
    <3> QED
      BY <2>2, <3>1, <3>3
  <2>7. Len(c.inputs) < Len(q.links[c.new]) /\ Denoted(q)[q.links[c.new][Len(c.inputs) + 1]] = Denoted(q)[n]
    BY <1>2, <2>1 DEF Awaited
  <2>8. CallMeans(q, c)
    <3>1. len \in 1 .. Len(cs)
      BY <2>1, <2>3
    <3> QED
      BY <2>1, <3>1 DEF CallsMean
  <2>9. CallMeans(q, d)
    <3>1. c.inputs \in Seq(F) /\ Len(c.inputs) \in Nat
      BY <2>4 DEF CallsOver
    <3>2. /\ Len(d.inputs) = Len(c.inputs) + 1 /\ d.inputs[Len(c.inputs) + 1] = result
          /\ \A j \in 1 .. Len(c.inputs) : d.inputs[j] = c.inputs[j]
      <4>1. PICK s : s = Append(c.inputs, result)
        OBVIOUS
      <4>2. Len(s) = Len(c.inputs) + 1 /\ s[Len(c.inputs) + 1] = result /\ \A j \in 1 .. Len(c.inputs) : s[j] = c.inputs[j]
        BY <3>1, <4>1
      <4> QED
        BY <2>5, <4>1, <4>2
    <3>3. ASSUME NEW j \in 1 .. Len(d.inputs)
          PROVE  /\ j <= Len(q.links[d.new]) /\ d.inputs[j] \in NodesOf(q)
                 /\ Denoted(q)[d.inputs[j]] = Denoted(q)[q.links[d.new][j]]
      <4>1. CASE j \in 1 .. Len(c.inputs)
        BY <2>5, <2>8, <3>2, <4>1 DEF CallMeans
      <4>2. CASE j = Len(c.inputs) + 1
        <5>1. j <= Len(q.links[d.new])
          <6>1. PICK m : m = Len(q.links[c.new])
            OBVIOUS
          <6> QED
            BY <2>5, <2>7, <3>1, <4>2
        <5> QED
          BY <2>5, <2>7, <3>2, <4>2, <5>1
      <4> QED
        BY <3>1, <3>2, <4>1, <4>2
    <3> QED
      BY <2>5, <2>8, <3>3 DEF CallMeans
  <2>10. CallsMean(q, calls')
    BY <2>1, <2>6, <2>9 DEF CallsMean
  <2>11. StartsAt(calls', results', outputs)
    <3>1. 1 \in 1 .. len
      BY <2>3
    <3>2. calls'[1].node = cs[1].node
      BY <2>1, <2>5, <2>6, <3>1
    <3> QED
      BY <1>2, <2>2, <3>2 DEF StartsAt
  <2> QED
    BY <2>2, <2>10, <2>11
<1> QED
  BY <1>1, <1>2

\* What is waited for when a node is looked at
LEMMA LookedAtAwaited ==
    ASSUME InPass, Passing(NodesOf(pool)), Means, Looking, NEW n, n = LookedAt
    PROVE  n \in NodesOf(pool) /\ Awaited(pool, calls, n)
<1>1. /\ IsPool(pool) /\ CallsOK(pool, calls, NodesOf(pool)) /\ results \in Seq(NodesOf(pool))
      /\ outputs \in Seq(NodesOf(pool))
  BY DEF InPass, Passing
<1>2. n \in NodesOf(pool) /\ (calls # <<>> => WaitsFor(pool, calls[Len(calls)], n))
  BY <1>1, LookedAtIsNode
<1>3. CASE calls = <<>>
  BY <1>2, <1>3 DEF Awaited, Looking, LookedAt
<1>4. CASE calls # <<>>
  BY <1>2, <1>4 DEF Awaited, WaitsFor
<1> QED
  BY <1>2, <1>3, <1>4

\* What the callers of the innermost call wait for
LEMMA CallerAwaited ==
    ASSUME InPass, Passing(NodesOf(pool)), Means, calls # <<>>, NEW c, c = Caller
    PROVE  /\ c \in CallsOver(NodesOf(pool), NodesOf(pool)) /\ CallMeans(pool, c)
           /\ CallsOK(pool, Callers, NodesOf(pool)) /\ CallsMean(pool, Callers)
           /\ StartsAt(Callers, results, outputs) /\ Awaited(pool, Callers, c.node)
<1>1. /\ IsPool(pool) /\ CallsOK(pool, calls, NodesOf(pool)) /\ results \in Seq(NodesOf(pool))
      /\ outputs \in Seq(NodesOf(pool)) /\ CallsMean(pool, calls) /\ StartsAt(calls, results, outputs)
  BY DEF InPass, Passing, Means
<1>2. /\ CallsOK(pool, Callers, NodesOf(pool))
      /\ Len(calls) \in Nat \ {0} /\ Len(Callers) = Len(calls) - 1
      /\ \A k \in 1 .. Len(Callers) : Callers[k] = calls[k]
      /\ Callers # <<>> => WaitsFor(pool, Callers[Len(Callers)], c.node)
      /\ c \in CallsOver(NodesOf(pool), NodesOf(pool))
  BY <1>1, CallersWait
<1>3. CallMeans(pool, c)
  <2>1. Len(calls) \in 1 .. Len(calls)
    BY <1>2
  <2> QED
    BY <1>1, <2>1 DEF CallsMean, Caller
<1>4. CallsMean(pool, Callers)
  BY <1>1, <1>2 DEF CallsMean
<1>5. Callers # <<>> => 1 \in 1 .. Len(Callers)
  BY <1>2, EmptySeq DEF CallsOK
<1>6. StartsAt(Callers, results, outputs)
  BY <1>1, <1>2, <1>5 DEF StartsAt
<1>7. Awaited(pool, Callers, c.node)
  <2>1. CASE Callers = <<>>
    <3>1. Len(calls) = 1
      BY <1>2, <2>1, EmptySeq
    <3>2. c = calls[1]
      BY <3>1 DEF Caller
    <3>3. Len(results) < Len(outputs) /\ c.node = outputs[Len(results) + 1]
      BY <1>1, <3>2 DEF StartsAt
    <3> QED
      BY <1>2, <2>1, <3>3 DEF Awaited, CallsOver
  <2>2. CASE Callers # <<>>
    BY <1>2, <2>2 DEF Awaited, WaitsFor
  <2> QED
    BY <2>1, <2>2
<1> QED
  BY <1>2, <1>3, <1>4, <1>6, <1>7

\* It is still waited for when the pool has changed.
LEMMA AwaitedMoves ==
    ASSUME IsPool(pool), NEW q, Rewrites(pool, q), NEW cs, NEW F, CallsOK(pool, cs, F), CallsMean(pool, cs),
           NEW n \in NodesOf(pool), Awaited(pool, cs, n)
    PROVE  Awaited(q, cs, n)
<1>1. PICK D, E : D = Denoted(pool) /\ E = Denoted(q)
  OBVIOUS
<1>2. /\ NodesOf(pool) \subseteq NodesOf(q)
      /\ \A m \in NodesOf(pool) : /\ E[m] = D[m]
                                  /\ Len(q.links[m]) = Len(pool.links[m])
                                  /\ \A i \in 1 .. Len(pool.links[m]) : E[q.links[m][i]] = D[pool.links[m][i]]
  <2>1. SameMeanings(pool, q)
    BY RewritingKeepsMeaning
  <2> QED
    BY <1>1, <2>1 DEF SameMeanings, Rewrites
<1>3. CASE cs = <<>>
  BY <1>1, <1>2, <1>3 DEF Awaited
<1>4. CASE cs # <<>>
  <2>1. PICK c : c = cs[Len(cs)]
    OBVIOUS
  <2>2. Len(cs) \in 1 .. Len(cs) /\ c \in CallsOver(NodesOf(pool), F)
    BY <1>4, <2>1, EmptySeq DEF CallsOK
  <2>3. c.new \in NodesOf(pool) /\ Len(c.inputs) \in Nat
    BY <2>2 DEF CallsOver
  <2>4. Len(c.inputs) < Len(pool.links[c.new]) /\ D[pool.links[c.new][Len(c.inputs) + 1]] = D[n]
    BY <1>1, <1>4, <2>1 DEF Awaited
  <2>5. Len(c.inputs) + 1 \in 1 .. Len(pool.links[c.new])
    <3>1. Len(pool.links[c.new]) \in Nat
      BY <2>3, LinksOfNode
    <3> QED
      BY <2>3, <2>4, <3>1
  <2>6. Len(c.inputs) < Len(q.links[c.new]) /\ E[q.links[c.new][Len(c.inputs) + 1]] = E[n]
    BY <1>2, <2>3, <2>4, <2>5
  <2> QED
    BY <1>1, <1>4, <2>1, <2>6 DEF Awaited
<1> QED
  BY <1>3, <1>4

\* The results are filed under nodes that denote the same.
FiledRight(memo, longer, result) ==
    \/ longer = memo
    \/ \E k \in NodesOf(pool') : Denoted(pool')[result] = Denoted(pool')[k] /\ longer = WithEntry(memo, k, result)

\* Such a memo means what it says.
LEMMA FiledMeans ==
    ASSUME NEW memo, MemoMeans(pool', memo), NEW result \in NodesOf(pool'), NEW longer, FiledRight(memo, longer, result)
    PROVE  MemoMeans(pool', longer)
BY DEF FiledRight, MemoMeans, WithEntry

\* The pool changes, and no meaning
Moves ==
    /\ UNCHANGED <<module, outputs, phase>>
    /\ Rewrites(pool, pool')
    /\ PlainPool(pool')

\* What such a step keeps
LEMMA MovingKeeps ==
    ASSUME InPass, Means, Moves
    PROVE  /\ PlainPool(pool)'
           /\ \A n \in Originals : pool'.bubbles[n] = module'.bubbles[n]
           /\ phase' = "translating" => Chosen("float16")'
           /\ Len(outputs') = Len(module'.outputs) /\ ListMeans(pool', outputs', module'.outputs)
           /\ ListMeans(pool', results, outputs') /\ StartsAt(calls, results, outputs')
           /\ MemoMeans(pool', ready) /\ MemoMeans(pool', readyConst) /\ CallsMean(pool', calls)
<1>1. IsPool(pool) /\ Rewrites(pool, pool') /\ UNCHANGED <<module, outputs, phase>> /\ PlainPool(pool')
  BY DEF InPass, Moves
<1>2. /\ \A memo : MemoMeans(pool, memo) => MemoMeans(pool', memo)
      /\ \A cs : CallsMean(pool, cs) => CallsMean(pool', cs)
      /\ \A rs, outs : ListMeans(pool, rs, outs) => ListMeans(pool', rs, outs)
  BY <1>1, MeaningsMove
<1>3. /\ \A n \in Originals : pool.bubbles[n] = module.bubbles[n]
      /\ phase = "translating" => Chosen("float16")
      /\ Len(outputs) = Len(module.outputs) /\ ListMeans(pool, outputs, module.outputs)
      /\ ListMeans(pool, results, outputs) /\ StartsAt(calls, results, outputs)
      /\ MemoMeans(pool, ready) /\ MemoMeans(pool, readyConst) /\ CallsMean(pool, calls)
  BY DEF Means
<1>4. \A n \in Originals : pool'.bubbles[n] = module'.bubbles[n]
  BY <1>1, <1>3, OriginalsInPool DEF Rewrites
<1>5. phase' = "translating" => Chosen("float16")'
  BY <1>1, <1>3 DEF Chosen
<1>6. Len(outputs') = Len(module'.outputs) /\ ListMeans(pool', outputs', module'.outputs)
  BY <1>1, <1>2, <1>3
<1>7. ListMeans(pool', results, outputs') /\ StartsAt(calls, results, outputs')
  BY <1>1, <1>2, <1>3
<1>8. PlainPool(pool)'
  BY <1>1 DEF PlainPool, PlainBubble, Chosen
<1> QED
  BY <1>1, <1>2, <1>3, <1>4, <1>5, <1>6, <1>7, <1>8

\* A step that returns what denotes the same
LEMMA MeansReturns ==
    ASSUME InPass, Passing(NodesOf(pool)), Means, Moves,
           NEW cs, CallsOK(pool, cs, NodesOf(pool)), CallsMean(pool, cs), StartsAt(cs, results, outputs),
           NEW n \in NodesOf(pool), Awaited(pool, cs, n),
           NEW result \in NodesOf(pool'), Denoted(pool')[result] = Denoted(pool')[n], NEW isConst,
           ReturnTo(cs, n, result, isConst),
           FiledRight(ready, ready', result), FiledRight(readyConst, readyConst', result)
    PROVE  Means'
<1>1. /\ PlainPool(pool)'
      /\ \A m \in Originals : pool'.bubbles[m] = module'.bubbles[m]
      /\ phase' = "translating" => Chosen("float16")'
      /\ Len(outputs') = Len(module'.outputs) /\ ListMeans(pool', outputs', module'.outputs)
      /\ ListMeans(pool', results, outputs') /\ MemoMeans(pool', ready) /\ MemoMeans(pool', readyConst)
  BY MovingKeeps
<1>2. IsPool(pool) /\ Rewrites(pool, pool') /\ outputs' = outputs
  BY DEF InPass, Moves
<1>3. CallsMean(pool', cs)
  BY <1>2, MeaningsMove
<1>4. Awaited(pool', cs, n)
  BY ONLY <1>2, n \in NodesOf(pool), CallsOK(pool, cs, NodesOf(pool)), CallsMean(pool, cs), Awaited(pool, cs, n),
          AwaitedMoves
<1>5. results \in Seq(NodesOf(pool)) /\ outputs \in Seq(NodesOf(pool)) /\ ListMeans(pool', results, outputs)
  BY <1>1, <1>2 DEF InPass, Passing
<1>6. result \in NodesOf(pool') /\ Denoted(pool')[result] = Denoted(pool')[n] /\ ReturnTo(cs, n, result, isConst)
      /\ CallsOK(pool, cs, NodesOf(pool)) /\ StartsAt(cs, results, outputs)
  OBVIOUS
<1>7. CallsMean(pool', calls') /\ ListMeans(pool', results', outputs) /\ StartsAt(calls', results', outputs)
  BY ONLY <1>3, <1>4, <1>5, <1>6, ReturnMeans
<1>8. MemoMeans(pool', ready') /\ MemoMeans(pool', readyConst')
  BY <1>1, FiledMeans
<1>9. ListMeans(pool', results', outputs') /\ StartsAt(calls', results', outputs')
  BY <1>2, <1>7
<1> QED
  BY ONLY <1>1, <1>7, <1>8, <1>9, Zenon DEF Means

\* A step that calls
LEMMA MeansCalls ==
    ASSUME InPass, Passing(NodesOf(pool)), Means, Moves, UNCHANGED <<results, ready, readyConst>>, Looking,
           NEW new \in NodesOf(pool'), Denoted(pool')[new] = Denoted(pool')[LookedAt],
           calls' = Append(calls, CallOn(LookedAt, new))
    PROVE  Means'
<1>1. /\ PlainPool(pool)'
      /\ \A n \in Originals : pool'.bubbles[n] = module'.bubbles[n]
      /\ phase' = "translating" => Chosen("float16")'
      /\ Len(outputs') = Len(module'.outputs) /\ ListMeans(pool', outputs', module'.outputs)
      /\ ListMeans(pool', results, outputs') /\ StartsAt(calls, results, outputs')
      /\ MemoMeans(pool', ready) /\ MemoMeans(pool', readyConst) /\ CallsMean(pool', calls)
  BY MovingKeeps
<1>2. PICK n : n = LookedAt
  OBVIOUS
<1>3. n \in NodesOf(pool) /\ Awaited(pool, calls, n) /\ NodesOf(pool) \subseteq NodesOf(pool') /\ outputs' = outputs
  BY <1>2, LookedAtAwaited DEF Moves, Rewrites
<1>4. /\ Len(calls) \in Nat /\ Len(calls') = Len(calls) + 1
      /\ calls'[Len(calls) + 1] = CallOn(n, new)
      /\ \A k \in 1 .. Len(calls) : calls'[k] = calls[k]
  <2>1. /\ calls \in Seq(CallsOver(NodesOf(pool), NodesOf(pool)))
        /\ CallOn(n, new) \in CallsOver(NodesOf(pool'), NodesOf(pool'))
    BY <1>3, EmptySeq DEF Passing, CallsOK, CallOn, CallsOver
  <2> QED
    BY <1>2, <2>1, LenProperties, AppendProperties
<1>5. CallMeans(pool', CallOn(n, new))
  <2>1. Len(<<>>) = 0
    BY EmptySeq
  <2> QED
    BY <1>2, <1>3, <2>1 DEF CallMeans, CallOn
<1>6. CallsMean(pool', calls')
  <2> SUFFICES ASSUME NEW k \in 1 .. Len(calls')  PROVE CallMeans(pool', calls'[k])
    BY DEF CallsMean
  <2>1. k \in 1 .. Len(calls) \/ k = Len(calls) + 1
    BY <1>4
  <2> QED
    BY <1>1, <1>4, <1>5, <2>1 DEF CallsMean
<1>7. StartsAt(calls', results', outputs')
  <2>1. CASE calls = <<>>
    <3>1. calls'[1] = CallOn(n, new) /\ CallOn(n, new).node = n
      <4>1. Len(calls) = 0
        BY <2>1, EmptySeq
      <4> QED
        BY <1>4, <4>1 DEF CallOn
    <3>2. Len(results) < Len(outputs) /\ n = outputs[Len(results) + 1]
      BY <1>2, <2>1 DEF Looking, LookedAt
    <3> QED
      BY <1>3, <3>1, <3>2 DEF StartsAt
  <2>2. CASE calls # <<>>
    <3>1. 1 \in 1 .. Len(calls)
      BY <1>4, <2>2, EmptySeq DEF Passing, CallsOK
    <3>2. calls'[1] = calls[1]
      BY <1>4, <3>1
    <3> QED
      BY <1>1, <2>2, <3>2 DEF StartsAt
  <2> QED
    BY <2>1, <2>2
<1>8. ListMeans(pool', results', outputs') /\ MemoMeans(pool', ready') /\ MemoMeans(pool', readyConst')
  BY <1>1
<1> QED
  BY ONLY <1>1, <1>6, <1>7, <1>8, Zenon DEF Means

\* Nothing is made.
LEMMA StayingMoves ==
    ASSUME InPass, Means, UNCHANGED <<module, outputs, phase, pool>>
    PROVE  Moves
<1>1. PICK q : q = pool'
  OBVIOUS
<1>2. IsPool(pool) /\ q = pool /\ PlainPool(pool)
  BY <1>1 DEF InPass, Means
<1>3. Rewrites(pool, q) /\ PlainPool(q)
  BY <1>2, RewritesItself
<1> QED
  BY <1>1, <1>3 DEF Moves

\* A plain node is made.
LEMMA MakingMoves ==
    ASSUME InPass, UNCHANGED <<module, outputs, phase>>, NEW n \in NodesOf(pool), NEW q, q = pool', PlainlyMeans(pool, q, n)
    PROVE  Moves /\ Newest(q) \in NodesOf(q) /\ Denoted(q)[Newest(q)] = Denoted(q)[n]
<1>1. IsPool(pool) /\ OnlyAdds(pool, q) /\ PlainPool(q)
      /\ Newest(q) \in NodesOf(q) /\ Denoted(q)[Newest(q)] = Denoted(pool)[n]
  BY DEF InPass, PlainlyMeans, NewMeans
<1>2. Rewrites(pool, q) /\ Denoted(q)[n] = Denoted(pool)[n]
  BY <1>1, AddingRewrites, AddingKeepsMeaning
<1> QED
  BY <1>1, <1>2 DEF Moves

\* What was found before is returned.
LEMMA KnownMeans ==
    ASSUME InPass, Passing(NodesOf(pool)), Means, UNCHANGED <<module, outputs, phase, pool, ready, readyConst>>,
           Looking, NEW memo, MemoMeans(pool, memo), LookedAt \in DOMAIN memo, NEW isConst,
           ReturnTo(calls, LookedAt, memo[LookedAt], isConst)
    PROVE  Means'
<1>1. PICK n, result : n = LookedAt /\ result = memo[n]
  OBVIOUS
<1>2. n \in NodesOf(pool) /\ Awaited(pool, calls, n)
  BY <1>1, LookedAtAwaited
<1>3. result \in NodesOf(pool') /\ Denoted(pool')[result] = Denoted(pool')[n]
  BY <1>1 DEF MemoMeans
<1>4. CallsOK(pool, calls, NodesOf(pool)) /\ CallsMean(pool, calls) /\ StartsAt(calls, results, outputs)
  BY DEF Passing, Means
<1>5. Moves
  BY StayingMoves
<1>6. ReturnTo(calls, n, result, isConst) /\ FiledRight(ready, ready', result) /\ FiledRight(readyConst, readyConst', result)
  BY <1>1 DEF FiledRight
<1> QED
  BY ONLY InPass, Passing(NodesOf(pool)), Means, <1>2, <1>3, <1>4, <1>5, <1>6, MeansReturns

\* The node itself is returned.
LEMMA LeafMeans ==
    ASSUME InPass, Passing(NodesOf(pool)), Means, UNCHANGED <<module, outputs, phase, pool>>, Looking, NEW n, n = LookedAt,
           ready' = ready \/ ready' = WithEntry(ready, n, n),
           readyConst' = readyConst \/ readyConst' = WithEntry(readyConst, n, n), NEW isConst,
           ReturnTo(calls, n, n, isConst)
    PROVE  Means'
<1>2. n \in NodesOf(pool) /\ Awaited(pool, calls, n)
  BY LookedAtAwaited
<1>3. n \in NodesOf(pool') /\ Denoted(pool')[n] = Denoted(pool')[n]
  BY <1>2
<1>4. CallsOK(pool, calls, NodesOf(pool)) /\ CallsMean(pool, calls) /\ StartsAt(calls, results, outputs)
  BY DEF Passing, Means
<1>5. Moves
  BY StayingMoves
<1>6. FiledRight(ready, ready', n) /\ FiledRight(readyConst, readyConst', n) /\ ReturnTo(calls, n, n, isConst)
  BY <1>3 DEF FiledRight
<1> QED
  BY ONLY InPass, Passing(NodesOf(pool)), Means, <1>2, <1>3, <1>4, <1>5, <1>6, MeansReturns

\* The innermost call returns what denotes the same as its node.
LEMMA CallReturns ==
    ASSUME InPass, Passing(NodesOf(pool)), Means, calls # <<>>, Moves, NEW c, c = Caller,
           NEW result \in NodesOf(pool'), Denoted(pool')[result] = Denoted(pool')[c.node], NEW isConst,
           ReturnTo(Callers, c.node, result, isConst),
           FiledRight(ready, ready', result), FiledRight(readyConst, readyConst', result)
    PROVE  Means'
<1>1. PICK n : n = c.node
  OBVIOUS
<1>2. /\ n \in NodesOf(pool)
      /\ CallsOK(pool, Callers, NodesOf(pool)) /\ CallsMean(pool, Callers)
      /\ StartsAt(Callers, results, outputs) /\ Awaited(pool, Callers, n)
  BY <1>1, CallerAwaited DEF CallMeans
<1>3. PICK cs : cs = Callers
  OBVIOUS
<1>4. /\ CallsOK(pool, cs, NodesOf(pool)) /\ CallsMean(pool, cs) /\ StartsAt(cs, results, outputs) /\ Awaited(pool, cs, n)
      /\ result \in NodesOf(pool') /\ Denoted(pool')[result] = Denoted(pool')[n] /\ ReturnTo(cs, n, result, isConst)
      /\ FiledRight(ready, ready', result) /\ FiledRight(readyConst, readyConst', result)
  BY <1>1, <1>2, <1>3
<1> QED
  BY ONLY InPass, Passing(NodesOf(pool)), Means, Moves, <1>2, <1>4, MeansReturns

\* The inputs of the innermost call
LEMMA CallInputs ==
    ASSUME InPass, Passing(NodesOf(pool)), Means, Seen, NEW c, c = Caller
    PROVE  /\ calls # <<>>
           /\ c.node \in NodesOf(pool) /\ c.new \in NodesOf(pool) /\ Denoted(pool)[c.new] = Denoted(pool)[c.node]
           /\ c.inputs \in Seq(NodesOf(pool)) /\ Len(c.inputs) = Len(pool.links[c.new])
           /\ \A j \in 1 .. Len(pool.links[c.new]) :
                 c.inputs[j] \in NodesOf(pool) /\ Denoted(pool)[c.inputs[j]] = Denoted(pool)[pool.links[c.new][j]]
<1>1. IsPool(pool) /\ CallsOK(pool, calls, NodesOf(pool))
  BY DEF InPass, Passing
<1>2. /\ calls # <<>>
      /\ c \in CallsOver(NodesOf(pool), NodesOf(pool)) /\ Len(c.inputs) = Len(pool.links[c.new])
  BY <1>1, AllInputs
<1>3. CallMeans(pool, c)
  BY <1>2, CallerAwaited
<1> QED
  BY <1>2, <1>3 DEF CallMeans, CallsOver

-----------------------------------------------------------------------------
\* The translator returns what it has translated before.
LEMMA UseTranslatedMeans ==
    ASSUME InPass, Passing(NodesOf(pool)), Means, UseTranslated, UNCHANGED readyConst
    PROVE  Means'
BY KnownMeans DEF UseTranslated, Translating, Means

\* A node is translated: what was made denotes the same, and its inputs come next.
LEMMA TranslateNodeMeans ==
    ASSUME InPass, Passing(NodesOf(pool)), Means, TranslateNode, UNCHANGED readyConst
    PROVE  Means'
<1>1. PICK n, q, isOutput : n = LookedAt /\ q = pool' /\ isOutput = (calls = <<>>)
  OBVIOUS
<1>2. /\ UNCHANGED <<module, outputs, results, ready, phase>> /\ Looking /\ phase = "translating"
      /\ q = RaiseVariance(Translated(pool, n, isOutput))
      /\ calls' = Append(calls, CallOn(LookedAt, Newest(q)))
  BY <1>1 DEF TranslateNode, Translating
<1>3. isOutput \in BOOLEAN /\ n \in NodesOf(pool) /\ IsPool(pool) /\ PlainPool(pool) /\ Chosen("float16")
  BY <1>1, <1>2, LookedAtAwaited DEF InPass, Means
<1>4. PlainlyMeans(pool, q, n)
  BY <1>2, <1>3, TranslatedMeans
<1>5. Moves /\ Newest(q) \in NodesOf(q) /\ Denoted(q)[Newest(q)] = Denoted(q)[n]
  BY <1>1, <1>2, <1>3, <1>4, MakingMoves
<1>6. PICK new : new = Newest(q)
  OBVIOUS
<1>7. /\ new \in NodesOf(pool') /\ Denoted(pool')[new] = Denoted(pool')[LookedAt]
      /\ calls' = Append(calls, CallOn(LookedAt, new)) /\ UNCHANGED <<results, ready, readyConst>> /\ Looking
  BY <1>1, <1>2, <1>5, <1>6
<1> QED
  BY ONLY InPass, Passing(NodesOf(pool)), Means, <1>5, <1>7, MeansCalls

\* It is linked to the translated inputs, which denote what the old ones do.
LEMMA LinkTranslatedMeans ==
    ASSUME InPass, IsPool(pool'), Passing(NodesOf(pool)), Means, LinkTranslated, UNCHANGED readyConst
    PROVE  Means'
<1>1. PICK c, x, q : c = Caller /\ x = c.new /\ q = pool'
  OBVIOUS
<1>2. /\ UNCHANGED <<module, outputs, phase>> /\ Seen
      /\ q = [pool EXCEPT !.links[x] = c.inputs]
      /\ ready' = WithEntry(ready, c.node, x)
      /\ ReturnTo(Callers, c.node, x, TRUE)
  BY <1>1 DEF LinkTranslated, Translating
<1>3. /\ calls # <<>>
      /\ c.node \in NodesOf(pool) /\ x \in NodesOf(pool) /\ Denoted(pool)[x] = Denoted(pool)[c.node]
      /\ Len(c.inputs) = Len(pool.links[x])
      /\ \A j \in 1 .. Len(pool.links[x]) :
            c.inputs[j] \in NodesOf(pool) /\ Denoted(pool)[c.inputs[j]] = Denoted(pool)[pool.links[x][j]]
  BY <1>1, <1>2, CallInputs
<1>4. IsPool(pool) /\ PlainPool(pool) /\ IsPool(q)
  BY <1>1 DEF InPass, Means
<1>5. /\ NodesOf(q) = NodesOf(pool) /\ q.bubbles = pool.bubbles
      /\ q.links[x] = c.inputs
      /\ \A n \in NodesOf(pool) \ {x} : q.links[n] = pool.links[n]
  <2>1. pool = [bubbles |-> pool.bubbles, links |-> pool.links] /\ DOMAIN pool.links = NodesOf(pool)
    BY <1>4 DEF IsPool, LinksOK
  <2>2. q.bubbles = pool.bubbles /\ q.links = [pool.links EXCEPT ![x] = c.inputs]
    BY <1>2, <2>1
  <2> QED
    BY <1>3, <2>1, <2>2 DEF NodesOf
<1>6. Rewrites(pool, q)
  <2>1. ASSUME NEW n \in NodesOf(pool)  PROVE SameInputs(pool, q, n)
    <3>1. CASE n = x
      BY <1>3, <1>5, <3>1 DEF SameInputs
    <3>2. CASE n # x
      BY <1>4, <1>5, <3>2, RewritesItself DEF SameInputs, Rewrites
    <3> QED
      BY <3>1, <3>2
  <2> QED
    BY <1>4, <1>5, <2>1 DEF Rewrites
<1>7. Moves
  BY <1>1, <1>2, <1>4, <1>5, <1>6 DEF Moves, PlainPool
<1>8. Denoted(q)[x] = Denoted(q)[c.node] /\ x \in NodesOf(q) /\ c.node \in NodesOf(q)
  <2>1. SameMeanings(pool, q)
    BY <1>4, <1>6, RewritingKeepsMeaning
  <2> QED
    BY <1>3, <1>5, <2>1 DEF SameMeanings
<1>9. /\ x \in NodesOf(pool') /\ Denoted(pool')[x] = Denoted(pool')[c.node] /\ ReturnTo(Callers, c.node, x, TRUE)
      /\ FiledRight(ready, ready', x) /\ FiledRight(readyConst, readyConst', x)
  BY <1>1, <1>2, <1>8 DEF FiledRight
<1> QED
  BY ONLY InPass, Passing(NodesOf(pool)), Means, <1>1, <1>3, <1>7, <1>9, CallReturns

-----------------------------------------------------------------------------
\* A node is made like the new one of the innermost call, on the inputs it was given.
LEMMA RemadeMoves ==
    ASSUME InPass, Passing(NodesOf(pool)), Means, Seen, UNCHANGED <<module, outputs, phase>>,
           NEW c, c = Caller, NEW q, q = pool', q = Made(pool, pool.bubbles[c.new], c.inputs)
    PROVE  Moves /\ Newest(q) \in NodesOf(q) /\ Denoted(q)[Newest(q)] = Denoted(q)[c.node]
<1>1. PICK x, inputs, bubble : x = c.new /\ inputs = c.inputs /\ bubble = pool.bubbles[c.new]
  OBVIOUS
<1>2. /\ c.node \in NodesOf(pool) /\ x \in NodesOf(pool) /\ Denoted(pool)[x] = Denoted(pool)[c.node]
      /\ inputs \in Seq(NodesOf(pool)) /\ Len(inputs) = Len(pool.links[x])
      /\ \A j \in 1 .. Len(pool.links[x]) : Denoted(pool)[inputs[j]] = Denoted(pool)[pool.links[x][j]]
  BY <1>1, CallInputs
<1>3. IsPool(pool) /\ PlainPool(pool) /\ q = Made(pool, bubble, inputs) /\ bubble = pool.bubbles[x]
  BY <1>1 DEF InPass, Means
<1>4. NewMeans(pool, q, x) /\ NodesOf(q) = NodesOf(pool) \union {Newest(q)} /\ q.bubbles[Newest(q)] = pool.bubbles[x]
  <2>1. LikeInputs(pool, inputs, x) /\ x \in NodesOf(pool)
    BY <1>2 DEF LikeInputs
  <2>2. MeansLike(pool, q, Newest(q), x)
    BY ONLY <1>3, <2>1, MadeMeans
  <2> QED
    BY <2>2 DEF MeansLike
<1>5. PlainBubble(q.bubbles[Newest(q)])
  BY <1>2, <1>3, <1>4 DEF PlainPool
<1>6. NewMeans(pool, q, c.node)
  BY <1>2, <1>4 DEF NewMeans
<1>7. PlainlyMeans(pool, q, c.node)
  BY <1>3, <1>4, <1>5, <1>6, OneMorePlain
<1>8. PICK n : n = c.node
  OBVIOUS
<1>9. Moves /\ Newest(q) \in NodesOf(q) /\ Denoted(q)[Newest(q)] = Denoted(q)[n]
  BY <1>2, <1>7, <1>8, MakingMoves
<1> QED
  BY <1>8, <1>9

\* The zipper returns what it has zipped before.
LEMMA UseZippedMeans ==
    ASSUME InPass, Passing(NodesOf(pool)), Means, UseZipped, UNCHANGED readyConst
    PROVE  Means'
BY KnownMeans DEF UseZipped, StartsZip, Zipping, Means

\* A convolution is replaced, or nothing is.
LEMMA ZipNodeMeans ==
    ASSUME InPass, Passing(NodesOf(pool)), Means, ZipNode, UNCHANGED readyConst
    PROVE  Means'
<1>1. PICK n, q, new : n = LookedAt /\ q = pool' /\ new = IF pool' = pool THEN LookedAt ELSE Newest(pool')
  OBVIOUS
<1>2. /\ UNCHANGED <<module, outputs, phase>> /\ UNCHANGED <<results, ready, readyConst>> /\ Looking
      /\ q = Zipped(pool, n)
      /\ calls' = Append(calls, CallOn(LookedAt, new))
  BY <1>1 DEF ZipNode, StartsZip, Zipping
<1>3. n \in NodesOf(pool) /\ IsPool(pool) /\ PlainPool(pool)
  BY <1>1, <1>2, LookedAtAwaited DEF InPass, Means
<1>4. Moves /\ new \in NodesOf(pool') /\ Denoted(pool')[new] = Denoted(pool')[n]
  <2>1. CASE q = pool
    <3>1. UNCHANGED <<module, outputs, phase, pool>> /\ new = n
      BY <1>1, <1>2, <2>1
    <3> QED
      BY <1>3, <3>1, StayingMoves
  <2>2. CASE q # pool
    <3>1. PlainlyMeans(pool, q, n)
      BY <1>2, <1>3, <2>2, ZippedMeans
    <3>2. Moves /\ Newest(q) \in NodesOf(q) /\ Denoted(q)[Newest(q)] = Denoted(q)[n]
      BY <1>1, <1>2, <1>3, <3>1, MakingMoves
    <3> QED
      BY <1>1, <2>2, <3>2
  <2> QED
    BY <2>1, <2>2
<1>5. Denoted(pool')[new] = Denoted(pool')[LookedAt]
  BY <1>1, <1>4
<1> QED
  BY ONLY InPass, Passing(NodesOf(pool)), Means, <1>2, <1>4, <1>5, MeansCalls

\* A node with a zipped input is copied.
LEMMA LinkZippedMeans ==
    ASSUME InPass, Passing(NodesOf(pool)), Means, LinkZipped, UNCHANGED readyConst
    PROVE  Means'
<1>1. PICK c, q, zipped : c = Caller /\ q = pool' /\ zipped = IF Caller.changed THEN Newest(pool') ELSE Caller.new
  OBVIOUS
<1>2. /\ UNCHANGED <<module, outputs, phase>> /\ Seen
      /\ q = IF c.changed THEN Made(pool, pool.bubbles[c.new], c.inputs) ELSE pool
      /\ ready' = WithEntry(ready, c.node, zipped)
      /\ ReturnTo(Callers, c.node, zipped, TRUE)
  BY <1>1 DEF LinkZipped, StartsZip, Zipping
<1>3. /\ calls # <<>> /\ c.node \in NodesOf(pool) /\ c.new \in NodesOf(pool)
      /\ Denoted(pool)[c.new] = Denoted(pool)[c.node]
  BY <1>1, <1>2, CallInputs
<1>4. Moves /\ zipped \in NodesOf(pool') /\ Denoted(pool')[zipped] = Denoted(pool')[c.node]
  <2>1. CASE c.changed
    <3>1. q = Made(pool, pool.bubbles[c.new], c.inputs) /\ zipped = Newest(q)
      BY <1>1, <1>2, <2>1
    <3>2. Moves /\ Newest(q) \in NodesOf(q) /\ Denoted(q)[Newest(q)] = Denoted(q)[c.node]
      BY ONLY InPass, Passing(NodesOf(pool)), Means, <1>1, <1>2, <3>1, RemadeMoves
    <3> QED
      BY <1>1, <3>1, <3>2
  <2>2. CASE ~c.changed
    <3>1. UNCHANGED <<module, outputs, phase, pool>> /\ zipped = c.new
      BY <1>1, <1>2, <2>2
    <3> QED
      BY <1>3, <3>1, StayingMoves
  <2> QED
    BY <2>1, <2>2
<1>5. c.node \in NodesOf(pool')
  BY <1>3, <1>4 DEF Moves, Rewrites
<1>6. FiledRight(ready, ready', zipped) /\ FiledRight(readyConst, readyConst', zipped)
  BY <1>2, <1>4, <1>5 DEF FiledRight
<1> QED
  BY ONLY InPass, Passing(NodesOf(pool)), Means, <1>1, <1>2, <1>3, <1>4, <1>6, CallReturns

-----------------------------------------------------------------------------
\* The folding returns what it has folded before.
LEMMA UseReadyMeans ==
    ASSUME InPass, Passing(NodesOf(pool)), Means, UseReadyNonconst \/ UseReadyConst
    PROVE  Means'
<1>1. UNCHANGED <<module, outputs, phase, pool, ready, readyConst>> /\ Looking
  BY DEF UseReadyNonconst, UseReadyConst, Folding
<1>2. MemoMeans(pool, ready) /\ MemoMeans(pool, readyConst)
  BY DEF Means
<1>3. CASE LookedAt \in DOMAIN ready /\ ReturnTo(calls, LookedAt, ready[LookedAt], FALSE)
  BY <1>1, <1>2, <1>3, KnownMeans
<1>4. CASE LookedAt \in DOMAIN readyConst /\ ReturnTo(calls, LookedAt, readyConst[LookedAt], TRUE)
  BY <1>1, <1>2, <1>4, KnownMeans
<1> QED
  BY <1>3, <1>4 DEF UseReadyNonconst, UseReadyConst

\* A Const or a Parameter is what it is.
LEMMA TakeLeafMeans ==
    ASSUME InPass, Passing(NodesOf(pool)), Means, TakeConst \/ TakeParameter
    PROVE  Means'
<1>1. PICK n : n = LookedAt
  OBVIOUS
<1>2. UNCHANGED <<module, outputs, phase, pool>> /\ Looking
  BY DEF TakeConst, TakeParameter, Unknown, Folding
<1>3. /\ ready' = ready \/ ready' = WithEntry(ready, n, n)
      /\ readyConst' = readyConst \/ readyConst' = WithEntry(readyConst, n, n)
  BY <1>1 DEF TakeConst, TakeParameter
<1>4. PICK isConst : ReturnTo(calls, n, n, isConst)
  BY <1>1 DEF TakeConst, TakeParameter
<1> QED
  BY ONLY InPass, Passing(NodesOf(pool)), Means, <1>1, <1>2, <1>3, <1>4, LeafMeans

\* The inputs of an operator are folded first.
LEMMA EnterMeans ==
    ASSUME InPass, Passing(NodesOf(pool)), Means, Enter
    PROVE  Means'
<1>1. PICK n : n = LookedAt
  OBVIOUS
<1>2. /\ UNCHANGED <<module, outputs, phase, pool>> /\ UNCHANGED <<results, ready, readyConst>> /\ Looking
      /\ calls' = Append(calls, CallOn(LookedAt, n))
  BY <1>1 DEF Enter, Unknown, Folding
<1>3. n \in NodesOf(pool') /\ Denoted(pool')[n] = Denoted(pool')[LookedAt]
  BY <1>1, <1>2, LookedAtAwaited
<1>4. Moves
  BY <1>2, StayingMoves
<1> QED
  BY ONLY InPass, Passing(NodesOf(pool)), Means, <1>2, <1>3, <1>4, MeansCalls

\* An operator on unchanged inputs is returned as it is.
LEMMA KeepMeans ==
    ASSUME InPass, Passing(NodesOf(pool)), Means, Keep
    PROVE  Means'
<1>1. PICK c, n : c = Caller /\ n = c.node
  OBVIOUS
<1>2. /\ UNCHANGED <<module, outputs, phase, pool>> /\ UNCHANGED readyConst /\ Seen
      /\ ready' = WithEntry(ready, n, n) /\ ReturnTo(Callers, c.node, n, FALSE)
  BY <1>1 DEF Keep, Folding
<1>3. calls # <<>> /\ n \in NodesOf(pool') /\ Denoted(pool')[n] = Denoted(pool')[c.node]
  BY <1>1, <1>2, CallInputs
<1>4. Moves
  BY <1>2, StayingMoves
<1>5. FiledRight(ready, ready', n) /\ FiledRight(readyConst, readyConst', n)
  BY <1>2, <1>3 DEF FiledRight
<1> QED
  BY ONLY InPass, Passing(NodesOf(pool)), Means, <1>1, <1>2, <1>3, <1>4, <1>5, CallReturns

\* The result of the folding is filed under itself, or under what it was made for.
LEMMA MemoKeyFiles ==
    ASSUME NEW memo, NEW longer, NEW n \in NodesOf(pool'), NEW new \in NodesOf(pool'),
           Denoted(pool')[new] = Denoted(pool')[n], longer = WithEntry(memo, MemoKey(n, new), new)
    PROVE  FiledRight(memo, longer, new)
<1>1. PICK k : k = MemoKey(n, new)
  OBVIOUS
<1>2. k \in NodesOf(pool') /\ Denoted(pool')[new] = Denoted(pool')[k]
  BY <1>1 DEF MemoKey
<1> QED
  BY <1>1, <1>2 DEF FiledRight

\* An operator is copied onto inputs that denote what the old ones do.
LEMMA CopyMeans ==
    ASSUME InPass, Passing(NodesOf(pool)), Means, NEW F, Folds(F), Copy
    PROVE  Means'
<1>1. PICK c, q, new : c = Caller /\ q = pool' /\ new = Newest(pool')
  OBVIOUS
<1>2. /\ UNCHANGED <<module, outputs, phase>> /\ UNCHANGED readyConst /\ Seen
      /\ q = Made(pool, pool.bubbles[c.node], c.inputs)
      /\ ready' = WithEntry(ready, MemoKey(c.node, new), new)
      /\ ReturnTo(Callers, c.node, new, FALSE)
  BY <1>1 DEF Copy, Folding
<1>3. c.new = c.node
  BY <1>1, <1>2, FoldedCall
<1>4. calls # <<>> /\ c.node \in NodesOf(pool)
  BY <1>1, <1>2, CallInputs
<1>5. q = Made(pool, pool.bubbles[c.new], c.inputs)
  BY <1>2, <1>3
<1>6. Moves /\ Newest(q) \in NodesOf(q) /\ Denoted(q)[Newest(q)] = Denoted(q)[c.node]
  BY ONLY InPass, Passing(NodesOf(pool)), Means, <1>1, <1>2, <1>5, RemadeMoves
<1>7. new \in NodesOf(pool') /\ Denoted(pool')[new] = Denoted(pool')[c.node] /\ c.node \in NodesOf(pool')
  BY <1>1, <1>4, <1>6 DEF Moves, Rewrites
<1>8. FiledRight(ready, ready', new)
  BY <1>2, <1>7, MemoKeyFiles
<1>9. FiledRight(readyConst, readyConst', new)
  BY <1>2 DEF FiledRight
<1> QED
  BY ONLY InPass, Passing(NodesOf(pool)), Means, <1>1, <1>2, <1>4, <1>6, <1>7, <1>8, <1>9, CallReturns

\* A Const holds what the operator that it replaces gives on Consts.
LEMMA ComputeMeans ==
    ASSUME InPass, Passing(NodesOf(pool)), Means, NEW F, Folds(F), Compute
    PROVE  Means'
<1>1. PICK c, q, new, n, consts : c = Caller /\ q = pool' /\ new = Newest(pool') /\ n = c.node /\ consts = c.inputs
  OBVIOUS
<1>2. /\ UNCHANGED <<module, outputs, phase>> /\ UNCHANGED ready /\ Seen /\ c.allConst
      /\ q = Made(pool, Computed(n, consts), <<>>)
      /\ readyConst' = WithEntry(readyConst, MemoKey(n, new), new)
      /\ ReturnTo(Callers, c.node, new, TRUE)
  BY <1>1 DEF Compute, Folding
<1>3. c.new = n /\ FoldCall(pool, c)
  BY <1>1, <1>2, FoldedCall
<1>4. /\ calls # <<>> /\ n \in NodesOf(pool)
      /\ consts \in Seq(NodesOf(pool)) /\ Len(consts) = Len(pool.links[n])
      /\ \A j \in 1 .. Len(pool.links[n]) : Denoted(pool)[consts[j]] = Denoted(pool)[pool.links[n][j]]
  BY <1>1, <1>2, <1>3, CallInputs
<1>5. OpOf(pool, n) \notin EndPoints /\ \A m \in Range(consts) : IsConst(pool, m)
  BY <1>1, <1>2, <1>3 DEF FoldCall
<1>6. \A j \in 1 .. Len(pool.links[n]) :
         IsConst(pool, consts[j]) /\ Denoted(pool)[consts[j]] = Denoted(pool)[pool.links[n][j]]
  <2>1. \A j \in 1 .. Len(consts) : consts[j] \in Range(consts)
    BY <1>4, RangeWithin
  <2> QED
    BY <1>4, <1>5, <2>1
<1>7. IsPool(pool) /\ PlainPool(pool)
  BY DEF InPass, Means
<1>8. PICK data, name, dtype : /\ data = Applied(pool.bubbles[n], [i \in DOMAIN consts |-> ConstData(pool, consts[i])])
                               /\ name = pool.bubbles[n].name /\ dtype = DTypeOf(n)
  OBVIOUS
<1>9. q = Made(pool, DataBubble(name, data, dtype), <<>>)
  BY <1>2, <1>8 DEF Computed
<1>10. PlainlyMeans(pool, q, n)
  BY ONLY <1>4, <1>5, <1>6, <1>7, <1>8, <1>9, ComputedMeans
<1>11. Moves /\ Newest(q) \in NodesOf(q) /\ Denoted(q)[Newest(q)] = Denoted(q)[n]
  BY <1>1, <1>2, <1>4, <1>10, MakingMoves
<1>12. new \in NodesOf(pool') /\ Denoted(pool')[new] = Denoted(pool')[c.node] /\ n \in NodesOf(pool')
  BY <1>1, <1>4, <1>11 DEF Moves, Rewrites
<1>13. FiledRight(readyConst, readyConst', new)
  BY <1>1, <1>2, <1>12, MemoKeyFiles
<1>14. FiledRight(ready, ready', new)
  BY <1>2 DEF FiledRight
<1> QED
  BY ONLY InPass, Passing(NodesOf(pool)), Means, <1>1, <1>2, <1>4, <1>11, <1>12, <1>13, <1>14, CallReturns

-----------------------------------------------------------------------------
\* While a pass is running, everything it has to do with is in the pool.
LEMMA EveryPassPasses ==
    ASSUME CompileInv, phase \in {"translating", "zipping", "folding"}
    PROVE  Passing(NodesOf(pool))
<1>1. \E F : Passing(F)
  BY DEF CompileInv, InPhase, Translates, Zips, Folds
<1>2. PICK F : Passing(F)
  BY <1>1
<1>3. F \subseteq NodesOf(pool) /\ CallsOK(pool, calls, F) /\ results \in Seq(F) /\ MemoOver(ready, F)
  BY <1>2 DEF Passing
<1>4. PICK N : N = NodesOf(pool)
  OBVIOUS
<1>5. CallsOK(pool, calls, N) /\ results \in Seq(N) /\ MemoOver(ready, N)
  BY <1>3, <1>4, CallsKept, SeqMonotonic, MemoKept
<1> QED
  BY <1>4, <1>5 DEF Passing

\* The next pass starts with what this one returns.
LEMMA NextPassMeans ==
    ASSUME InPass, Passing(NodesOf(pool)), Means, calls = <<>>, ~Looking,
           UNCHANGED <<module, pool, calls>>, phase' # "translating",
           outputs' = results, results' = <<>>, ready' = <<>>,
           readyConst' = readyConst \/ readyConst' = <<>>
    PROVE  Means'
<1>1. PICK none : none = <<>>
  OBVIOUS
<1>2. Len(none) = 0 /\ DOMAIN none = {}
  BY <1>1, EmptySeq
<1>3. results \in Seq(NodesOf(pool)) /\ outputs \in Seq(NodesOf(pool)) /\ ListMeans(pool, results, outputs)
      /\ Len(outputs) = Len(module.outputs) /\ ListMeans(pool, outputs, module.outputs)
  BY DEF InPass, Passing, Means
<1>4. Len(results) \in Nat /\ Len(outputs) \in Nat /\ Len(results) = Len(outputs)
  BY <1>3, LenProperties DEF Looking, ListMeans
<1>5. Len(outputs') = Len(module'.outputs) /\ ListMeans(pool', outputs', module'.outputs)
  <2>1. ListMeans(pool, results, module.outputs)
    BY <1>3, <1>4 DEF ListMeans
  <2> QED
    BY <1>3, <1>4, <2>1
<1>6. ListMeans(pool', results', outputs')
  BY <1>1, <1>2, <1>4 DEF ListMeans
<1>7. StartsAt(calls', results', outputs')
  BY DEF StartsAt
<1>8. MemoMeans(pool', ready') /\ MemoMeans(pool', readyConst') /\ CallsMean(pool', calls')
  BY <1>1, <1>2 DEF MemoMeans, Means
<1>9. PlainPool(pool)' /\ (\A n \in Originals : pool'.bubbles[n] = module'.bubbles[n])
      /\ (phase' = "translating" => Chosen("float16")')
  BY DEF Means, PlainPool, PlainBubble, Chosen
<1> QED
  BY ONLY <1>5, <1>6, <1>7, <1>8, <1>9, Zenon DEF Means

\* Nothing changes but the phase.
LEMMA StayingMeans ==
    ASSUME Means, UNCHANGED <<module, pool, outputs, calls, results, ready, readyConst>>,
           phase' = phase \/ phase' # "translating"
    PROVE  Means'
<1>1. PlainPool(pool)' /\ (phase' = "translating" => Chosen("float16")')
  BY DEF Means, PlainPool, PlainBubble, Chosen
<1>2. /\ \A n \in Originals : pool'.bubbles[n] = module'.bubbles[n]
      /\ Len(outputs') = Len(module'.outputs) /\ ListMeans(pool', outputs', module'.outputs)
      /\ ListMeans(pool', results', outputs')
      /\ StartsAt(calls', results', outputs')
      /\ MemoMeans(pool', ready') /\ MemoMeans(pool', readyConst')
      /\ CallsMean(pool', calls')
  BY DEF Means
<1> QED
  BY ONLY <1>1, <1>2, Zenon DEF Means

\* The first pass is called with the module.
Begins ==
    /\ module \in Modules
    /\ IsPool(pool) /\ NodesOf(pool) = Originals
    /\ \A n \in Originals : pool.bubbles[n] = module.bubbles[n]
    /\ phase = FirstPass(module)
    /\ outputs = module.outputs
    /\ calls = <<>> /\ results = <<>> /\ ready = <<>> /\ readyConst = <<>>

\* Then it is the outputs of the module itself that denote what they do.
LEMMA BeginsMeaning == PlainModule /\ Begins => Means
<1> SUFFICES ASSUME PlainModule, Begins  PROVE Means
  OBVIOUS
<1>1. PICK none : none = <<>>
  OBVIOUS
<1>2. Len(none) = 0 /\ DOMAIN none = {}
  BY <1>1, EmptySeq
<1>3. module.outputs \in Seq(Originals)
  BY ModulesAssumption DEF Begins
<1>4. Len(outputs) \in Nat /\ \A i \in 1 .. Len(outputs) : outputs[i] \in NodesOf(pool)
  BY <1>3, RangeWithin DEF Begins
<1>5. ListMeans(pool, outputs, module.outputs) /\ ListMeans(pool, results, outputs)
  BY <1>1, <1>2, <1>4 DEF Begins, ListMeans
<1>6. phase = "translating" => Chosen("float16")
  BY DEF Begins, FirstPass, PlainModule, Chosen
<1>7. PlainPool(pool) /\ \A n \in Originals : pool.bubbles[n] = module.bubbles[n]
  BY DEF Begins, PlainModule, PlainPool
<1>8. StartsAt(calls, results, outputs) /\ MemoMeans(pool, ready) /\ MemoMeans(pool, readyConst) /\ CallsMean(pool, calls)
  BY <1>1, <1>2 DEF Begins, StartsAt, MemoMeans, CallsMean
<1>9. Len(outputs) = Len(module.outputs)
  BY DEF Begins
<1> QED
  BY ONLY <1>5, <1>6, <1>7, <1>8, <1>9, Zenon DEF Means

\* So it is when a module is compiled again.
LEMMA BeginsMeaningAgain == PlainModule' /\ Begins' => Means'
BY BeginsMeaning, PTL

\* The first compilation
LEMMA CompileInitMeans == CompileInit /\ PlainModule => Means
<1> SUFFICES ASSUME CompileInit, PlainModule  PROVE Means
  OBVIOUS
<1>1. /\ module \in Modules
      /\ pool = [bubbles |-> module.bubbles, links |-> module.links]
      /\ phase = FirstPass(module) /\ outputs = module.outputs
      /\ calls = <<>> /\ results = <<>> /\ ready = <<>> /\ readyConst = <<>>
  BY DEF CompileInit
<1>2. IsPool(pool)
  BY CompileInitInv DEF CompileInv, InPass
<1>3. NodesOf(pool) = Originals /\ \A n \in Originals : pool.bubbles[n] = module.bubbles[n]
  BY <1>1, ModulesAssumption DEF NodesOf
<1>4. Begins
  BY <1>1, <1>2, <1>3 DEF Begins
<1> QED
  BY <1>4, BeginsMeaning

\* The next ones
LEMMA CompileAgainMeans ==
    ASSUME CompileInv, CompileInv', PlainModule', Means, CompileAgain
    PROVE  Means'
<1>1. /\ phase' = FirstPass(module)
      /\ pool' = [bubbles |-> Restrict(pool.bubbles, Originals), links |-> Restrict(pool.links, Originals)]
      /\ outputs' = module.outputs /\ results' = <<>>
      /\ UNCHANGED <<module, calls, ready, readyConst>>
  BY DEF CompileAgain
<1>2. calls = <<>> /\ ready = <<>> /\ readyConst = <<>>
  BY DEF CompileAgain, CompileInv, InPhase, Done
<1>3. IsPool(pool') /\ module' \in Modules /\ IsPool(pool)
  BY DEF CompileInv, InPass
<1>4. pool'.bubbles = [n \in Originals |-> pool.bubbles[n]]
  BY <1>1 DEF Restrict
<1>5. NodesOf(pool') = Originals /\ \A n \in Originals : pool'.bubbles[n] = module'.bubbles[n]
  BY <1>1, <1>4 DEF NodesOf, Means
<1>6. Begins'
  BY <1>1, <1>2, <1>3, <1>5 DEF Begins, FirstPass, NodesOf
<1> QED
  BY <1>6, BeginsMeaningAgain

-----------------------------------------------------------------------------
\* Steps of the translator,
LEMMA TranslateStepMeans ==
    ASSUME CompileInv, CompileInv', Means, TranslateStep
    PROVE  Means'
<1>1. UNCHANGED readyConst /\ phase = "translating" /\ InPass /\ IsPool(pool')
  BY DEF TranslateStep, TranslateNext, UseTranslated, TranslateNode, RejectKernel, LinkTranslated, LoadTranslated,
         Translating, CompileInv, InPass
<1>2. Passing(NodesOf(pool))
  BY <1>1, EveryPassPasses
<1>3. CASE UseTranslated
  BY <1>1, <1>2, <1>3, UseTranslatedMeans
<1>4. CASE TranslateNode
  BY <1>1, <1>2, <1>4, TranslateNodeMeans
<1>5. CASE LinkTranslated
  BY <1>1, <1>2, <1>5, LinkTranslatedMeans
<1>6. CASE RejectKernel
  BY <1>1, <1>6, StayingMeans DEF RejectKernel, Rejected, Translating
<1>7. CASE LoadTranslated
  <2>1. /\ calls = <<>> /\ ~Looking /\ UNCHANGED <<module, pool, calls>> /\ phase' = "zipping"
        /\ outputs' = results /\ results' = <<>> /\ ready' = <<>> /\ readyConst' = readyConst
    BY <1>1, <1>7 DEF LoadTranslated, Translating, AllSeen, NextPass
  <2> QED
    BY <1>1, <1>2, <2>1, NextPassMeans
<1> QED
  BY <1>3, <1>4, <1>5, <1>6, <1>7 DEF TranslateStep, TranslateNext

\* of the zipper,
LEMMA ZipStepMeans ==
    ASSUME CompileInv, Means, ZipStep
    PROVE  Means'
<1>1. UNCHANGED readyConst /\ phase = "zipping" /\ InPass
  BY DEF ZipStep, ZipNext, SkipZip, UseZipped, ZipNode, RejectWinograd, LinkZipped, EndZip, StartsZip, Zipping,
         CompileInv
<1>2. Passing(NodesOf(pool))
  BY <1>1, EveryPassPasses
<1>3. CASE SkipZip
  BY <1>1, <1>3, StayingMeans DEF SkipZip, Zipping
<1>4. CASE UseZipped
  BY <1>1, <1>2, <1>4, UseZippedMeans
<1>5. CASE ZipNode
  BY <1>1, <1>2, <1>5, ZipNodeMeans
<1>6. CASE LinkZipped
  BY <1>1, <1>2, <1>6, LinkZippedMeans
<1>7. CASE RejectWinograd
  BY <1>1, <1>7, StayingMeans DEF RejectWinograd, Rejected, StartsZip, Zipping
<1>8. CASE EndZip
  <2>1. /\ calls = <<>> /\ ~Looking /\ UNCHANGED <<module, pool, calls>> /\ phase' = "folding"
        /\ outputs' = results /\ results' = <<>> /\ ready' = <<>> /\ readyConst' = readyConst
    BY <1>1, <1>8 DEF EndZip, StartsZip, Zipping, AllSeen, NextPass
  <2> QED
    BY <1>1, <1>2, <2>1, NextPassMeans
<1> QED
  BY <1>3, <1>4, <1>5, <1>6, <1>7, <1>8 DEF ZipStep, ZipNext

\* and of the folding keep what is true of a plain module.
LEMMA FoldStepMeans ==
    ASSUME CompileInv, Means, FoldStep
    PROVE  Means'
<1>1. phase = "folding" /\ InPass
  BY DEF FoldStep, FoldNext, UseReadyNonconst, UseReadyConst, RejectVariable, TakeConst, TakeParameter, Enter, Keep,
         Copy, Compute, RejectOperator, EndFolding, Unknown, Folding, CompileInv
<1>2. PICK F : Folds(F)
  BY <1>1 DEF CompileInv, InPhase
<1>3. Passing(NodesOf(pool))
  BY <1>1, EveryPassPasses
<1>4. CASE UseReadyNonconst \/ UseReadyConst
  BY <1>1, <1>3, <1>4, UseReadyMeans
<1>5. CASE TakeConst \/ TakeParameter
  BY <1>1, <1>3, <1>5, TakeLeafMeans
<1>6. CASE Enter
  BY <1>1, <1>3, <1>6, EnterMeans
<1>7. CASE Keep
  BY <1>1, <1>3, <1>7, KeepMeans
<1>8. CASE Copy
  BY <1>1, <1>2, <1>3, <1>8, CopyMeans
<1>9. CASE Compute
  BY <1>1, <1>2, <1>3, <1>9, ComputeMeans
<1>10. CASE RejectVariable \/ RejectOperator
  BY <1>10, StayingMeans DEF RejectVariable, RejectOperator, Unknown, Folding, Rejected
<1>11. CASE EndFolding
  <2>1. /\ calls = <<>> /\ ~Looking /\ UNCHANGED <<module, pool, calls>> /\ phase' = "compiling"
        /\ outputs' = results /\ results' = <<>> /\ ready' = <<>> /\ readyConst' = <<>>
    BY <1>11 DEF EndFolding, Folding, AllSeen, NextPass
  <2> QED
    BY <1>1, <1>3, <2>1, NextPassMeans
<1> QED
  BY <1>4, <1>5, <1>6, <1>7, <1>8, <1>9, <1>10, <1>11 DEF FoldStep, FoldNext

\* The module stays the same.
LEMMA ModuleStays == [CompileNext]_compileVars => module' = module
BY DEF CompileNext, TranslateStep, TranslateNext, UseTranslated, TranslateNode, RejectKernel, LinkTranslated,
       LoadTranslated, Translating, ZipStep, ZipNext, SkipZip, UseZipped, ZipNode, RejectWinograd, LinkZipped, EndZip,
       StartsZip, Zipping, FoldStep, FoldNext, UseReadyNonconst, UseReadyConst, RejectVariable, TakeConst,
       TakeParameter, Enter, Keep, Copy, Compute, RejectOperator, EndFolding, Unknown, Folding, StartRefs, FindRefs,
       CompileAgain, StayEnded, compileVars, foldingVars, translatorVars

\* Every step of the compilation does.
LEMMA CompileNextMeans ==
    ASSUME FullInv, FullInv', PlainModule => Means, [CompileNext]_compileVars
    PROVE  (PlainModule => Means)'
<1> SUFFICES ASSUME PlainModule'  PROVE Means'
  OBVIOUS
<1>1. PlainModule
  BY ModuleStays DEF PlainModule, PlainBubble, Chosen
<1>2. Means /\ CompileInv /\ CompileInv'
  BY <1>1 DEF FullInv
<1>3. CASE TranslateStep \/ ZipStep \/ FoldStep
  BY <1>2, <1>3, TranslateStepMeans, ZipStepMeans, FoldStepMeans
<1>4. CASE CompileAgain
  BY <1>2, <1>4, CompileAgainMeans
<1>5. CASE StartRefs \/ FindRefs \/ StayEnded \/ UNCHANGED compileVars
  <2>1. UNCHANGED foldingVars
    BY <1>5 DEF StartRefs, FindRefs, StayEnded, compileVars
  <2>2. UNCHANGED <<phase, module, pool, outputs, calls, results, ready, readyConst>>
    BY <2>1 DEF foldingVars, translatorVars, rewritingVars
  <2> QED
    BY <1>2, <2>2, StayingMeans
<1> QED
  BY <1>3, <1>4, <1>5 DEF CompileNext

\* Then the results denote what the module's outputs do.
LEMMA MeansSameMeaning == FullInv /\ Means => SameMeaning
<1> SUFFICES ASSUME FullInv, Means  PROVE SameMeaning
  OBVIOUS
<1>1. PICK p : p = [bubbles |-> module.bubbles, links |-> module.links]
  OBVIOUS
<1>2. module \in Modules /\ IsPool(pool) /\ KeepsModule /\ outputs \in Seq(NodesOf(pool))
  BY DEF FullInv, CompileInv, InPass
<1>3. /\ module.links \in [Originals -> Seq(Originals)]
      /\ module.bubbles = [n \in Originals |-> module.bubbles[n]]
      /\ \A n \in Originals : IsBubble(module.bubbles[n])
      /\ module.outputs \in Seq(Originals)
  BY <1>2, ModulesAssumption
<1>4. IsPool(p) /\ NodesOf(p) = Originals
  <2>1. /\ p = [bubbles |-> p.bubbles, links |-> p.links]
        /\ p.bubbles = [n \in Originals |-> p.bubbles[n]] /\ p.links = [n \in Originals |-> p.links[n]]
        /\ \A n \in Originals : /\ IsBubble(p.bubbles[n]) /\ OpOf(p, n) = module.bubbles[n].op
                                /\ p.links[n] = module.links[n]
    BY <1>1, <1>3 DEF OpOf
  <2> QED
    BY ONLY <1>2, <2>1, ModuleIsPool
<1>5. OnlyAdds(p, pool)
  BY <1>1, <1>2, <1>4, OriginalsInPool DEF OnlyAdds, KeepsModule, Means
<1>6. \A i \in 1 .. Len(module.outputs) : Denoted(pool)[module.outputs[i]] = Meant(i)
  <2>1. \A n \in Originals : Denoted(pool)[n] = Denoted(p)[n]
    BY <1>4, <1>5, AddingKeepsMeaning
  <2>2. \A i \in 1 .. Len(module.outputs) : module.outputs[i] \in Originals
    BY <1>3, RangeWithin
  <2> QED
    BY <1>1, <2>1, <2>2 DEF Meant
<1>7. /\ Len(outputs) = Len(module.outputs) /\ Len(outputs) \in Nat
      /\ \A i \in 1 .. Len(outputs) : Denoted(pool)[outputs[i]] = Denoted(pool)[module.outputs[i]]
      /\ Len(results) <= Len(outputs)
      /\ \A i \in 1 .. Len(results) : Denoted(pool)[results[i]] = Denoted(pool)[outputs[i]]
  BY <1>2, LenProperties DEF Means, ListMeans
<1>8. \A i \in 1 .. Len(outputs) : Denoted(pool)[outputs[i]] = Meant(i)
  BY <1>6, <1>7
<1>9. DOMAIN outputs = 1 .. Len(outputs) /\ DOMAIN module.outputs = 1 .. Len(outputs)
  BY <1>2, <1>3, <1>7, LenProperties
<1>10. [i \in DOMAIN outputs |-> Denoted(pool)[outputs[i]]] = [i \in DOMAIN module.outputs |-> Meant(i)]
  BY <1>8, <1>9
<1>11. ASSUME NEW i \in DOMAIN results  PROVE Denoted(pool)[results[i]] = Meant(i)
  <2>1. DOMAIN results = 1 .. Len(results) /\ Len(results) \in Nat
    <3>1. \E S : results \in Seq(S)
      BY DEF FullInv, CompileInv, InPhase, Translates, Zips, Folds, Done, Passing
    <3> QED
      BY <3>1, LenProperties
  <2>2. i \in 1 .. Len(results) /\ i \in 1 .. Len(outputs)
    BY <1>7, <2>1
  <2> QED
    BY <1>7, <1>8, <2>2
<1> QED
  BY <1>10, <1>11 DEF SameMeaning

\* Compiling changes no result of a module without packing and without a variance to
\* raise: whatever the translator, the zipper and the folding return for its outputs,
\* however often it is compiled, denotes what the outputs of the module denote.
THEOREM PlainModulesKeepMeaning == CompileSpec => [](PlainModule => SameMeaning)
<1>1. CompileInit => (PlainModule => Means)
  BY CompileInitMeans
<1>2. FullInv /\ FullInv' /\ (PlainModule => Means) /\ [CompileNext]_compileVars => (PlainModule => Means)'
  BY CompileNextMeans
<1>3. FullInv /\ (PlainModule => Means) => (PlainModule => SameMeaning)
  BY MeansSameMeaning
<1> QED
  BY <1>1, <1>2, <1>3, PassesKeepPool, PTL DEF CompileSpec
=============================================================================
