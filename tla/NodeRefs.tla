------------------------------- MODULE NodeRefs -------------------------------
(***************************************************************************)
(* Which nodes does a node depend on?  Module::list_reference_nodes walks  *)
(* the graph from the outputs and gives every node a depth; nodes sorted   *)
(* by decreasing depth are a schedule that build_node_refs                 *)
(* (compiler/compiler.cpp) goes through once, adding up dependencies.      *)
(*                                                                         *)
(* A node whose depth grows after it was walked is queued again, so that   *)
(* its inputs are moved further down; the schedule is usable only because  *)
(* of that.  std::sort orders nodes of one depth as it likes, and the map  *)
(* it reads them from is unordered: the schedule is any sorted order.      *)
(***************************************************************************)
EXTENDS Integers, Sequences, Functions

CONSTANT
    Graphs      \* records with args (Node::inputs()) and outputs

\* What the walk needs of a graph: links between its nodes, none to itself.
IsLinked(g) ==
    LET nodes == DOMAIN g.args
    IN  /\ g.args \in [nodes -> Seq(nodes)] /\ g.outputs \in Seq(nodes)
        /\ \A n \in nodes : n \notin Range(g.args[n])

ASSUME GraphsAssumption == \A g \in Graphs : IsLinked(g)

VARIABLES
    graph,      \* the graph they are called with
    pc,         \* "seeding", "walking", "scheduled", "done"
    position,   \* the next element of outputs, or of the inputs of node
    node,       \* the node whose inputs are looked at
    depth,      \* map_node_depth, on the nodes reached so far
    walker,     \* node_walker
    schedule,   \* computation_schedule, what is left of it
    refs        \* map_node_refs, on its keys

vars == <<graph, pc, position, node, depth, walker, schedule, refs>>

Nodes == DOMAIN graph.args
Reached == DOMAIN depth
Inputs(n) == graph.args[n]

\* map_node_depth[n] = d
WithDepth(n, d) == [m \in Reached \union {n} |-> IF m = n THEN d ELSE depth[m]]

InitFor(g) ==
    /\ graph = g
    /\ pc = "seeding"
    /\ position = 1
    /\ node = "none"
    /\ depth = <<>>
    /\ walker = <<>>
    /\ schedule = <<>>
    /\ refs = <<>>

Init == \E g \in Graphs : InitFor(g)

-----------------------------------------------------------------------------
\* for (auto &node : nodes): an output listed twice is queued once.
Seed ==
    /\ pc = "seeding"
    /\ position <= Len(graph.outputs)
    /\ LET n == graph.outputs[position]
       IN  IF n \in Reached THEN UNCHANGED <<depth, walker>>
           ELSE depth' = WithDepth(n, 1) /\ walker' = Append(walker, n)
    /\ position' = position + 1
    /\ UNCHANGED <<graph, pc, node, schedule, refs>>

\* The loop that is running has looked at its last element.
LoopOver == \/ pc = "seeding" /\ position > Len(graph.outputs)
            \/ pc = "walking" /\ position > Len(Inputs(node))

\* while (!node_walker.empty()): the node in front is taken from the queue.
Take ==
    /\ LoopOver
    /\ walker # <<>>
    /\ pc' = "walking"
    /\ node' = Head(walker)
    /\ walker' = Tail(walker)
    /\ position' = 1
    /\ UNCHANGED <<graph, depth, schedule, refs>>

\* Mistake: a node that moved down is not walked again.
VisitOnce ==
    /\ pc = "walking"
    /\ position <= Len(Inputs(node))
    /\ LET m == Inputs(node)[position]
           d == depth[node] + 1
       IN  /\ depth' = IF m \in Reached /\ depth[m] >= d THEN depth ELSE WithDepth(m, d)
           /\ walker' = IF m \in Reached THEN walker ELSE Append(walker, m)
    /\ position' = position + 1
    /\ UNCHANGED <<graph, pc, node, schedule, refs>>

\* An input is deeper than the node; whenever its depth is set it is queued.
Visit ==
    /\ pc = "walking"
    /\ position <= Len(Inputs(node))
    /\ LET m == Inputs(node)[position]
           d == depth[node] + 1
       IN  IF m \in Reached /\ depth[m] >= d THEN UNCHANGED <<depth, walker>>
           ELSE depth' = WithDepth(m, d) /\ walker' = Append(walker, m)
    /\ position' = position + 1
    /\ UNCHANGED <<graph, pc, node, schedule, refs>>

\* What std::sort returns: every node once, deeper ones first
IsSchedule(s) ==
    /\ s \in Seq(Reached)
    /\ Range(s) = Reached
    /\ \A i, j \in DOMAIN s : /\ s[i] = s[j] => i = j
                              /\ i < j => depth[s[i]] >= depth[s[j]]

\* Every way to list a set of nodes, the deepest first
DeepestFirst ==
    LET Lists[S \in SUBSET Reached] ==
            IF S = {} THEN {<<>>}
            ELSE UNION {{<<n>> \o s : s \in Lists[S \ {n}]} :
                            n \in {n \in S : \A m \in S : depth[m] <= depth[n]}}
    IN  Lists[Reached]

Schedules == {s \in DeepestFirst : IsSchedule(s)}

Sort ==
    /\ LoopOver
    /\ walker = <<>>
    /\ pc' = "scheduled"
    /\ schedule' \in Schedules
    /\ UNCHANGED <<graph, position, node, depth, walker, refs>>

-----------------------------------------------------------------------------
\* map_node_refs[m], which is empty for a key that is not there yet
RefsOf(m) == IF m \in DOMAIN refs THEN refs[m] ELSE {}

\* One turn of build_node_refs.  Reading map_node_refs[input] creates a
\* missing entry, and insert does not replace an entry that exists.
AddRefs ==
    /\ pc = "scheduled"
    /\ schedule # <<>>
    /\ LET n == Head(schedule)
           found == UNION {{m} \union RefsOf(m) : m \in Range(Inputs(n))}
           read == DOMAIN refs \union Range(Inputs(n))
       IN  refs' = [m \in read \union {n} |-> IF m \in read THEN RefsOf(m) ELSE found]
    /\ schedule' = Tail(schedule)
    /\ UNCHANGED <<graph, pc, position, node, depth, walker>>

Return ==
    /\ pc = "scheduled"
    /\ schedule = <<>>
    /\ pc' = "done"
    /\ UNCHANGED <<graph, position, node, depth, walker, schedule, refs>>

Stop == pc = "done" /\ UNCHANGED vars

Next == Seed \/ Take \/ Visit \/ Sort \/ AddRefs \/ Return \/ Stop

Spec == Init /\ [][Next]_vars

\* list_reference_nodes and build_node_refs are sequential code.
FairSpec == Spec /\ WF_vars(Next)

-----------------------------------------------------------------------------
TypeOK ==
    /\ IsLinked(graph)
    /\ pc \in {"seeding", "walking", "scheduled", "done"}
    /\ position \in Nat \ {0}
    /\ pc = "walking" => node \in Reached
    /\ Reached \subseteq Nodes
    /\ \A n \in Reached : depth[n] \in Nat
    /\ walker \in Seq(Reached)
    /\ schedule \in Seq(Reached)
    /\ DOMAIN refs \subseteq Reached
    /\ \A n \in DOMAIN refs : refs[n] \subseteq Reached

\* The walk is done with the input of n at position i, unless n is queued again.
Settled(n, i) == /\ n \notin Range(walker)
                 /\ pc = "walking" /\ n = node => i < position

(***************************************************************************)
(* The walk: whatever order nodes are reached in, and however often their  *)
(* depth grows, the inputs of every node that is not waiting in the queue  *)
(* are deeper than it, and so come before it in the schedule.              *)
(***************************************************************************)
InputsDeeper ==
    \A n \in Reached : \A i \in DOMAIN Inputs(n) :
        Settled(n, i) => Inputs(n)[i] \in Reached /\ depth[Inputs(n)[i]] > depth[n]

(***************************************************************************)
(* What Compiler!IsGraph requires: the refs of a node are its inputs and   *)
(* the refs of those, and no node is among its own refs.  The second       *)
(* conjunct: no key is ever created by reading it, the insert that would   *)
(* not replace it always inserts.                                          *)
(***************************************************************************)
RefsSolved ==
    /\ \A n \in DOMAIN refs :
          /\ Range(Inputs(n)) \subseteq DOMAIN refs
          /\ refs[n] = UNION {{m} \union refs[m] : m \in Range(Inputs(n))}
          /\ n \notin refs[n]
    /\ pc \in {"scheduled", "done"} => DOMAIN refs = Reached \ Range(schedule)

\* The rest of the schedule is sorted, and nobody's refs are above it.
ScheduleSorted ==
    /\ pc \in {"seeding", "walking"} => schedule = <<>> /\ refs = <<>>
    /\ pc \in {"scheduled", "done"} => walker = <<>>
    /\ \A i, j \in DOMAIN schedule : /\ schedule[i] = schedule[j] => i = j
                                     /\ i < j => depth[schedule[i]] >= depth[schedule[j]]
    /\ \A n \in DOMAIN refs : \A m \in refs[n] : depth[m] > depth[n]

Inductive == TypeOK /\ InputsDeeper /\ RefsSolved /\ ScheduleSorted

\* The walk ends, although nodes are queued again, and so does build_node_refs.
Terminates == <>(pc = "done")
=============================================================================
