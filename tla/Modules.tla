--------------------------------- MODULE Modules ---------------------------------
(***************************************************************************)
(* Modules (module/module.cpp): a graph with inputs and outputs.  How one  *)
(* is made of a graph, how its inputs are sorted, and how several are      *)
(* joined into one along routes from outputs to inputs (Module::Fusion).   *)
(*                                                                         *)
(* A function that can throw is the set of what it may return.  Fusion     *)
(* takes one route per action; it copies the nodes that a route's output   *)
(* needs, each node once, and what stands for the routed input is linked   *)
(* to them before anything that needs the input is copied.                 *)
(***************************************************************************)
EXTENDS Integers, Sequences, FiniteSets, Functions, SequencesExt

CONSTANTS
    ParamOp,    \* Bubble::Parameter
    ConstOp,    \* Bubble::Const
    CopyOp,     \* name::layer::copy()
    Fusions     \* what Fusion may be called with: see Init

VARIABLES
    subs,       \* the modules that are joined
    routes,     \* the routes Fusion was given
    followed,         \* the number of routes it has followed
    linked,     \* linked_nodes, which cloned_nodes agrees with: node -> its clone
    fused,      \* the graph that is built
    result      \* Pending, Thrown, or Made(the module)

fusionVars == <<subs, routes, followed, linked, fused, result>>

Pending == [is |-> "pending"]
Thrown  == [is |-> "thrown"]
Made(mod) == [is |-> "made", module |-> mod]
Outcomes(mods) == IF mods = {} THEN {Thrown} ELSE {Made(mod) : mod \in mods}

\* Graphs are functions on their nodes: bubbles, with op and name, and links.
Module(g, ins, outs) == [bubbles |-> g.bubbles, links |-> g.links, inputs |-> ins, outputs |-> outs]
Graph(bubbles, links) == [bubbles |-> bubbles, links |-> links]
Nodes(g) == DOMAIN g.bubbles
IsParam(g, n) == g.bubbles[n].op = ParamOp
IsEndPoint(g, n) == g.bubbles[n].op \in {ParamOp, ConstOp}

-----------------------------------------------------------------------------
RECURSIVE WalkFrom(_, _, _)
WalkFrom(g, walked, front) ==
    IF front = {} THEN walked
    ELSE LET seen == walked \union front
             next == UNION {Range(g.links[n]) : n \in {m \in front : m \in Nodes(g) /\ ~IsEndPoint(g, m)}}
         IN  WalkFrom(g, seen, next \ seen)

\* The walk of graph_walker: every node the outputs need
Needed(g, outs) == WalkFrom(g, {}, Range(outs))

IsComputable(g, n) == n \in Nodes(g) /\ (IsEndPoint(g, n) \/ g.links[n] # <<>>)

\* load(g, outputs): the parameters come out of an unordered set.
load(g, outs) ==
    IF \E n \in Needed(g, outs) : ~IsComputable(g, n) THEN {}
    ELSE {Module(g, ins, outs) : ins \in SetToSeqs({n \in Needed(g, outs) : IsParam(g, n)})}

Named(g, name) == {n \in Nodes(g) : g.bubbles[n].name = name}

\* load(g, names): every name must be there, and once.
load_named(g, names) ==
    IF \E name \in Range(names) : Cardinality(Named(g, name)) # 1 THEN {}
    ELSE load(g, [i \in DOMAIN names |-> CHOOSE n \in Named(g, names[i]) : TRUE])

\* Mistake: the inputs there are need not be among the sorted ones.
sort_anyway(mod, ins) == {[mod EXCEPT !.inputs = ins]}

\* sort_inputs(nodes): there may be more of them, or some twice.
sort_inputs(mod, ins) ==
    {m \in {[mod EXCEPT !.inputs = ins]} : Range(mod.inputs) \subseteq Range(ins)}

InputsNamed(mod, name) == {n \in Range(mod.inputs) : mod.bubbles[n].name = name}

\* sort_inputs(names): the names of the inputs differ, and all are used.
sort_named(mod, names) ==
    IF \/ \E n \in Range(mod.inputs) : InputsNamed(mod, mod.bubbles[n].name) # {n}
       \/ \E i, j \in DOMAIN mod.inputs : i # j /\ mod.inputs[i] = mod.inputs[j]
       \/ {mod.bubbles[n].name : n \in Range(mod.inputs)} # Range(names)
    THEN {}
    ELSE {[mod EXCEPT !.inputs = [i \in DOMAIN names |-> CHOOSE n \in InputsNamed(mod, names[i]) : TRUE]]}

-----------------------------------------------------------------------------
\* Fusion.  The constructor of Route forgets its last argument.
Route(in, in_out_slot, out, out_in_slot) ==
    [in |-> in, in_out_slot |-> in_out_slot, out |-> out, out_in_slot |-> 0]

FusionInit ==
    /\ \E f \in Fusions : subs = f.subs /\ routes = f.routes
    /\ followed = 0
    /\ linked = <<>>
    /\ fused = Graph(<<>>, <<>>)
    /\ result = Pending

\* Slots and modules are counted from 0; a slot below 0 means the only one.
InRange(slot, s) == slot < Len(s) /\ (slot < 0 => Len(s) <= 1)
IsRoute(r) ==
    /\ {r.in, r.out} \subseteq 0 .. Len(subs) - 1
    /\ InRange(r.in_out_slot, subs[r.in + 1].outputs)
    /\ InRange(r.out_in_slot, subs[r.out + 1].inputs)

SlotOf(slot, s) == s[(IF slot < 0 THEN 0 ELSE slot) + 1]
NodeOut(r) == SlotOf(r.in_out_slot, subs[r.in + 1].outputs)
NodeIn(r)  == SlotOf(r.out_in_slot, subs[r.out + 1].inputs)
InsOf(rs)  == {NodeIn(r) : r \in Range(rs)}
OutsOf(rs) == {NodeOut(r) : r \in Range(rs)}

\* What is not routed, in the order of the modules
Unrouted(seqs, S) == SelectSeq(FlattenSeq(seqs), LAMBDA n : n \notin S)
InputsLeft(rs)    == Unrouted([i \in DOMAIN subs |-> subs[i].inputs], InsOf(rs))
OutputsLeft(rs)   == Unrouted([i \in DOMAIN subs |-> subs[i].outputs], OutsOf(rs))

\* The bubble and the inputs of a node, in whichever module it is.
Owner(n) == CHOOSE m \in Range(subs) : n \in Nodes(m)
Links(n) == Owner(n).links[n]
BubbleOf(n) == Owner(n).bubbles[n]

RECURSIVE UnlinkedFrom(_, _, _)
UnlinkedFrom(old, found, front) ==
    IF front = {} THEN found
    ELSE LET seen == found \union front
             next == UNION {Range(Links(n)) : n \in front}
         IN  UnlinkedFrom(old, seen, (next \ seen) \ old)

\* The nodes clone_graph(outs) has to copy: it stops at what is linked.
ToClone(outs) == UnlinkedFrom(DOMAIN linked, {}, Range(outs) \ DOMAIN linked)

Dolly(n) == <<"clone", n>>
Copied(i) == <<"copy", i>>

\* linked_nodes after clone_graph(outs)
LinkedWith(outs) == linked @@ [n \in ToClone(outs) |-> Dolly(n)]

\* The graph with the copies; their inputs are what is linked to the inputs.
CloneGraph(outs) ==
    LET new == ToClone(outs)
        all == LinkedWith(outs)
    IN  Graph(fused.bubbles @@ [d \in {Dolly(n) : n \in new} |-> BubbleOf(d[2])],
              fused.links @@ [d \in {Dolly(n) : n \in new} |->
                                 [i \in DOMAIN Links(d[2]) |-> all[Links(d[2])[i]]]])

\* Mistake: the routed input is not linked to the copy.
LinkRouteOnly ==
    /\ result = Pending /\ followed < Len(routes)
    /\ LET r == routes[followed + 1]
       IN  /\ IsRoute(r)
           /\ linked' = LinkedWith(<<NodeOut(r)>>)
           /\ fused' = CloneGraph(<<NodeOut(r)>>)
    /\ followed' = followed + 1
    /\ UNCHANGED <<subs, routes, result>>

\* A copy operator, named as the input, of the clone of the output.  insert
\* leaves an input that was cloned before what it was.
LinkRoute ==
    /\ result = Pending /\ followed < Len(routes)
    /\ LET r    == routes[followed + 1]
           all  == LinkedWith(<<NodeOut(r)>>)
           grown == CloneGraph(<<NodeOut(r)>>)
           copy == Copied(followed + 1)
       IN  /\ IsRoute(r)
           /\ linked' = all @@ (NodeIn(r) :> copy)
           /\ fused' = Graph(grown.bubbles @@ (copy :> [op |-> CopyOp, name |-> BubbleOf(NodeIn(r)).name]),
                             grown.links @@ (copy :> <<all[NodeOut(r)]>>))
    /\ followed' = followed + 1
    /\ UNCHANGED <<subs, routes, result>>

InvalidRoute ==
    /\ result = Pending /\ followed < Len(routes)
    /\ ~IsRoute(routes[followed + 1])
    /\ result' = Thrown
    /\ UNCHANGED <<subs, routes, followed, linked, fused>>

FreeInputs  == InputsLeft(routes)
FreeOutputs == OutputsLeft(routes)

\* cloned_nodes.at(input) throws for an input that nothing needed.
Joined ==
    LET all  == LinkedWith(FreeOutputs)
        outs == [i \in DOMAIN FreeOutputs |-> all[FreeOutputs[i]]]
    IN  IF ~(Range(FreeInputs) \subseteq DOMAIN all) THEN {}
        ELSE UNION {sort_inputs(m, [i \in DOMAIN FreeInputs |-> all[FreeInputs[i]]]) :
                       m \in load(CloneGraph(FreeOutputs), outs)}

Join ==
    /\ result = Pending /\ followed = Len(routes)
    /\ linked' = LinkedWith(FreeOutputs)
    /\ fused' = CloneGraph(FreeOutputs)
    /\ \E mods \in {Joined} : result' \in Outcomes(mods)
    /\ UNCHANGED <<subs, routes, followed>>

FusionNext == LinkRoute \/ InvalidRoute \/ Join

-----------------------------------------------------------------------------
\* What a module computes: terms over the values of its parameters.
RECURSIVE ValueOf(_, _, _)
ValueOf(g, n, arg) ==
    LET b == g.bubbles[n]
    IN  CASE b.op = ParamOp -> arg[n]
          [] b.op = ConstOp -> <<"data", b>>
          [] b.op = CopyOp  -> ValueOf(g, g.links[n][1], arg)
          [] OTHER -> <<b, [i \in DOMAIN g.links[n] |-> ValueOf(g, g.links[n][i], arg)]>>

\* Routed along rs: an input is the output that is routed to it.
RECURSIVE RoutedValue(_, _)
RoutedValue(rs, n) ==
    IF n \in InsOf(rs) THEN RoutedValue(rs, NodeOut(CHOOSE r \in Range(rs) : NodeIn(r) = n))
    ELSE LET b == BubbleOf(n)
         IN  CASE b.op = ParamOp -> <<"input", n>>
               [] b.op = ConstOp -> <<"data", b>>
               [] OTHER -> <<b, [i \in DOMAIN Links(n) |-> RoutedValue(rs, Links(n)[i])]>>

NeededBy(n) == UnlinkedFrom({}, {}, {n})

\* Everything the outputs that are left need, through the routes
RECURSIVE NeededAlong(_, _, _)
NeededAlong(rs, found, front) ==
    IF front = {} THEN found
    ELSE LET seen == found \union front
             next == UNION {Range(Links(n)) : n \in front}
                       \union {NodeOut(r) : r \in {q \in Range(rs) : NodeIn(q) \in front}}
         IN  NeededAlong(rs, seen, next \ seen)

\* What Fusion asks of its routes: if what an output needs is routed at all, it
\* is routed before the output is, and every input that is left is needed.
IsInOrder(rs) ==
    LET needed == NeededAlong(rs, {}, Range(OutputsLeft(rs)))
    IN  \A i, j \in DOMAIN rs :
           NodeIn(rs[i]) \in needed /\ i <= j => NodeIn(rs[j]) \notin NeededBy(NodeOut(rs[i]))
CanFuse(rs) ==
    /\ \A r \in Range(rs) : IsRoute(r)
    /\ IsInOrder(rs)
    /\ \A n \in Range(InputsLeft(rs)) :
          \E out \in OutsOf(rs) \union Range(OutputsLeft(rs)) : n \in NeededBy(out)

\* The module has the inputs and outputs that are left, and computes the routed value.
Joins(mod, rs) ==
    LET ins  == InputsLeft(rs)
        outs == OutputsLeft(rs)
        arg  == [n \in Range(mod.inputs) |-> <<"input", ins[CHOOSE i \in DOMAIN ins : mod.inputs[i] = n]>>]
    IN  /\ Len(mod.inputs) = Len(ins)
        /\ Len(mod.outputs) = Len(outs)
        /\ \A i \in DOMAIN outs : ValueOf(mod, mod.outputs[i], arg) = RoutedValue(rs, outs[i])

\* Fusion throws for routes it cannot follow, and only for them; otherwise the
\* module is the composition along its routes, although nodes are shared and
\* copies are remembered from one route to the next.
FusesAsRouted ==
    /\ result = Thrown => ~CanFuse(routes)
    /\ result.is = "made" => CanFuse(routes) /\ Joins(result.module, routes)
=============================================================================
