-------------------------------- MODULE Inferer --------------------------------
(***************************************************************************)
(* runtime/inferer.cpp: infer walks a graph from a node to its inputs,     *)
(* applies the shape rule of each and keeps the values that it can compute *)
(* in the attribute #value of the node.                                    *)
(*                                                                         *)
(* A graph is a sequence of nodes [op, attr, inputs, value]; inputs come   *)
(* before the nodes that use them, and value is that of a <const>.  The    *)
(* prototypes that a call finds are in its cache; #value stays on the node *)
(* for later calls, which the client makes with other shapes for the       *)
(* parameters.                                                             *)
(***************************************************************************)
EXTENDS ShapeRules

CONSTANTS
  Problems,     \* graphs, each with the shapes its parameters may have
  UnknownSizes, \* what an unknown size may turn out to be
  MaxCalls      \* how often the client calls infer

ASSUME ProblemsAssumption ==
  \A p \in Problems :
    /\ DOMAIN p.graph = 1 .. Len(p.graph)
    /\ \A i \in DOMAIN p.graph : p.graph[i].inputs \in Seq(1 .. i - 1)

VARIABLES
  problem,  \* the graph, and the shapes its parameters may have
  shape,    \* #shape of the parameters
  cache,    \* the prototypes found in this call
  value,    \* #value of every node: {v}, or {} if it has none
  target,   \* the node that the client asked for, or 0 between calls
  calls

vars == <<problem, shape, cache, value, target, calls>>

graph == problem.graph
Nodes == DOMAIN graph
Params == {i \in Nodes : graph[i].op = "<param>"}

-------------------------------------------------------------------------------
(***************************************************************************)
(* The reference: what running the graph gives when the parameters turn    *)
(* out to have the shapes s.  For every node {} if an operator throws, or  *)
(* the prototype it computes and its value, if that does not depend on     *)
(* what the parameters hold.                                               *)
(***************************************************************************)
ShapeOnly == {"_shape", "_dims"} \union PaddingOperators

\* The node as it runs: of these operators' inputs the shapes are enough.
Shown(n) ==
  [n EXCEPT !.val = [k \in DOMAIN n.val |->
     IF n.val[k] = {} /\ n.op \in ShapeOnly THEN {Value(TypeOf(n, k), W(n, k), <<>>)}
     ELSE n.val[k]]]

Ran(n) ==
  IF \A k \in DOMAIN n.in : Known(n, k)
  THEN {[proto |-> One(v.type, v.sizes), value |-> {v}] : v \in Evaluated(n)}
  ELSE {[proto |-> proto, value |-> {}] : proto \in {Computed(n)} \ {Failed}}

Running(s) ==
  LET runs[i \in Nodes] ==
        LET node == graph[i]
            inputs == [k \in DOMAIN node.inputs |-> runs[node.inputs[k]]]
        IN  CASE i \in Params -> {[proto |-> One(node.attr.dtype, s[i]), value |-> {}]}
              [] node.op = "<const>" ->
                   {[proto |-> One(v.type, v.sizes), value |-> {v}] : v \in node.value}
              [] OTHER ->
                   IF \E k \in DOMAIN inputs : inputs[k] = {} THEN {}
                   ELSE UNION {Ran(n) : n \in {Shown(
                          [op |-> node.op, attr |-> node.attr,
                           in |-> [k \in DOMAIN inputs |-> The(inputs[k]).proto],
                           val |-> [k \in DOMAIN inputs |-> The(inputs[k]).value]])}}
  IN  runs

\* The shapes that x may turn out to be
Completions(x) ==
  FoldLeft(LAMBDA ys, size : {Append(y, z) : y \in ys,
                              z \in IF size < 0 THEN UnknownSizes ELSE {size}},
           {<<>>}, x)

Concrete ==
  {s \in [Params -> UNION {Completions(shape[i]) : i \in Params}] :
     \A i \in Params : s[i] \in Completions(shape[i])}

-------------------------------------------------------------------------------
Init ==
  /\ problem \in Problems
  /\ shape \in problem.shapes
  /\ cache = <<>>
  /\ value = [i \in Nodes |-> {}]
  /\ target = 0
  /\ calls = 0

\* The client gives the parameters other shapes.
SetShape(s) ==
  /\ target = 0 /\ calls \in 1 .. MaxCalls - 1
  /\ s # shape
  /\ shape' = s
  /\ cache' = <<>>
  /\ UNCHANGED <<problem, value, target, calls>>

\* infer(node), with a cache of its own
Call(i) ==
  /\ target = 0 /\ calls < MaxCalls
  /\ cache' = <<>>
  /\ target' = i
  /\ calls' = calls + 1
  /\ UNCHANGED <<problem, shape, value>>

-------------------------------------------------------------------------------
get_value(i) == IF graph[i].op = "<const>" THEN graph[i].value ELSE value[i]

\* The node whose turn it is in infer(i): inputs are inferred in order, until one
\* of them is VOID.
Turn ==
  LET turn[i \in Nodes] ==
        LET inputs == graph[i].inputs
            open == {k \in DOMAIN inputs : \/ inputs[k] \notin DOMAIN cache
                                           \/ cache[inputs[k]] = VOID}
        IN  IF open = {} THEN i
            ELSE IF inputs[Min(open)] \in DOMAIN cache THEN i ELSE turn[inputs[Min(open)]]
  IN  turn[target]

Applied(i) ==
  LET inputs == graph[i].inputs
  IN  [op |-> graph[i].op, attr |-> graph[i].attr,
       in |-> [k \in DOMAIN inputs |-> cache[inputs[k]]],
       val |-> [k \in DOMAIN inputs |-> get_value(inputs[k])]]

Blocked(i) == \E k \in DOMAIN graph[i].inputs :
                 graph[i].inputs[k] \in DOMAIN cache /\ cache[graph[i].inputs[k]] = VOID

\* _param and _const, and the rules of the operators, for node i that the rule
\* sees as n
Inferred(i, n) ==
  CASE i \in Params -> One(graph[i].attr.dtype, shape[i])
    [] graph[i].op = "<const>" -> One(The(graph[i].value).type, The(graph[i].value).sizes)
    [] OTHER -> Rule(n)

Either(first, second) == IF first # {} THEN first ELSE second

\* Mistake: a value that was computed before is kept.
infer_value_once(i, n) == IF value[i] # {} THEN value[i] ELSE try_run(n)

\* infer_value: an operator that cannot run leaves the old value.
infer_value(i, n) == Either(try_run(n), value[i])

\* A rule that sets no value leaves it to infer_value.
NewValue(i, n) ==
  IF i \in Params \/ graph[i].op = "<const>" THEN value[i]
  ELSE Either(RuleValue(n), infer_value(i, n))

Remember(i, proto) ==
  /\ cache' = [j \in DOMAIN cache \union {i} |-> IF j = i THEN proto ELSE cache[j]]
  /\ target' = IF i = target THEN 0 ELSE target

\* An input is VOID.
InferNothing(i) ==
  /\ Blocked(i)
  /\ Remember(i, VOID)
  /\ UNCHANGED <<problem, shape, value, calls>>

Infer(i, n) ==
  \E proto \in {Inferred(i, n)} :
    /\ proto # Failed
    /\ Remember(i, proto)
    /\ value' = IF proto = VOID THEN value ELSE [value EXCEPT ![i] = NewValue(i, n)]
    /\ UNCHANGED <<problem, shape, calls>>

\* The rule throws, out of the client's call.
Throw(i, n) ==
  /\ Inferred(i, n) = Failed
  /\ cache' = <<>>
  /\ target' = 0
  /\ UNCHANGED <<problem, shape, value, calls>>

Step ==
  /\ target # 0
  /\ \E i \in {Turn} :
       \/ InferNothing(i)
       \/ ~ Blocked(i) /\ \E n \in {Applied(i)} : Infer(i, n) \/ Throw(i, n)

Next ==
  \/ \E s \in problem.shapes : SetShape(s)
  \/ \E i \in Nodes : Call(i)
  \/ Step

Spec == Init /\ [][Next]_vars

-------------------------------------------------------------------------------
Describes(inferred, proto) ==
  \/ inferred = VOID
  \/ /\ Len(inferred) = Len(proto)
     /\ \A f \in DOMAIN proto :
          /\ inferred[f].type = proto[f].type
          /\ Len(inferred[f].sizes) = Len(proto[f].sizes)
          /\ \A d \in DOMAIN proto[f].sizes :
               inferred[f].sizes[d] < 0 \/ inferred[f].sizes[d] = proto[f].sizes[d]

(***************************************************************************)
(* Whatever the unknown sizes turn out to be, a graph that runs gives the  *)
(* shapes that were inferred for it, and the values: rules and operators   *)
(* are written twice, in other files and in other terms.  A size that was  *)
(* not known stands in a value as -1.                                      *)
(***************************************************************************)
SoundShapes ==
  \A s \in Concrete : \A i \in DOMAIN cache : \A out \in Running(s)[i] : Describes(cache[i], out.proto)

SoundValues ==
  \A s \in Concrete : \A i \in DOMAIN cache :
    \A out \in Running(s)[i] : \A computed \in out.value : \A v \in value[i] :
      cache[i] # VOID =>
        /\ Len(v.data) = Len(computed.data)
        /\ \A e \in DOMAIN v.data : v.data[e] \in {-1, computed.data[e]}

\* If all sizes of the parameters are known, the whole shape of every node that
\* runs is inferred.
ExactShapes ==
  (\A i \in Params : \A d \in DOMAIN shape[i] : shape[i][d] >= 0) =>
    \A s \in Concrete : \A i \in DOMAIN cache : \A out \in Running(s)[i] : cache[i] = out.proto

\* The inferer throws (which ends the call without the target) only where
\* running throws, too.
ThrowsAsRunning ==
  [][target # 0 /\ target' = 0 /\ cache' = <<>> => \A s \in Concrete : Running(s)[Turn] = {}]_vars

(***************************************************************************)
(* With the padding that the operators of the frameworks compute, a window *)
(* goes over the image as often as it does in the framework.               *)
(***************************************************************************)
PaddedSize(d, sides) ==
  conv2d_forward(d.x, sides[1] + sides[2], d.dilation, d.k, d.stride)

PooledSize(d, sides) == pooling2d_forward(d.x, sides[1] + sides[2], d.k, d.stride)

PaddedAsFramework ==
  \A i \in DOMAIN cache : (graph[i].op \in PaddingOperators /\ cache[i] # VOID) =>
    \A v \in value[i] : LET n == Applied(i) IN
      \A d \in Spatial(n) : FrameworkSize(n, d) =
        IF n.op \in ConvPaddings
        THEN PaddedSize(DimAt(n, d), SubSeq(v.data, 2 * d - 1, 2 * d))
        ELSE PooledSize(DimAt(n, d), SubSeq(v.data, 2 * d - 1, 2 * d))
===============================================================================
