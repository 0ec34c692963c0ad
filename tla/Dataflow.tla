------------------------------ MODULE Dataflow ------------------------------
(***************************************************************************)
(* What compiling and running a graph promises, with no stack and no       *)
(* instructions: every operator the outputs need is evaluated once, after  *)
(* the operators it takes its inputs from, no other operator is evaluated, *)
(* and then the values of the outputs are delivered in order.              *)
(***************************************************************************)
EXTENDS Sequences, Functions

CONSTANT Operators    \* the nodes that are computed

VARIABLES
    graph,      \* the graph that is evaluated; never changes
    evaluated,  \* the operators evaluated so far
    answer      \* <<>>, then <<outputs>>

dataflowVars == <<graph, evaluated, answer>>

Needed == Operators \intersect UNION {{n} \union graph.refs[n] : n \in Range(graph.outputs)}

\* The graph is whatever it is.
Init == evaluated = {} /\ answer = <<>>

Evaluate(n) ==
    /\ answer = <<>>
    /\ n \in Needed \ evaluated
    /\ Range(graph.args[n]) \intersect Operators \subseteq evaluated
    /\ evaluated' = evaluated \union {n}
    /\ UNCHANGED <<graph, answer>>

Deliver ==
    /\ answer = <<>>
    /\ evaluated = Needed
    /\ answer' = <<graph.outputs>>
    /\ UNCHANGED <<graph, evaluated>>

Next == Deliver \/ \E n \in Operators : Evaluate(n)

Spec == Init /\ [][Next]_dataflowVars
=============================================================================
