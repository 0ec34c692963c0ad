-------------------------- MODULE MCCompiledProgram --------------------------
(***************************************************************************)
(* Small instances of CompiledProgram: every graph with two parameters,    *)
(* a constant and up to three operators of one or two inputs, and graphs   *)
(* with an operator nobody registered.                                     *)
(***************************************************************************)
EXTENDS CompiledProgram, SequencesExt

CONSTANTS a, b, c, f, g, h, u

\* Inputs come before the nodes that use them, so the graphs are acyclic;
\* run_const_nodes leaves no operator whose inputs are all Consts.
ArgumentsFrom(S) == {s \in SeqOf(S, 2) : ~(Range(s) \subseteq Consts)}

BaseWiring == [n \in Nodes |-> IF n \in Operators THEN <<a>> ELSE <<>>]

\* The transitive inputs: an operator uses only those that come before it.
RefsOf(args) ==
    LET Add(refs, n) == [refs EXCEPT ![n] = UNION {{m} \union refs[m] : m \in Range(args[n])}]
    IN  FoldLeft(Add, [n \in Nodes |-> {}], <<f, g, h, u>>)

GraphWith(args, inputs, outputs) ==
    [args |-> args, refs |-> RefsOf(args), inputs |-> inputs, outputs |-> outputs]

Wirings ==
    {[BaseWiring EXCEPT ![f] = argsF, ![g] = argsG] :
        argsF \in ArgumentsFrom({a, b, c}), argsG \in ArgumentsFrom({a, b, c, f})}

DeepWirings ==
    {[wiring EXCEPT ![h] = argsH] :
        wiring \in Wirings, argsH \in {s \in ArgumentsFrom({a, c, f, g}) : g \in Range(s)}}

\* Two operators: every wiring, every one or two outputs that are not only
\* constants; the inputs in either order, or one missing.
SmallGraphs ==
    {GraphWith(args, inputs, outputs) :
        args \in Wirings, inputs \in {<<a, b>>, <<b, a>>, <<a>>},
        outputs \in ArgumentsFrom({a, b, c, f, g}) \ {<<>>}}

\* Nobody registered u: graphs that need it, and graphs that have it.
RejectedGraphs ==
    {GraphWith([BaseWiring EXCEPT ![f] = argsF, ![g] = argsG, ![u] = <<f>>], <<a, b>>, outputs) :
        argsF \in ArgumentsFrom({a, b}), argsG \in ArgumentsFrom({b, f}),
        outputs \in {<<g>>, <<g, u>>, <<u, g>>, <<f, u>>}}

\* Three operators, the last one an output
DeepGraphs ==
    {GraphWith(args, <<b, a>>, outputs) :
        args \in DeepWirings, outputs \in {<<h>>, <<h, f>>, <<h, g>>, <<f, c, h>>}}

AllGraphs == SmallGraphs \union RejectedGraphs \union DeepGraphs

\* Programs with a declared input that nothing uses
UnusedInputGraphs ==
    {GraphWith([BaseWiring EXCEPT ![f] = <<a>>, ![g] = <<f>>], <<a>>, outputs) : outputs \in {<<c>>, <<a>>, <<c, c>>}}
=============================================================================
