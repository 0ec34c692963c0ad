------------------------------ MODULE Compiler ------------------------------
(***************************************************************************)
(* Compiler::compile (compiler/compiler.cpp): a computation graph becomes  *)
(* a list of stack instructions.                                           *)
(*                                                                         *)
(* The compiler works backwards.  `simulator' is the stack as it must look *)
(* after the instructions that are already emitted (which run later); each *)
(* turn of the loop looks at its top node, emits the instruction that puts *)
(* that node there, and turns the simulator into the stack that            *)
(* instruction needs.  When only Parameter nodes are left the loop ends,   *)
(* the parameters are bound to the program's arguments, and the list is    *)
(* reversed (here: read from its last element to its first).               *)
(*                                                                         *)
(* A graph is what compile works on after Zipper::zip and run_const_nodes. *)
(* Node labels, tensor values and devices are abstracted away: a node is   *)
(* its own value, see CompiledProgram.                                     *)
(***************************************************************************)
EXTENDS StackFrame, FiniteSets, FiniteSetsExt

CONSTANTS
    Parameters,   \* nodes whose op is Bubble::Parameter
    Consts,       \* nodes whose op is Bubble::Const
    Operators,    \* every other node; run_const_nodes rejected the Variables
    Supported,    \* the Operators some creator is registered for
    Graphs        \* the graphs compile may be given, see IsGraph

Nodes == Parameters \union Consts \union Operators

(***************************************************************************)
(* A graph: args is Node::inputs(), refs is what build_node_refs returns,  *)
(* inputs and outputs are the arguments of compile.  Parameters and Consts  *)
(* have no inputs, and run_const_nodes has replaced every operator that    *)
(* needs nothing but Consts.  ProgramCompile!CompilesAGraph says that the  *)
(* passes and build_node_refs establish what is required here.             *)
(***************************************************************************)
IsGraph(g) ==
    /\ g.args \in [Nodes -> Seq(Nodes)]
    /\ g.refs \in [Nodes -> SUBSET Nodes]
    /\ \A n \in Nodes :
          /\ g.refs[n] = UNION {{m} \union g.refs[m] : m \in Range(g.args[n])}
          /\ n \notin g.refs[n]
          /\ n \notin Operators => g.args[n] = <<>>
          /\ n \in Operators => ~(Range(g.args[n]) \subseteq Consts)
    /\ g.inputs \in Seq(Parameters)
    /\ g.outputs \in Seq(Nodes)

ASSUME KindsAssumption ==
    /\ Parameters \intersect Consts = {}
    /\ Parameters \intersect Operators = {}
    /\ Consts \intersect Operators = {}
    /\ Supported \subseteq Operators

ASSUME GraphsAssumption == \A g \in Graphs : IsGraph(g)

VARIABLES
    graph,      \* the graph being compiled; never changes
    phase,      \* "compiling", "compiled" or "failed" (an exception left compile)
    simulator,  \* the stack wanted by the instructions emitted so far
    working,    \* working_nodes: node -> the index it is tracked at, or Untracked
    unsolved,   \* unsolved_node_count
    code,       \* block.instructions before the final reverse
    data        \* block.data_segment; also map_node_data_sagment_index

compilerVars == <<graph, phase, simulator, working, unsolved, code, data>>

Untracked == -1

PushOf(i)      == [op |-> "push", at |-> i]
SwapOf(i, j)   == [op |-> "swap", at |-> i, with |-> j]
DataOf(i)      == [op |-> "data", at |-> i]
CallOf(n)      == [op |-> "call", node |-> n]
EraseOf(i, j)  == [op |-> "erase", at |-> i, end |-> j]

Instructions ==
    [op : {"push"}, at : Nat] \union [op : {"swap"}, at : Nat, with : Nat]
        \union [op : {"data"}, at : Nat] \union [op : {"call"}, node : Operators]
        \union [op : {"erase"}, at : {0}, end : Int]

-----------------------------------------------------------------------------
Size == Len(simulator)
Top == simulator[Size]
Below == SubSeq(simulator, 1, Size - 1)

\* The indices at which simulator_push puts node n while `pushed' is pushed
\* on a simulator of `size' nodes.
NewIndices(size, pushed, n) ==
    {size + k - 1 : k \in {k \in DOMAIN pushed : pushed[k] = n}}

\* Mistake: a node keeps the last index it was pushed at.
TrackLast(track, size, pushed) ==
    [n \in Nodes |->
        LET indices == NewIndices(size, pushed, n) \union ({track[n]} \ {Untracked})
        IN  IF indices = {} THEN Untracked ELSE Max(indices)]

\* working_nodes after simulator_push of every node of `pushed', in order:
\* a node keeps the smallest index it was pushed at.
Track(track, size, pushed) ==
    [n \in Nodes |->
        LET indices == NewIndices(size, pushed, n) \union ({track[n]} \ {Untracked})
        IN  IF indices = {} THEN Untracked ELSE Min(indices)]

\* working_nodes after simulator_pop
Untrack(track, top, index) ==
    IF track[top] = index THEN [track EXCEPT ![top] = Untracked] ELSE track

\* working_nodes after simulator_swap of node n at i and node m at j: the
\* second test reads the entry the first assignment may have written.
Retrack(track, n, i, m, j) ==
    LET first == IF track[n] = i THEN [track EXCEPT ![n] = j] ELSE track
    IN  IF first[m] = j THEN [first EXCEPT ![m] = i] ELSE first

\* working_nodes is right for a simulator: it holds exactly the nodes that
\* occur there, each with the lowest index it occurs at.
Tracked(track, nodes) ==
    \A n \in Nodes :
        LET at == {p \in DOMAIN nodes : nodes[p] = n}
        IN  track[n] = IF at = {} THEN Untracked ELSE Min(at) - 1

\* unsolved_node_count is this number for the simulator
UnsolvedIn(nodes) == Cardinality({k \in DOMAIN nodes : nodes[k] \notin Parameters})

\* p is the last position of the simulator whose node satisfies a condition
IsLast(p, positions) == p \in positions /\ \A q \in positions : q <= p

\* Mistake: only a direct use keeps a node waiting.
DirectRefPositions(n) == {p \in DOMAIN simulator : n \in Range(graph.args[simulator[p]])}

\* simulator_find_last_unsolved_node_index and
\* simulator_find_last_ref_node_index look among these positions
UnsolvedPositions == {p \in DOMAIN simulator : simulator[p] \notin Parameters}
RefPositions(n) == {p \in DOMAIN simulator : n \in graph.refs[simulator[p]]}

-----------------------------------------------------------------------------
\* DataSegmentInstruction index of a Const node: push_data_sagment appends its
\* value to the data segment unless the node already has an index.
DataWith(n)    == IF n \in Range(data) THEN data ELSE Append(data, n)
DataIndex(n)   == CHOOSE d \in 0 .. Len(DataWith(n)) - 1 : DataWith(n)[d + 1] = n

\* simulator.pop_back with its bookkeeping, then simulator_push of `pushed'
ReplaceTop(pushed) ==
    /\ simulator' = Below \o pushed
    /\ working' = Track(Untrack(working, Top, Size - 1), Size - 1, pushed)
    /\ unsolved' = unsolved - UnsolvedIn(<<Top>>) + UnsolvedIn(pushed)

\* emit swap(i, j) for the top i and the node at position p (1-based)
SwapTopWith(p) ==
    /\ simulator' = Swap(simulator, 0, Size - 1, p - 1)
    /\ working' = Retrack(working, Top, Size - 1, simulator[p], p - 1)
    /\ code' = Append(code, SwapOf(Size - 1, p - 1))
    /\ UNCHANGED <<graph, phase, unsolved, data>>

\* Mistake: the error is logged and not thrown.
FailSilently == UNCHANGED compilerVars

\* TS_LOG_ERROR << ... << eject
Fail == /\ phase' = "failed"
        /\ UNCHANGED <<graph, simulator, working, unsolved, code, data>>

InitOn(g) ==
    /\ graph = g
    /\ phase = "compiling"
    /\ simulator = g.outputs
    /\ working = Track([n \in Nodes |-> Untracked], 0, g.outputs)
    /\ unsolved = UnsolvedIn(g.outputs)
    /\ code = <<>>
    /\ data = <<>>

CompilerInit == \E g \in Graphs : InitOn(g)

Looping == phase = "compiling" /\ unsolved > 0

\* The node on top is also wanted lower down.
IsDuplicate == working[Top] # Untracked /\ working[Top] < Size - 1

\* case1: the node is on the stack already, copy it from there.
CopyDuplicate ==
    /\ Looping
    /\ IsDuplicate
    /\ code' = Append(code, PushOf(working[Top]))
    /\ ReplaceTop(<<>>)
    /\ UNCHANGED <<graph, phase, data>>

\* case2-0: a Const comes from the data segment.
LoadConst ==
    /\ Looping
    /\ ~IsDuplicate
    /\ Top \in Consts
    /\ code' = Append(code, DataOf(DataIndex(Top)))
    /\ data' = DataWith(Top)
    /\ ReplaceTop(<<>>)
    /\ UNCHANGED <<graph, phase>>

\* case2: a Parameter stays; the last unsolved node takes its place on top.
\* There is one, TS_AUTO_CHECK(j >= 0): otherwise no action is enabled here.
SinkParameter ==
    /\ Looping
    /\ ~IsDuplicate
    /\ Top \in Parameters
    /\ \E p \in DOMAIN simulator : IsLast(p, UnsolvedPositions) /\ SwapTopWith(p)

\* case3: another node still needs this one, work on that node first.
PostponeReferenced ==
    /\ Looping
    /\ ~IsDuplicate
    /\ Top \in Operators
    /\ \E p \in DOMAIN simulator : IsLast(p, RefPositions(Top)) /\ SwapTopWith(p)

\* case4: compute the node here, from its inputs.
EmitOperator ==
    /\ Looping
    /\ ~IsDuplicate
    /\ Top \in Supported
    /\ RefPositions(Top) = {}
    /\ code' = Append(code, CallOf(Top))
    /\ ReplaceTop(graph.args[Top])
    /\ UNCHANGED <<graph, phase, data>>

\* convert_operator_instruction finds no creator and throws.
RejectOperator ==
    /\ Looping
    /\ ~IsDuplicate
    /\ Top \in Operators \ Supported
    /\ RefPositions(Top) = {}
    /\ Fail

-----------------------------------------------------------------------------
\* After the loop: every remaining node must be an argument of the program.
LoopEnded == phase = "compiling" /\ unsolved = 0


RejectInputs ==
    /\ LoopEnded
    /\ ~(Range(simulator) \subseteq Range(graph.inputs))
    /\ Fail

Satisfied ==
    /\ LoopEnded
    /\ simulator = graph.inputs
    /\ phase' = "compiled"
    /\ UNCHANGED <<graph, simulator, working, unsolved, code, data>>

\* working_input_nodes: an input is mapped to the number of entries the map
\* had when it was first inserted, which is its position only as long as
\* no earlier input occurs twice.
FirstPosition(n) == CHOOSE p \in DOMAIN graph.inputs :
    graph.inputs[p] = n /\ \A q \in 1 .. p - 1 : graph.inputs[q] # n

InputIndex(n) == Cardinality({p \in 1 .. FirstPosition(n) - 1 :
                                 FirstPosition(graph.inputs[p]) = p})

\* Mistake: the pushes in the order they run.
BindingCodeForward ==
    [k \in 1 .. Size + 1 |-> IF k = 1 THEN EraseOf(0, -Size)
                             ELSE PushOf(InputIndex(simulator[k - 1]))]

\* The instructions that turn the arguments into the simulator, last to run
\* first: erase(0, -size), and a push for each node from the top down.
BindingCode ==
    [k \in 1 .. Size + 1 |-> IF k = 1 THEN EraseOf(0, -Size)
                             ELSE PushOf(InputIndex(simulator[Size + 2 - k]))]

\* Mistake: the arguments are left below the nodes pushed for them.
BindInputsNoErase ==
    /\ LoopEnded
    /\ Range(simulator) \subseteq Range(graph.inputs)
    /\ simulator # graph.inputs
    /\ code' = code \o Tail(BindingCode)
    /\ simulator' = graph.inputs
    /\ phase' = "compiled"
    /\ UNCHANGED <<graph, working, unsolved, data>>

BindInputs ==
    /\ LoopEnded
    /\ Range(simulator) \subseteq Range(graph.inputs)
    /\ simulator # graph.inputs
    /\ code' = code \o BindingCode
    /\ simulator' = graph.inputs
    /\ phase' = "compiled"
    /\ UNCHANGED <<graph, working, unsolved, data>>

Turn == CopyDuplicate \/ LoadConst \/ SinkParameter
            \/ PostponeReferenced \/ EmitOperator \/ RejectOperator

CompilerNext == Turn \/ RejectInputs \/ Satisfied \/ BindInputs
=============================================================================
