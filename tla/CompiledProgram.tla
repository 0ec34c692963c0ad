--------------------------- MODULE CompiledProgram ---------------------------
(***************************************************************************)
(* A compiled block and the run of it: Compiler::compile followed by the   *)
(* instruction loop of Workbench::launch_online on the block it returned.  *)
(*                                                                         *)
(* A tensor on the stack is represented by the node whose value it is.  An *)
(* operator that finds anything but the values of its inputs in its frame  *)
(* computes Garbage.                                                       *)
(*                                                                         *)
(* `trail' is a history variable that the code does not have: the stack    *)
(* the compiler expects before (and, for the first, after) each emitted    *)
(* instruction.  It states what the compiler means by the code it emits.   *)
(***************************************************************************)
EXTENDS Compiler

CONSTANT Garbage
ASSUME GarbageAssumption == Garbage \notin Nodes

Values == Nodes \union {Garbage}

VARIABLES
    trail,      \* trail[1] = outputs; trail[k + 1] is expected before code[k]
    run,        \* "idle", "running", "returned" or "threw"
    stack,      \* m_stack of the workbench, base 0
    remaining,  \* length - pointer: instructions still to run, code[remaining] next
    evaluated   \* the operator nodes that have been run

runVars == <<run, stack, remaining, evaluated>>
vars == <<compilerVars, trail, runVars>>

-----------------------------------------------------------------------------
\* OperatorInstruction::run of node n, whose inputs are `arguments'
ResultOf(n, arguments, cells) ==
    IF TopCells(cells, Len(arguments)) = arguments THEN n ELSE Garbage

\* Instruction::run of each kind of instruction the compiler emits, in a
\* program with the given Node::inputs() and data segment
Execute(ins, cells, args, segment) ==
    CASE ins.op = "push"  -> PushIndex(cells, 0, ins.at)
      [] ins.op = "swap"  -> Swap(cells, 0, ins.at, ins.with)
      [] ins.op = "data"  -> Append(cells, segment[ins.at + 1])
      [] ins.op = "call"  -> ReplaceArguments(cells, 0, Len(args[ins.node]),
                                 ResultOf(ins.node, args[ins.node], cells))
      [] ins.op = "erase" -> EraseRange(cells, 0, ins.at, ins.end)

\* deque::at does not throw, TS_AUTO_CHECK(stack.size() >= m_nargs) holds
CanExecute(ins, cells, args, segment) ==
    CASE ins.op = "push"  -> Valid(cells, 0, ins.at)
      [] ins.op = "swap"  -> Valid(cells, 0, ins.at) /\ Valid(cells, 0, ins.with)
      [] ins.op = "data"  -> ins.at < Len(segment)
      [] ins.op = "call"  -> Len(args[ins.node]) <= Len(cells)
      [] ins.op = "erase" -> Absolute(cells, 0, ins.end) \in 0 .. Len(cells)

-----------------------------------------------------------------------------
Init ==
    /\ CompilerInit
    /\ trail = <<simulator>>
    /\ run = "idle"
    /\ stack = <<>>
    /\ remaining = 0
    /\ evaluated = {}

\* The stacks expected before erase(0, -size) and before each binding push
BindingTrail ==
    [k \in 1 .. Size + 1 |-> graph.inputs \o SubSeq(simulator, 1, Size + 1 - k)]

CompileTurn == /\ Turn
               /\ trail' = IF code' = code THEN trail ELSE Append(trail, simulator')
               /\ UNCHANGED runVars

CompileEnd == /\ \/ RejectInputs /\ UNCHANGED trail
                 \/ Satisfied /\ UNCHANGED trail
                 \/ BindInputs /\ trail' = trail \o BindingTrail
              /\ UNCHANGED runVars

\* launch_online: the arguments are on the stack, one per declared input
Launch ==
    /\ phase = "compiled"
    /\ run = "idle"
    /\ run' = "running"
    /\ stack' = graph.inputs
    /\ remaining' = Len(code)
    /\ UNCHANGED <<compilerVars, trail, evaluated>>

Instruction == code[remaining]

RunInstruction ==
    /\ run = "running"
    /\ remaining > 0
    /\ CanExecute(Instruction, stack, graph.args, data)
    /\ stack' = Execute(Instruction, stack, graph.args, data)
    /\ remaining' = remaining - 1
    /\ evaluated' = IF Instruction.op = "call" THEN evaluated \union {Instruction.node}
                                              ELSE evaluated
    /\ UNCHANGED <<compilerVars, trail, run>>

\* The loop ends; launch_online checks that it has as many tensors as outputs.
Return ==
    /\ run = "running"
    /\ remaining = 0
    /\ run' = IF Len(stack) = Len(graph.outputs) THEN "returned" ELSE "threw"
    /\ UNCHANGED <<compilerVars, trail, stack, remaining, evaluated>>

\* compile threw, or launch_online returned or threw
Ended == phase = "failed" \/ run \in {"returned", "threw"}

Stop == /\ Ended
        /\ UNCHANGED vars

Next == CompileTurn \/ CompileEnd \/ Launch \/ RunInstruction \/ Return \/ Stop

Spec == Init /\ [][Next]_vars

\* compile and launch_online are sequential code: they take their next step.
FairSpec == Spec /\ WF_vars(Next)

-----------------------------------------------------------------------------
\* The nodes of a sequence and everything they are made of
WantedIn(g, nodes) == UNION {{n} \union g.refs[n] : n \in Range(nodes)}
Wanted(nodes) == WantedIn(graph, nodes)
Reachable == Wanted(graph.outputs)

\* What the binding code relies on: the declared inputs are distinct, and if
\* there are any the outputs depend on some Parameter (`erase(0, -0)' would
\* erase nothing).
IsBindable(g) ==
    /\ \A p, q \in DOMAIN g.inputs : g.inputs[p] = g.inputs[q] => p = q
    /\ g.inputs # <<>> => WantedIn(g, g.outputs) \intersect Parameters # {}
Bindable == IsBindable(graph)

TypeOK ==
    /\ IsGraph(graph)
    /\ phase \in {"compiling", "compiled", "failed"}
    /\ simulator \in Seq(Nodes)
    /\ working \in [Nodes -> Nat \union {Untracked}]
    /\ unsolved \in Nat
    /\ code \in Seq(Instructions)
    /\ data \in Seq(Consts)
    /\ trail \in Seq(Seq(Nodes))
    /\ run \in {"idle", "running", "returned", "threw"}
    /\ stack \in Seq(Values)
    /\ remaining \in Nat
    /\ evaluated \subseteq Operators

(***************************************************************************)
(* While the loop runs, working_nodes is right for the simulator and       *)
(* unsolved_node_count counts the occurrences that are no Parameters.      *)
(* simulator_pop forgets a node only when the tracked occurrence goes, and *)
(* simulator_swap moves only the tracked one: both are right only because  *)
(* a node that moves is never left duplicated above its tracked index.     *)
(***************************************************************************)
TrackedIsFirst == phase = "compiling" => Tracked(working, simulator)
UnsolvedIsExact == phase = "compiling" => unsolved = UnsolvedIn(simulator)

(***************************************************************************)
(* The code computes no operator twice, whatever the sharing in the graph: *)
(* the answer to the TODO `checking if there are some repeating computing  *)
(* branch' in compile.                                                     *)
(***************************************************************************)
ComputedOnce ==
    \A k, l \in DOMAIN code :
        code[k].op = "call" /\ code[k] = code[l] => k = l

(***************************************************************************)
(* compile throws only for an operator nobody registered or a Parameter    *)
(* that is not a declared input, and accepts no graph that has one.        *)
(***************************************************************************)
Unsupported ==
    \/ Reachable \intersect (Operators \ Supported) # {}
    \/ ~(Reachable \intersect Parameters \subseteq Range(graph.inputs))

FailsExactly ==
    /\ phase = "failed" => Unsupported
    /\ phase = "compiled" => ~Unsupported

(***************************************************************************)
(* Every instruction of the loop finds the stack the compiler had in mind  *)
(* when it emitted it, so indices are in range and operators get exactly   *)
(* their inputs, in order.                                                 *)
(***************************************************************************)
RunFollowsTrail ==
    Bindable /\ run # "idle" => /\ stack = trail[remaining + 1]
                                /\ remaining > 0 => CanExecute(Instruction, stack, graph.args, data)

(***************************************************************************)
(* The program returns the values of the outputs, in order, having run     *)
(* every operator they need and no other.                                  *)
(***************************************************************************)
ReturnsOutputs ==
    Bindable /\ run \in {"returned", "threw"} =>
        /\ run = "returned"
        /\ stack = graph.outputs
        /\ evaluated = Reachable \intersect Operators

(***************************************************************************)
(* The check at the end of launch_online (`Got unexpected output number')  *)
(* never fails.  compile's erase(0, -0) breaks it: the outputs need no     *)
(* Parameter, but an input is declared.                                    *)
(***************************************************************************)
OutputCountExpected == run # "threw"

(***************************************************************************)
(* Every Const is stored once and is one the outputs need (the memo of     *)
(* push_data_sagment), although it may be loaded many times.               *)
(***************************************************************************)
DataStoredOnce ==
    /\ \A d, e \in DOMAIN data : data[d] = data[e] => d = e
    /\ phase = "compiled" => Range(data) = Reachable \intersect Consts

-----------------------------------------------------------------------------
(***************************************************************************)
(* The inductive invariant.  It says what the emitted code means (Meant),  *)
(* which nodes the code and the data segment hold already (Sound), that    *)
(* what is missing is still wanted by the simulator (Complete) and, while  *)
(* the loop runs, that nothing is wanted twice (the third conjunct of      *)
(* LoopInvariant: an operator is emitted only when nothing left needs it). *)
(***************************************************************************)
CalledFrom(k) == {n \in Operators : \E l \in DOMAIN code : k <= l /\ code[l] = CallOf(n)}
Called == CalledFrom(1)

LoopInvariant ==
    phase = "compiling" =>
        /\ Tracked(working, simulator)
        /\ unsolved = UnsolvedIn(simulator)
        /\ Called \intersect Wanted(simulator) = {}
        /\ Wanted(simulator) \subseteq Reachable
        /\ trail[Len(trail)] = simulator

Sound ==
    /\ Called \subseteq Reachable \intersect Supported
    /\ Range(data) \subseteq Reachable

Complete ==
    /\ Reachable \subseteq Called \union Range(data) \union Wanted(simulator)
    /\ phase = "compiled" => simulator = graph.inputs /\ trail[Len(trail)] = graph.inputs

Meant ==
    /\ Len(trail) = Len(code) + 1
    /\ trail[1] = graph.outputs
    /\ phase = "compiling" \/ Bindable =>
          \A k \in DOMAIN code : /\ CanExecute(code[k], trail[k + 1], graph.args, data)
                                 /\ Execute(code[k], trail[k + 1], graph.args, data) = trail[k]

RunInvariant ==
    /\ run = "idle" => evaluated = {}
    /\ run # "idle" => /\ phase = "compiled"
                       /\ remaining <= Len(code)
                       /\ evaluated = CalledFrom(remaining + 1)
                       /\ run \in {"returned", "threw"} => remaining = 0
                       /\ run = "threw" => Len(stack) # Len(graph.outputs)
                       /\ Bindable => /\ stack = trail[remaining + 1]
                                      /\ Range(stack) \intersect Operators \subseteq evaluated

Inductive ==
    /\ TypeOK
    /\ LoopInvariant
    /\ Sound
    /\ Complete
    /\ Meant
    /\ ComputedOnce
    /\ DataStoredOnce
    /\ FailsExactly
    /\ RunInvariant

\* Compilation ends although swaps emit code without shrinking the simulator,
\* and the program returns.
Terminates == <>Ended

(***************************************************************************)
(* Compiling and running implements the evaluation of the graph, for       *)
(* graphs that are Bindable.                                               *)
(***************************************************************************)
Answer == IF run = "returned" THEN <<stack>> ELSE <<>>
Evaluation == INSTANCE Dataflow WITH answer <- Answer
EvaluatesGraph == Evaluation!Spec
=============================================================================
