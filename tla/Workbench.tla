------------------------------ MODULE Workbench ------------------------------
(***************************************************************************)
(* A Workbench that runs programs (runtime/workbench.cpp): setup, input,   *)
(* bind_filter, run and run_hook, down through launch_offline,             *)
(* launch_online, the programs of input filters, the casts of inputs and   *)
(* the operators, any of which may throw.                                  *)
(*                                                                         *)
(* `calls' is the C++ call stack: a function is a record, the innermost    *)
(* last.  A throw sets `throwing', and the functions are then left one by  *)
(* one, each running its ts::need destructors.  The code of programs is    *)
(* what the compiler emits; CompiledProgram says that it is right, this    *)
(* module that it is run on the right stack.                               *)
(*                                                                         *)
(* A tensor is a term: an input, a datum of a program, or an operator      *)
(* applied to terms.                                                       *)
(***************************************************************************)
EXTENDS StackFrame, SequencesExt

CONSTANTS
    Programs,   \* compiled programs
    Inputs,     \* of a program: the inputs, records [name, cast]
    Code,       \* of a program: its instructions
    Outputs,    \* of a program: how many outputs it has
    Filters,    \* the programs that can be bound as filters: one input, one output
    Tensors,    \* what the user can set as an input
    Shapeless,  \* the tensors adjust_nhwc does not accept
    NoTensor,   \* Tensor(), what resize puts into m_inputs and m_outputs
    NoFilter,
    Hooks,      \* the node names, and sets of them, run_hook is called with
    Left,       \* what earlier users of the stack may have left on it
    MaxRuns     \* bound: how often the user calls run or run_hook

ASSUME WorkbenchAssumption ==
    /\ Filters \subseteq Programs
    /\ \A f \in Filters : Len(Inputs[f]) = 1 /\ Outputs[f] = 1
    /\ Shapeless \subseteq Tensors \union {NoTensor}
    /\ NoTensor \in Shapeless /\ NoTensor \notin Tensors
    /\ NoFilter \notin Programs
    /\ Outputs \in [Programs -> Nat]
    /\ Left \subseteq Seq(Tensors)
    /\ MaxRuns \in Nat

VARIABLES
    stack, base, bases,  \* m_stack, m_base and m_base_stack of the Stack
    env,                 \* m_env: a stack of [program, pointer]
    desktop,             \* m_desktop
    filters,             \* m_input_filters of every program
    inputs, outputs,     \* m_inputs and m_outputs
    hooked,              \* m_hooked_tensor: from names to tensors
    calls, throwing,     \* the call stack, and whether an exception is under way
    runs                 \* how often run and run_hook were called

stackVars == <<stack, base, bases>>
userVars == <<desktop, filters, inputs, runs>>
vars == <<stackVars, env, userVars, outputs, hooked, calls, throwing>>

-----------------------------------------------------------------------------
(***************************************************************************)
(* Tensors                                                                 *)
(***************************************************************************)
Apply(node, arguments) == <<node, arguments>>
Datum(p, k) == <<"data", p, k>>
Nhwc(t) == <<"nhwc", t>>
Cast(t) == Apply("cast", <<t>>)

-----------------------------------------------------------------------------
(***************************************************************************)
(* The call stack                                                          *)
(***************************************************************************)
Online(p, arguments) ==
    [call |-> "launch_online", program |-> p, args |-> arguments, slot |-> 1, at |-> "entering"]
Offline == [call |-> "launch_offline"]
RunHookCall(names, at) == [call |-> "run_hook", names |-> names, at |-> at]
Operator(node, hooks) == [call |-> "operator", node |-> node, hooks |-> hooks]

Top == Last(calls)
In(function) == ~throwing /\ calls # <<>> /\ Top.call = function
InOnline(at) == In("launch_online") /\ Top.at = at
Idle == calls = <<>>

\* The innermost function goes on as `caller' and calls `callee'.
Calls(caller, callee) == calls' = Front(calls) \o <<caller, callee>>
GoesOn(caller) == calls' = Append(Front(calls), caller)
Leaves == calls' = Front(calls)

\* Stack::push_base and Stack::pop_base
PushBase(cells, i) ==
    /\ bases' = Append(bases, base)
    /\ base' = Absolute(cells, base, i)

PopBase ==
    /\ base' = IF bases = <<>> THEN 0 ELSE Last(bases)
    /\ bases' = IF bases = <<>> THEN <<>> ELSE Front(bases)

\* The cells of the running frame
Frame == SubSeq(stack, base + 1, Len(stack))

-----------------------------------------------------------------------------
Init ==
    /\ stack \in Left /\ base = 0 /\ bases = <<>>
    /\ env = <<>>
    /\ desktop \in Programs \ Filters
    /\ filters = [p \in Programs |-> [k \in DOMAIN Inputs[p] |-> NoFilter]]
    /\ inputs = [k \in DOMAIN Inputs[desktop] |-> NoTensor]
    /\ outputs = [k \in 1 .. Outputs[desktop] |-> NoTensor]
    /\ hooked = <<>>
    /\ calls = <<>> /\ throwing = FALSE
    /\ runs = 0

(***************************************************************************)
(* What the user does between runs                                         *)
(***************************************************************************)
\* std::vector::resize keeps the tensors it has.
Resized(tensors, n) == [k \in 1 .. n |-> IF k \in DOMAIN tensors THEN tensors[k] ELSE NoTensor]

setup(p) ==
    /\ Idle
    /\ desktop' = p
    /\ inputs' = Resized(inputs, Len(Inputs[p]))
    /\ outputs' = Resized(outputs, Outputs[p])
    /\ hooked' = <<>>
    /\ UNCHANGED <<stackVars, env, filters, runs, calls, throwing>>

input(slot, tensor) ==
    /\ Idle
    /\ inputs' = [inputs EXCEPT ![slot] = tensor]
    /\ UNCHANGED <<stackVars, env, desktop, filters, runs, outputs, hooked, calls, throwing>>

bind_filter(slot, f) ==
    /\ Idle
    /\ filters' = [filters EXCEPT ![desktop][slot] = f]
    /\ UNCHANGED <<stackVars, env, desktop, inputs, runs, outputs, hooked, calls, throwing>>

\* run_hook saves the inputs and binds the hook; `run' comes next.
run_hook(names) ==
    /\ Idle /\ runs < MaxRuns
    /\ runs' = runs + 1
    /\ hooked' = [n \in {Inputs[desktop][k].name : k \in DOMAIN inputs} |->
                    inputs[CHOOSE k \in DOMAIN inputs : Inputs[desktop][k].name = n]]
    /\ calls' = <<RunHookCall(names, "saved")>>
    /\ UNCHANGED <<stackVars, env, desktop, filters, inputs, outputs, throwing>>

-----------------------------------------------------------------------------
(***************************************************************************)
(* Workbench::run and launch_offline                                       *)
(***************************************************************************)
\* Mistake: the frame of the caller is used.
LaunchInCallersFrame(callers) ==
    /\ hooked' = <<>>
    /\ PushBase(stack, 0)
    /\ stack' = stack \o inputs
    /\ calls' = callers \o <<Offline, Online(desktop, inputs)>>
    /\ UNCHANGED <<env, desktop, filters, inputs, outputs, throwing>>

\* An empty frame of its own, and the arguments in it
launch_offline(callers) ==
    /\ hooked' = <<>>
    /\ PushBase(stack, FrameSize(stack, base))
    /\ stack' = stack \o inputs
    /\ calls' = callers \o <<Offline, Online(desktop, inputs)>>
    /\ UNCHANGED <<env, desktop, filters, inputs, outputs, throwing>>

run ==
    \/ Idle /\ runs < MaxRuns /\ runs' = runs + 1 /\ launch_offline(<<>>)
    \/ /\ In("run_hook") /\ Top.at = "saved"
       /\ launch_offline(<<RunHookCall(Top.names, "ran")>>)
       /\ UNCHANGED runs

\* launch_online has returned: the outputs are copied before clear_stack and
\* pop_base, and Workbench::run stores them.
ReturnOffline ==
    /\ In("launch_offline")
    /\ outputs' = Frame
    /\ stack' = Clear(stack, base)
    /\ PopBase
    /\ Leaves
    /\ UNCHANGED <<env, userVars, hooked, throwing>>

ReturnHook ==
    /\ In("run_hook") /\ Top.at = "ran"
    /\ Leaves
    /\ UNCHANGED <<stackVars, env, userVars, outputs, hooked, throwing>>

-----------------------------------------------------------------------------
(***************************************************************************)
(* launch_online: `Top.slot' is its i, 1-based                             *)
(***************************************************************************)
Arguments == Len(Top.args)
Running == Last(env).program

Throws == throwing' = TRUE /\ UNCHANGED <<calls, env, base, bases, userVars, outputs, hooked>>

\* The program is pushed to m_env and the arguments become the frame.
EnterOnline ==
    /\ InOnline("entering")
    /\ Len(Inputs[Top.program]) = Arguments /\ FrameSize(stack, base) >= Arguments
    /\ env' = Append(env, [program |-> Top.program, pointer |-> 0])
    /\ PushBase(stack, -Arguments)
    /\ GoesOn([Top EXCEPT !.at = "preparing"])
    /\ UNCHANGED <<stack, userVars, outputs, hooked, throwing>>

\* The argument that has as many cells above it as there are arguments
Argument == Cell(stack, base, -Arguments)
Filter == filters[Running][Top.slot]

PushArgument ==
    /\ InOnline("preparing") /\ Top.slot <= Arguments
    /\ Filter = NoFilter
    /\ stack' = Append(stack, Argument)
    /\ GoesOn([Top EXCEPT !.at = "filtered"])
    /\ UNCHANGED <<base, bases, env, userVars, outputs, hooked, throwing>>

\* The argument is pushed, then pushed in NHWC; the first of the two is erased.
FilterArgument ==
    /\ InOnline("preparing") /\ Top.slot <= Arguments
    /\ Filter # NoFilter
    /\ LET pushed == Append(stack, Argument)
       IN  IF Argument \in Shapeless THEN stack' = pushed /\ Throws
           ELSE /\ stack' = EraseRange(Append(pushed, Nhwc(Argument)), base, -2, -1)
                /\ Calls([Top EXCEPT !.at = "filtered"], Online(Filter, <<Nhwc(Argument)>>))
                /\ UNCHANGED <<base, bases, env, userVars, outputs, hooked, throwing>>

\* cast_tensor, or the next argument
CastArgument ==
    /\ InOnline("filtered")
    /\ LET next == [Top EXCEPT !.slot = @ + 1, !.at = "preparing"]
       IN  IF Inputs[Running][Top.slot].cast
           THEN /\ Calls(next, Operator("cast", FALSE))
                /\ PushBase(stack, -1)
           ELSE GoesOn(next) /\ UNCHANGED <<base, bases>>
    /\ UNCHANGED <<stack, env, userVars, outputs, hooked, throwing>>

\* erase(0, nargs): what was prepared remains.
BeginProgram ==
    /\ InOnline("preparing") /\ Top.slot > Arguments
    /\ stack' = EraseRange(stack, base, 0, Arguments)
    /\ GoesOn([Top EXCEPT !.at = "running"])
    /\ UNCHANGED <<base, bases, env, userVars, outputs, hooked, throwing>>

Pointer == Last(env).pointer
Instruction == Code[Running][Pointer + 1]
Fetches(op) ==
    /\ InOnline("running") /\ Pointer < Len(Code[Running])
    /\ Instruction.op = op
    /\ env' = [env EXCEPT ![Len(env)].pointer = @ + 1]

\* Mistake: the datum is taken from the program that was set up.
DataOfDesktop ==
    /\ \/ Fetches("push")  /\ stack' = PushIndex(stack, base, Instruction.at)
       \/ Fetches("swap")  /\ stack' = Swap(stack, base, Instruction.at, Instruction.with)
       \/ Fetches("erase") /\ stack' = EraseRange(stack, base, Instruction.at, Instruction.end)
       \/ Fetches("data")  /\ stack' = Append(stack, Datum(desktop, Instruction.at))
    /\ UNCHANGED <<base, bases, userVars, outputs, hooked, calls, throwing>>

\* The stack instructions, and push_data_segment of the program on top of m_env
RunStackInstruction ==
    /\ \/ Fetches("push")  /\ stack' = PushIndex(stack, base, Instruction.at)
       \/ Fetches("swap")  /\ stack' = Swap(stack, base, Instruction.at, Instruction.with)
       \/ Fetches("erase") /\ stack' = EraseRange(stack, base, Instruction.at, Instruction.end)
       \/ Fetches("data")  /\ stack' = Append(stack, Datum(Running, Instruction.at))
    /\ UNCHANGED <<base, bases, userVars, outputs, hooked, calls, throwing>>

\* OperatorInstruction::run
EnterOperator ==
    /\ Fetches("call")
    /\ FrameSize(stack, base) >= Instruction.nargs
    /\ PushBase(stack, -Instruction.nargs)
    /\ calls' = Append(calls, Operator(Instruction.node, TRUE))
    /\ UNCHANGED <<stack, userVars, outputs, hooked, throwing>>

\* The number of outputs is checked.
ReturnOnline ==
    /\ InOnline("running") /\ Pointer = Len(Code[Running])
    /\ IF FrameSize(stack, base) # Outputs[Top.program] THEN UNCHANGED stack /\ Throws
       ELSE /\ PopBase
            /\ env' = Front(env)
            /\ Leaves
            /\ UNCHANGED <<stack, userVars, outputs, hooked, throwing>>

-----------------------------------------------------------------------------
(***************************************************************************)
(* Operator::run, from OperatorInstruction::run or RunOperator             *)
(***************************************************************************)
Result == Apply(Top.node, Frame)

\* Mistake: only the first operator of a name is hooked.
HookedOnce(result) ==
    IF /\ Top.hooks /\ Head(calls).call = "run_hook"
       /\ Top.node \in Head(calls).names \ DOMAIN hooked
    THEN [n \in DOMAIN hooked \union {Top.node} |-> IF n = Top.node THEN result ELSE hooked[n]]
    ELSE hooked

\* The hook of run_hook is emitted when the frame is the result alone.
HookedAfter(result) ==
    IF Top.hooks /\ Head(calls).call = "run_hook" /\ Top.node \in Head(calls).names
    THEN [n \in DOMAIN hooked \union {Top.node} |-> IF n = Top.node THEN result ELSE hooked[n]]
    ELSE hooked

\* The operator pushes its result, erase(0, -1) leaves it in place of the frame.
ReturnOperator ==
    /\ In("operator")
    /\ stack' = EraseRange(Append(stack, Result), base, 0, -1)
    /\ hooked' = HookedAfter(Result)
    /\ PopBase
    /\ Leaves
    /\ UNCHANGED <<env, userVars, outputs, throwing>>

\* An operator may throw with tensors of its own on the stack.
FailOperator ==
    /\ In("operator")
    /\ \/ UNCHANGED stack
       \/ stack' = Append(stack, NoTensor)
    /\ Throws

-----------------------------------------------------------------------------
(***************************************************************************)
(* The exception leaves the innermost function, whose ts::need objects are *)
(* destroyed; the API catches it when no function is left.                 *)
(***************************************************************************)
Unwind ==
    /\ throwing /\ calls # <<>>
    /\ CASE Top.call = "operator" ->
              PopBase /\ UNCHANGED <<stack, env>>
         [] Top.call = "launch_online" ->
              PopBase /\ env' = Front(env) /\ UNCHANGED stack
         [] Top.call = "launch_offline" ->
              PopBase /\ stack' = Clear(stack, base) /\ UNCHANGED env
         [] Top.call = "run_hook" ->
              UNCHANGED <<stackVars, env>>
    /\ Leaves
    /\ throwing' = (Len(calls) > 1)
    /\ UNCHANGED <<userVars, outputs, hooked>>

Next ==
    \/ \E p \in Programs \ Filters : setup(p)
    \/ \E slot \in DOMAIN inputs, t \in Tensors : input(slot, t)
    \/ \E slot \in DOMAIN inputs, f \in Filters \union {NoFilter} : bind_filter(slot, f)
    \/ \E names \in Hooks : run_hook(names)
    \/ run \/ ReturnOffline \/ ReturnHook
    \/ EnterOnline \/ PushArgument \/ FilterArgument \/ CastArgument
    \/ BeginProgram \/ RunStackInstruction \/ EnterOperator \/ ReturnOnline
    \/ ReturnOperator \/ FailOperator \/ Unwind

Spec == Init /\ [][Next]_vars

-----------------------------------------------------------------------------
(***************************************************************************)
(* What a program computes: each instruction on a frame that has no cells  *)
(* of anybody else, no failures, and no call stack                         *)
(***************************************************************************)
Effect(p, ins, cells) ==
    CASE ins.op = "push"  -> PushIndex(cells, 0, ins.at)
      [] ins.op = "swap"  -> Swap(cells, 0, ins.at, ins.with)
      [] ins.op = "erase" -> EraseRange(cells, 0, ins.at, ins.end)
      [] ins.op = "data"  -> Append(cells, Datum(p, ins.at))
      [] ins.op = "call"  -> SubSeq(cells, 1, Len(cells) - ins.nargs)
                                \o <<Apply(ins.node, TopCells(cells, ins.nargs))>>

\* The frame after k instructions, for each k
Trace(p, cells) ==
    LET f[k \in 0 .. Len(Code[p])] ==
            IF k = 0 THEN cells ELSE Effect(p, Code[p][k], f[k - 1])
    IN  f

Denoted(p, cells) == Trace(p, cells)[Len(Code[p])]

\* The frame has the cells that an instruction refers to; a call without
\* arguments would have the frame of its caller for its own.
Accepts(ins, cells) ==
    CASE ins.op = "push"  -> Valid(cells, 0, ins.at)
      [] ins.op = "swap"  -> Valid(cells, 0, ins.at) /\ Valid(cells, 0, ins.with)
      [] ins.op = "erase" -> /\ Absolute(cells, 0, ins.at) \in 0 .. Absolute(cells, 0, ins.end)
                             /\ Absolute(cells, 0, ins.end) <= Len(cells)
      [] ins.op = "data"  -> TRUE
      [] ins.op = "call"  -> ins.nargs \in 1 .. Len(cells)

Instructions ==
    [op : {"push"}, at : Int] \union [op : {"swap"}, at : Int, with : Int]
        \union [op : {"erase"}, at : Int, end : Int] \union [op : {"data"}, at : Nat]
        \union [op : {"call"}, node : STRING, nargs : Nat]

\* Programs are what the compiler makes (CompiledProgram): whatever the
\* inputs are, the cells an instruction needs are there.
ASSUME CodeAssumption ==
    \A p \in Programs :
        /\ Inputs[p] \in Seq([name : STRING, cast : BOOLEAN])
        /\ Code[p] \in Seq(Instructions)
        /\ LET frames == Trace(p, [slot \in DOMAIN Inputs[p] |-> NoTensor])
           IN  \A k \in DOMAIN Code[p] : Accepts(Code[p][k], frames[k - 1])

\* What becomes of the argument of an input [name, cast]: the filter of its slot
\* is run on it, filters having no filters, then it is cast.
Casted(in, argument) == IF in.cast THEN Cast(argument) ELSE argument
Filtered(filter, argument) ==
    IF filter = NoFilter THEN argument
    ELSE Denoted(filter, <<Casted(Inputs[filter][1], Nhwc(argument))>>)[1]
Prepared(filter, in, argument) == Casted(in, Filtered(filter, argument))

PreparedArguments(p, arguments) ==
    [slot \in DOMAIN arguments |->
        Prepared(filters[p][slot], Inputs[p][slot], arguments[slot])]

\* The nodes p computes, and the value of each
Nodes(p) == {ins.node : ins \in {i \in Range(Code[p]) : i.op = "call"}}
NodeValue(p, arguments, node) ==
    LET last == CHOOSE k \in DOMAIN Code[p] :
                    /\ Code[p][k].op = "call" /\ Code[p][k].node = node
                    /\ \A l \in k + 1 .. Len(Code[p]) :
                        Code[p][l].op = "call" => Code[p][l].node # node
    IN  Last(Trace(p, PreparedArguments(p, arguments))[last])

-----------------------------------------------------------------------------
(***************************************************************************)
(* Properties                                                              *)
(***************************************************************************)
\* The part of the stack that lies under the frames of the run, if any
Below == SubSeq(stack, 1, IF bases = <<>> THEN Len(stack)
                          ELSE IF Len(bases) = 1 THEN base ELSE bases[2])

\* A run, failed or not, leaves the tensors that were on the stack before it
\* where they were, and none of its own (clear_stack, workbench.cpp:517).
CallersTensorsKept == [][Below' = Below]_vars

\* Workbench::run that returns stores what the program computes from the
\* prepared inputs, whatever ran or failed before; one that throws keeps the
\* outputs of the last run that returned.
ReturnsDenoted ==
    [][Idle \/ outputs' = IF In("launch_offline")
                          THEN Denoted(desktop, PreparedArguments(desktop, inputs))
                          ELSE outputs]_vars

\* After run_hook, output(name) gives the value the hooked node had in this
\* run, also when an operator of a filter has the same name.
HookedAreDenoted ==
    In("run_hook") /\ Top.at = "ran" =>
        \A n \in Top.names \intersect Nodes(desktop) :
            n \in DOMAIN hooked /\ hooked[n] = NodeValue(desktop, inputs, n)

=============================================================================
