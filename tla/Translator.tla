------------------------------ MODULE Translator ------------------------------
(***************************************************************************)
(* Computation graphs, how the compiler rewrites them, and                 *)
(* Module::Translate (compiler/translater.cpp), the first thing            *)
(* Program::Compile does to a module.                                      *)
(*                                                                         *)
(* Nodes (module/graph.h, module/bubble.h) are shared objects: a bubble    *)
(* (op, name, parameters) and links to the nodes it gets its inputs from.  *)
(* translate_node, zip_node and run_const_node go through a graph in the   *)
(* same way: a node is looked up in a memo, its inputs are rewritten       *)
(* first, then it is kept or a new node is made (module/menu.cpp).  The    *)
(* first half is what they have in common.                                 *)
(*                                                                         *)
(* What tensors hold is a term: the operators that were run for it, and    *)
(* what was done to the layout of a Const.                                 *)
(*                                                                         *)
(* The first option that the client chose translates every node: fp16      *)
(* puts casts around the operators that have half precision versions,      *)
(* pack stores the kernels of convolutions and products in the order in    *)
(* which their operators read them.  Every node is copied, but a kernel    *)
(* is packed before its Const is: in the node of the module itself.        *)
(***************************************************************************)
EXTENDS Integers, Sequences, FiniteSets, TLC, SequencesExt

CONSTANTS
    Originals,      \* the nodes of the module that is compiled
    HalfOps,        \* the operators Fp16OperatorCreator knows for the device
    DeviceOps,      \* if the device is no CPU: the operators that it has
    Arm             \* TS_ON_ARM

VARIABLES
    phase,      \* "translating", "zipping", "folding", "compiling", "rejected"
    pool,       \* the nodes there are: their bubbles and links
    outputs,    \* the nodes that the pass is called with
    calls,      \* the calls that wait for an input, innermost last
    results,    \* what it will return
    ready,      \* ready_map, ready_nonconst: the rewritten nodes
    module      \* bubbles, links, inputs, outputs, and how to compile it: options, device

rewritingVars == <<phase, pool, outputs, calls, results, ready>>
translatorVars == <<rewritingVars, module>>

-----------------------------------------------------------------------------
(***************************************************************************)
(* A bubble.  data is what a Const holds; dtype is that of a Const, or     *)
(* what a cast casts to; flags are the other parameters, as far as         *)
(* something depends on them here.                                         *)
(***************************************************************************)
Bubble(op, name) == [op |-> op, name |-> name, data |-> <<>>, dtype |-> "none", flags |-> {}]
DataBubble(name, data, dtype) == [Bubble("const", name) EXCEPT !.data = data, !.dtype = dtype]

EndPoints == {"param", "const", "variable"}

NodesOf(p) == DOMAIN p.bubbles
OpOf(p, n) == p.bubbles[n].op
IsConst(p, n) == OpOf(p, n) = "const"

\* New nodes are numbered: the last one, and p with some more.
Newest(p) == Cardinality(NodesOf(p)) - Cardinality(Originals)
New(bubble, inputs) == [bubble |-> bubble, inputs |-> inputs]
MadeAll(p, new) ==
    LET last == Newest(p)
        all  == NodesOf(p) \union last + 1 .. last + Len(new)
    IN  [bubbles |-> [k \in all |-> IF k \in NodesOf(p) THEN p.bubbles[k] ELSE new[k - last].bubble],
         links   |-> [k \in all |-> IF k \in NodesOf(p) THEN p.links[k] ELSE new[k - last].inputs]]
Made(p, bubble, inputs) == MadeAll(p, <<New(bubble, inputs)>>)

\* bubble::bubble(node.bubble()), linked like node
Copied(p, n) == Made(p, p.bubbles[n], p.links[n])

\* node.bubble().set(name::value, ..) on a node that others may use
WithData(p, n, data) == [p EXCEPT !.bubbles[n].data = data]

-----------------------------------------------------------------------------
\* Matrices and kernels: transposing twice is undone, packing is not.
Transposed(t) == IF t[1] = "transposed" THEN t[2] ELSE <<"transposed", t>>
Packed(layout, t) == <<"packed", layout, t>>
Layout(op) == IF op = "inner_prod" THEN "pack8_B" ELSE "pack8_A"

\* What an operator takes its second or third operand for
Kernel(b, t) == IF "kernel_packed" \notin b.flags THEN t
                ELSE IF t[1] = "packed" /\ t[2] = Layout(b.op) THEN t[3] ELSE <<"garbage", t>>

Given(flag, b, f, t) == IF flag \in b.flags THEN f ELSE t

\* alpha * op(A) * op(B) + beta * C
GemmOf(b, v) ==
    LET product == <<"product", Given("transA", b, Transposed(v[1]), v[1]), Given("transB", b, Transposed(v[2]), v[2])>>
        scaled  == Given("alpha", b, <<"mul", <<"alpha", b.name>>, product>>, product)
    IN  Given("beta", b, <<"add", scaled, <<"mul", <<"beta", b.name>>, v[3]>>>>, scaled)

\* What an operator gives on values v.  A cast changes the precision only.
Applied(b, v) ==
    CASE b.op \in {"conv2d", "conv2d_v2", "conv2d_winograd"} ->
             <<"conv2d", b.name, SubSeq(v, 1, Len(v) - 1), Kernel(b, v[Len(v)])>>
      [] b.op = "inner_prod" ->
             <<"product", v[1], Given("transpose", b, Transposed(Kernel(b, v[2])), Kernel(b, v[2]))>>
      [] b.op = "gemm" -> GemmOf(b, v)
      [] b.op \in {"mul", "add"} -> <<b.op, v[1], v[2]>>
      [] b.op = "batch_norm" ->
             <<"batch_norm", b.name, v[1], v[2], Given("epsilon", b, <<"raised", v[3]>>, v[3])>>
      [] b.op \in {"cast", "to_float"} -> v[1]
      [] OTHER -> <<"run", b.name, v>>

\* What every node denotes
Denoted(p) ==
    LET Value[n \in NodesOf(p)] ==
            CASE IsConst(p, n) -> p.bubbles[n].data
              [] OpOf(p, n) \in EndPoints \ {"const"} -> <<OpOf(p, n), p.bubbles[n].name>>
              [] OTHER -> Applied(p.bubbles[n], [i \in DOMAIN p.links[n] |-> Value[p.links[n][i]]])
    IN  Value

-----------------------------------------------------------------------------
\* A call on a node, which goes through the inputs of the node `new'
CallOn(n, new) == [node |-> n, new |-> new, inputs |-> <<>>, allConst |-> TRUE, changed |-> FALSE]

Caller == calls[Len(calls)]
Callers == SubSeq(calls, 1, Len(calls) - 1)

\* A node is looked at next, and n is that node.
Looking == IF calls = <<>> THEN Len(results) < Len(outputs)
                           ELSE Len(Caller.inputs) < Len(pool.links[Caller.new])
LookedAt == IF calls = <<>> THEN outputs[Len(results) + 1]
                            ELSE pool.links[Caller.new][Len(Caller.inputs) + 1]

\* The innermost call has seen all its inputs; the pass has seen all its outputs.
Seen == calls # <<>> /\ ~Looking
AllSeen == calls = <<>> /\ ~Looking

\* Mistake: what the last input was like decides alone.
ReceiveLast(call, n, result, isConst) ==
    [call EXCEPT !.inputs = Append(@, result), !.allConst = @ /\ isConst, !.changed = result # n]

\* Mistake: inputs are put in front of the ones before.
ReceiveInFront(call, n, result, isConst) ==
    [call EXCEPT !.inputs = <<result>> \o @, !.allConst = @ /\ isConst, !.changed = @ \/ result # n]

\* The caller goes on with the result for its input n.
Receive(call, n, result, isConst) ==
    [call EXCEPT !.inputs = Append(@, result), !.allConst = @ /\ isConst, !.changed = @ \/ result # n]

\* Return to the callers; the outermost call returns to the loop over the outputs.
ReturnTo(callers, n, result, isConst) ==
    IF callers = <<>>
    THEN calls' = <<>> /\ results' = Append(results, result)
    ELSE /\ calls' = [callers EXCEPT ![Len(callers)] = Receive(@, n, result, isConst)]
         /\ UNCHANGED results

\* std::unordered_map::insert, which replaces nothing
WithEntry(memo, n, result) ==
    [m \in DOMAIN memo \union {n} |-> IF m \in DOMAIN memo THEN memo[m] ELSE result]

\* An exception leaves the compiler.
Rejected == phase' = "rejected" /\ UNCHANGED <<pool, outputs, calls, results, ready>>

\* The next pass starts with what this one returns.
NextPass(next) ==
    /\ phase' = next
    /\ outputs' = results
    /\ results' = <<>>
    /\ ready' = <<>>
    /\ UNCHANGED <<pool, calls>>

-----------------------------------------------------------------------------
Chosen(option) == option \in module.options
PackedBy(p, n) == Len(p.links[n])       \* where the kernel is linked: the last input

-----------------------------------------------------------------------------
(***************************************************************************)
(* PackTranslatorOption (compiler/option/pack_translator_option.cpp)       *)
(***************************************************************************)
HasKernel(op) == op \in {"conv2d", "conv2d_v2", "inner_prod"}

\* The kernels that Zipper wants for winograd stay as they are.
LeftToZipper(b) == Arm /\ Chosen("winograd") /\ b.op # "inner_prod" /\ "winograd" \in b.flags

ConstData(p, n) == p.bubbles[n].data

\* A Const of a product that is to be transposed is, once and for all.
WithTransposed(p, n, flag, b) ==
    IF IsConst(p, n) /\ flag \in b.flags THEN WithData(p, n, Transposed(ConstData(p, n))) ELSE p

\* factor * n for a new Const
Scaled(p, b, factor, n) ==
    Made(Made(p, DataBubble(<<b.name, factor>>, <<factor, b.name>>, "float32"), <<>>),
         Bubble("mul", <<b.name, "mul", factor>>), <<Newest(p) + 1, n>>)

\* gemm becomes a product; alpha and beta become operators unless they are 1 and 0.
PackGemm(p, n) ==
    LET b        == p.bubbles[n]
        operands == p.links[n]
        consts   == WithTransposed(WithTransposed(p, operands[1], "transA", b), operands[2], "transB", b)
        product  == Made(consts, Bubble("inner_prod", <<b.name, "product">>), <<operands[1], operands[2]>>)
        scaled   == Given("alpha", b, Scaled(product, b, "alpha", Newest(product)), product)
        shift    == Scaled(scaled, b, "beta", operands[3])
        sum      == Made(shift, Bubble("add", <<b.name, "sum">>), <<Newest(scaled), Newest(shift)>>)
        whole    == Given("beta", b, sum, scaled)
    IN  [whole EXCEPT !.bubbles[Newest(whole)].name = b.name]

\* Mistake: "transpose" stays.
PackTransposed(p, n) ==
    LET b      == p.bubbles[n]
        kernel == p.links[n][PackedBy(p, n)]
        data   == Given("transpose", b, Transposed(ConstData(p, kernel)), ConstData(p, kernel))
    IN  Made(WithData(p, kernel, Packed(Layout(b.op), data)),
             [b EXCEPT !.flags = @ \union {"kernel_packed"}], p.links[n])

\* The kernel's own node gets the packed data; the copy of n knows that it is packed.
PackKernel(p, n) ==
    LET b      == p.bubbles[n]
        kernel == p.links[n][PackedBy(p, n)]
        data   == Given("transpose", b, Transposed(ConstData(p, kernel)), ConstData(p, kernel))
    IN  Made(WithData(p, kernel, Packed(Layout(b.op), data)),
             [b EXCEPT !.flags = (@ \ {"transpose"}) \union {"kernel_packed"}], p.links[n])

\* On another device the operators of the device do not read packed kernels.
PackApplies(p, n) ==
    /\ HasKernel(OpOf(p, n)) \/ OpOf(p, n) = "gemm"
    /\ module.device = "cpu" \/ OpOf(p, n) \notin DeviceOps

\* The product has no version for a transposed left operand.
GemmApplies(p, n) ==
    OpOf(p, n) = "gemm" /\ ("transA" \in p.bubbles[n].flags => IsConst(p, p.links[n][1]))

KernelApplies(p, n) ==
    /\ HasKernel(OpOf(p, n))
    /\ IsConst(p, p.links[n][PackedBy(p, n)])
    /\ ~LeftToZipper(p.bubbles[n])

Pack(p, n) ==
    CASE PackApplies(p, n) /\ GemmApplies(p, n)   -> PackGemm(p, n)
      [] PackApplies(p, n) /\ KernelApplies(p, n) -> PackKernel(p, n)
      [] OTHER -> Copied(p, n)

\* Only float32 can be transposed and packed.
PackThrows(p, n) ==
    LET Wrong(m) == IsConst(p, m) /\ p.bubbles[m].dtype # "float32"
    IN  /\ PackApplies(p, n)
        /\ \/ KernelApplies(p, n) /\ Wrong(p.links[n][PackedBy(p, n)])
           \/ /\ GemmApplies(p, n)
              /\ \/ "transA" \in p.bubbles[n].flags /\ Wrong(p.links[n][1])
                 \/ "transB" \in p.bubbles[n].flags /\ Wrong(p.links[n][2])

-----------------------------------------------------------------------------
(***************************************************************************)
(* Fp16TranslatorOption (compiler/option/fp16_translator_option.cpp)       *)
(***************************************************************************)
Floats == {"float16", "float32", "float64"}

CastBubble(p, dtype, n) == [Bubble("cast", <<p.bubbles[n].name, dtype>>) EXCEPT !.dtype = dtype]
CastTo(p, dtype, n) == Made(p, CastBubble(p, dtype, n), <<n>>)

\* What the option takes for a stream of half precision
IsHalf(p, n) ==
    CASE OpOf(p, n) = "cast" -> p.bubbles[n].dtype = "float16" /\ "cast" \in HalfOps
      [] OpOf(p, n) \in EndPoints -> IsConst(p, n) /\ p.bubbles[n].dtype = "float16"
      [] OTHER -> OpOf(p, n) \in HalfOps

\* A Const that is no float: it and all inputs after it stay as they are.
ToHalf(p, n, j) ==
    \A i \in 1 .. j : LET m == p.links[n][i] IN IsConst(p, m) => p.bubbles[m].dtype \in Floats

\* Mistake: the operator gets half precision as well if it has no version for it.
NeededHalfOnly(p, n, j) ==
    IF ~IsHalf(p, p.links[n][j]) /\ OpOf(p, n) \in HalfOps /\ ToHalf(p, n, j) THEN "float16" ELSE "none"

\* The cast that is needed between input j of n and n
Needed(p, n, j) ==
    LET half == IsHalf(p, p.links[n][j])
    IN  CASE ~half /\ OpOf(p, n) \in HalfOps /\ ToHalf(p, n, j) -> "float16"
          [] half /\ OpOf(p, n) \notin HalfOps                   -> "float32"
          [] OTHER                                               -> "none"

\* A copy of n on its inputs, with the casts it needs
WithCasts(p, n) ==
    LET inputs  == p.links[n]
        casts   == SetToSeq({j \in DOMAIN inputs : Needed(p, n, j) # "none"})
        At(j)   == Newest(p) + CHOOSE k \in DOMAIN casts : casts[k] = j
        Cast(j) == New(CastBubble(p, Needed(p, n, j), inputs[j]), <<inputs[j]>>)
    IN  Made(MadeAll(p, [k \in DOMAIN casts |-> Cast(casts[k])]), p.bubbles[n],
             [j \in DOMAIN inputs |-> IF Needed(p, n, j) = "none" THEN inputs[j] ELSE At(j)])

\* The first input of the first input ... of n
Source(p, n) ==
    LET From[m \in NodesOf(p)] == IF OpOf(p, m) \in EndPoints THEN m ELSE From[p.links[m][1]]
    IN  From[n]

\* epsilon is added to a variance that was cast, in the Const, and set to 0.
RaiseVariance(p) ==
    LET n        == Newest(p)
        b        == p.bubbles[n]
        variance == p.links[n][3]
        const    == Source(p, variance)
        raised   == Given("epsilon", b, <<"raised", ConstData(p, const)>>, ConstData(p, const))
    IN  IF Chosen("float16") /\ b.op = "batch_norm" /\ variance # const /\ IsConst(p, const)
        THEN [WithData(p, const, raised) EXCEPT !.bubbles[n].flags = b.flags \ {"epsilon"}]
        ELSE p

Fp16(p, n, isOutput) ==
    IF OpOf(p, n) \in EndPoints \union {"cast", "to_float"} THEN Copied(p, n)
    ELSE IF isOutput /\ OpOf(p, n) \in HalfOps THEN CastTo(p, "float32", n) ELSE WithCasts(p, n)

-----------------------------------------------------------------------------
\* Only the first option that says true is used, and all of them do.
Options == module.options \intersect {"float16", "pack"}
Translated(p, n, isOutput) == IF Chosen("float16") THEN Fp16(p, n, isOutput) ELSE Pack(p, n)
TranslateThrows(p, n) == ~Chosen("float16") /\ PackThrows(p, n)

Translating == phase = "translating" /\ UNCHANGED module

UseTranslated ==
    /\ Translating /\ Looking
    /\ LookedAt \in DOMAIN ready
    /\ ReturnTo(calls, LookedAt, ready[LookedAt], TRUE)
    /\ UNCHANGED <<phase, pool, outputs, ready>>

TranslateNode ==
    /\ Translating /\ Looking
    /\ LookedAt \notin DOMAIN ready
    /\ ~TranslateThrows(pool, LookedAt)
    /\ \E translated \in {Translated(pool, LookedAt, calls = <<>>)} : pool' = RaiseVariance(translated)
    /\ calls' = Append(calls, CallOn(LookedAt, Newest(pool')))
    /\ UNCHANGED <<phase, outputs, results, ready>>

RejectKernel ==
    /\ Translating /\ Looking
    /\ LookedAt \notin DOMAIN ready
    /\ TranslateThrows(pool, LookedAt)
    /\ Rejected

\* Node::Link, when the inputs are translated
LinkTranslated ==
    /\ Translating /\ Seen
    /\ pool' = [pool EXCEPT !.links[Caller.new] = Caller.inputs]
    /\ ready' = WithEntry(ready, Caller.node, Caller.new)
    /\ ReturnTo(Callers, Caller.node, Caller.new, TRUE)
    /\ UNCHANGED <<phase, outputs>>

\* Module::Load: the graph that is left
LoadTranslated ==
    /\ Translating /\ AllSeen
    /\ NextPass("zipping")

TranslateNext == UseTranslated \/ TranslateNode \/ RejectKernel \/ LinkTranslated \/ LoadTranslated

-----------------------------------------------------------------------------
\* The nodes that n is made from, with n
Below(n) ==
    LET Under[m \in NodesOf(pool)] == {m} \union UNION {Under[k] : k \in Range(pool.links[m])}
    IN  Under[n]

\* The element type an operator gives: that of its first input.
DTypeOf(n) ==
    LET Type[m \in NodesOf(pool)] ==
            CASE OpOf(pool, m) \in {"const", "cast"} -> pool.bubbles[m].dtype
              [] OpOf(pool, m) \in {"param", "variable", "to_float"} -> "float32"
              [] OTHER -> Type[pool.links[m][1]]
    IN  Type[n]
=============================================================================
