--------------------------- MODULE MCProgramCompile ---------------------------
(***************************************************************************)
(* Small modules for ProgramCompile: a parameter x, float Consts c and w,  *)
(* an int Const i, a Variable v, and four operators.                       *)
(***************************************************************************)
EXTENDS ProgramCompile

CONSTANTS x, c, w, i, v, f, g, h, u

Operator(op, flags, inputs) == [op |-> op, flags |-> flags, inputs |-> inputs]

\* "run" and "half" stand for operators without and with a half precision version.
Run(inputs)  == Operator("run", {}, inputs)
Half(inputs) == Operator("half", {}, inputs)
Unused       == Run(<<x>>)

BubbleOf(n, made) ==
    CASE n = x          -> Bubble("param", n)
      [] n \in {c, w}   -> DataBubble(n, <<"data", n>>, "float32")
      [] n = i          -> DataBubble(n, <<"data", n>>, "int32")
      [] n = v          -> Bubble("variable", n)
      [] OTHER          -> [Bubble(made[n].op, n) EXCEPT !.flags = made[n].flags,
                               !.dtype = IF made[n].op = "cast" THEN "float16" ELSE "none"]

CompiledOften(times, made, outs, device, options) ==
    [bubbles |-> [n \in Originals |-> BubbleOf(n, made)],
     links   |-> [n \in Originals |-> IF n \in DOMAIN made THEN made[n].inputs ELSE <<>>],
     outputs |-> outs, device |-> device, options |-> options, times |-> times]

ModuleOf(made, outs, device, options) == CompiledOften(1, made, outs, device, options)

NonEmpty(S) == SeqOf(S, 2) \ {<<>>}

Made4(opF, opG, opH, opU) == (f :> opF) @@ (g :> opG) @@ (h :> opH) @@ (u :> opU)

-----------------------------------------------------------------------------
\* Graphs of three operators with up to two inputs each over x and c; the first
\* may need a Variable, or an operator nobody registered.
FoldModules ==
    {ModuleOf(Made4(Run(argsF), Run(argsG), Run(argsH), Operator("unknown", {}, <<c>>)), outs, "cpu", {}) :
        argsF \in {<<c>>, <<x>>, <<x, c>>, <<c, c>>, <<v>>, <<c, u>>, <<x, u>>},
        argsG \in NonEmpty({x, c, f}),
        argsH \in {<<c>>, <<f>>, <<g>>, <<f, g>>, <<g, g>>, <<c, g>>},
        outs \in {<<h>>, <<h, h>>, <<g, h>>, <<h, f>>, <<x, g, f>>, <<c>>}}

\* Kernels of every kind, packed once: c belongs to f, w to g.
Kernels ==
    {Operator("conv2d", flags, <<x, c>>) : flags \in SUBSET {"NCHW", "winograd"}}
        \union {Operator("conv2d_v2", flags, <<x, i, c>>) : flags \in {{}, {"NCHW", "winograd"}}}
        \union {Operator("conv2d", {"NCHW"}, <<x, x>>), Operator("conv2d", {}, <<x, x>>),
                 Operator("inner_prod", {}, <<x, c>>), Operator("inner_prod", {"transpose"}, <<x, c>>),
                 Operator("inner_prod", {}, <<x, i>>), Run(<<c>>)}

Products ==
    {Operator("gemm", flags, <<f, w, x>>) : flags \in SUBSET {"transA", "transB", "alpha", "beta"}}
        \union {Operator("gemm", flags, <<w, f, f>>) : flags \in SUBSET {"transA", "alpha", "beta"}}
        \union {Operator("gemm", {"transB"}, <<f, i, x>>), Operator("inner_prod", {"transpose"}, <<f, w>>)}

PackModules ==
    {ModuleOf(Made4(kernel, product, Run(<<i, g>>), Unused), <<h>>, "cpu", options) :
        kernel \in Kernels, product \in Products, options \in {{"pack"}, {"pack", "winograd"}}}
    \union
    {ModuleOf(Made4(kernel, product, Unused, Unused), <<g>>, "gpu", {"pack"}) :
        kernel \in Kernels, product \in Products}

\* Half precision: no node is an output and an input, Consts that are no floats come last.
Halves == {Half(<<x>>), Half(<<x, c, i>>), Run(<<x, c>>), Operator("cast", {}, <<x>>),
           Operator("conv2d", {}, <<x, c>>), Operator("to_float", {}, <<x>>)}

Norm(flags) == Operator("batch_norm", flags, <<f, c, w>>)

HalfModules ==
    {ModuleOf(Made4(opF, opG, opH, Run(<<x, h>>)), outs, "gpu", {"float16", "pack"}) :
        opF \in Halves \ {Operator("to_float", {}, <<x>>)}, opG \in {Half(<<f, x>>), Run(<<f, x>>), Norm({}), Norm({"epsilon"})},
        opH \in {Half(<<g, f>>), Run(<<f, g>>), Run(<<g, x>>)}, outs \in {<<h>>, <<u>>}}
    \union
    {ModuleOf(Made4(Operator("to_float", {}, <<x>>), opG, Unused, Unused), outs, "gpu", {"float16"}) :
        opG \in {Run(<<f, x>>), Run(<<x, f>>)}, outs \in {<<g>>, <<f>>}}

\* Compiled twice, and no Const of theirs is changed
TwiceModules ==
    {CompiledOften(2, Made4(opF, opG, Half(<<g, f>>), Unused), outs, "gpu", options) :
        opF \in {Run(<<c>>), Half(<<x, c>>)}, opG \in {Run(<<f, x>>), Half(<<f>>)},
        outs \in {<<h>>, <<u, h>>}, options \in {{}, {"float16"}, {"pack"}}}

Graph0 == {NoGraph}

AllModules == FoldModules \union PackModules \union HalfModules \union TwiceModules

\* One convolution, compiled for the CPU twice
PlainModules ==
    {CompiledOften(2, Made4(Operator("conv2d", {}, <<x, c>>), Run(<<f>>), Run(<<g>>), Unused),
                   <<h>>, "cpu", {"pack"})}
=============================================================================
