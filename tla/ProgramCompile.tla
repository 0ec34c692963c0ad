---------------------------- MODULE ProgramCompile ----------------------------
(***************************************************************************)
(* Program::Compile (runtime/program.cpp) up to the loop that makes        *)
(* instructions: the module is translated, its graph zipped and folded,    *)
(* and build_node_refs finds out which nodes depend on which (NodeRefs).   *)
(* What comes out is what module Compiler starts from.                     *)
(*                                                                         *)
(* A module can be compiled again: its nodes are then as the last          *)
(* translation left them.                                                  *)
(***************************************************************************)
EXTENDS ConstFolding, NodeRefs

CONSTANT Modules    \* the modules, with device, options, and how often each is compiled (a bound)

\* A node is linked to nodes that were there before it: among any nodes there is
\* one that is not linked to any of them.
Grounded(nodes, links) ==
    \A S \in SUBSET nodes : S # {} => \E n \in S : Range(links[n]) \intersect S = {}

IsBubble(b) == b = [op |-> b.op, name |-> b.name, data |-> b.data, dtype |-> b.dtype, flags |-> b.flags]

\* What the passes rely on: end points have no inputs, a gemm has three.
IsLinkedAs(op, inputs) == /\ op \in EndPoints => inputs = <<>>
                          /\ op = "gemm" => Len(inputs) = 3

ASSUME OriginalsAssumption == IsFiniteSet(Originals) /\ Originals \intersect Nat = {}

ASSUME ModulesAssumption ==
    /\ \A m \in Modules :
          /\ DOMAIN m.bubbles = Originals /\ m.links \in [Originals -> Seq(Originals)]
          /\ m.bubbles = [n \in Originals |-> m.bubbles[n]]
          /\ \A n \in Originals : IsBubble(m.bubbles[n]) /\ IsLinkedAs(m.bubbles[n].op, m.links[n])
          /\ m.outputs \in Seq(Originals)
          /\ m.options \subseteq {"float16", "pack", "winograd"}
          /\ m.times \in Nat \ {0}
    /\ \A links \in {m.links : m \in Modules} : Grounded(Originals, links)

VARIABLE compiles       \* how often it was compiled before

compileVars == <<foldingVars, compiles, vars>>

\* Without options Translator::translate returns the module it is given.
FirstPass(m) == IF m.options \intersect {"float16", "pack"} = {} THEN "zipping" ELSE "translating"

NoGraph == [args |-> <<>>, outputs |-> <<>>]

CompileInit ==
    /\ module \in Modules
    /\ pool = [bubbles |-> module.bubbles, links |-> module.links]
    /\ phase = FirstPass(module)
    /\ outputs = module.outputs
    /\ calls = <<>> /\ results = <<>> /\ ready = <<>> /\ readyConst = <<>>
    /\ compiles = 0
    /\ InitFor(NoGraph)

-----------------------------------------------------------------------------
TranslateStep == TranslateNext /\ UNCHANGED <<readyConst, compiles, vars>>
ZipStep == ZipNext /\ UNCHANGED <<readyConst, compiles, vars>>
FoldStep == FoldNext /\ UNCHANGED <<compiles, vars>>

\* The passes are over.
HandedOver == phase = "compiling" /\ graph = NoGraph

\* build_node_refs is called with the graph that is left.
StartRefs ==
    /\ HandedOver
    /\ graph' = [args |-> pool.links, outputs |-> outputs]
    /\ UNCHANGED <<foldingVars, compiles, pc, position, node, depth, walker, schedule, refs>>

FindRefs ==
    /\ phase = "compiling"
    /\ graph # NoGraph
    /\ Seed \/ Take \/ Visit \/ Sort \/ AddRefs \/ Return
    /\ UNCHANGED <<foldingVars, compiles>>

\* The temporary graphs are gone; the nodes of the module are what they are now.
CompileAgain ==
    /\ pc = "done"
    /\ compiles < module.times - 1
    /\ compiles' = compiles + 1
    /\ phase' = FirstPass(module)
    /\ pool' = [bubbles |-> Restrict(pool.bubbles, Originals), links |-> Restrict(pool.links, Originals)]
    /\ outputs' = module.outputs
    /\ results' = <<>>
    /\ graph' = NoGraph /\ pc' = "seeding" /\ position' = 1 /\ depth' = <<>> /\ refs' = <<>>
    /\ UNCHANGED <<module, calls, ready, readyConst, node, walker, schedule>>

Ended == phase = "rejected" \/ (pc = "done" /\ compiles = module.times - 1)
StayEnded == Ended /\ UNCHANGED compileVars

CompileNext ==
    TranslateStep \/ ZipStep \/ FoldStep \/ StartRefs \/ FindRefs \/ CompileAgain \/ StayEnded

CompileSpec == CompileInit /\ [][CompileNext]_compileVars

-----------------------------------------------------------------------------
\* What the module's outputs denote, before anything was done to it
Meant(i) == Denoted([bubbles |-> module.bubbles, links |-> module.links])[module.outputs[i]]

(***************************************************************************)
(* Compiling changes no result: whatever the passes return for an output   *)
(* denotes what the output of the module denotes, although nodes are       *)
(* copied, replaced, packed, run and shared, and Consts are changed while  *)
(* copies of them are made.                                                *)
(***************************************************************************)
SameMeaning ==
    /\ \A i \in DOMAIN results : Denoted(pool)[results[i]] = Meant(i)
    /\ HandedOver => [i \in DOMAIN outputs |-> Denoted(pool)[outputs[i]]]
                                = [i \in DOMAIN module.outputs |-> Meant(i)]

\* The nodes of the graph that the passes have made
Compiled == UNION {Below(n) : n \in Range(outputs)}

(***************************************************************************)
(* What the loop of Compiler::compile relies on, see Compiler!IsGraph: of  *)
(* the nodes that outputs are made from, old or copied, every operator     *)
(* needs something that is not a Const, none is a Variable, none has       *)
(* inputs that should not, and the references that were found are all that *)
(* a node is made from.  An operator without inputs would erase its        *)
(* caller's stack.                                                         *)
(***************************************************************************)
CompilesAGraph ==
    pc = "done" =>
        /\ outputs \in Seq(DOMAIN refs)
        /\ \A n \in DOMAIN refs :
              /\ pool.links[n] \in Seq(DOMAIN refs)
              /\ refs[n] = UNION {{m} \union refs[m] : m \in Range(pool.links[n])}
              /\ n \notin refs[n]
              /\ Op(n) # "variable"
              /\ Op(n) \in EndPoints => pool.links[n] = <<>>
              /\ Op(n) \notin EndPoints => \E m \in Range(pool.links[n]) : Op(m) # "const"

(***************************************************************************)
(* Sharing survives all passes: there is one node for a node of the        *)
(* module at most, and one more for each time it is listed as an output    *)
(* (what folding returns for outputs is filed under keys nobody looks up). *)
(***************************************************************************)
StaysShared ==
    HandedOver =>
        \A n \in Originals :
            Cardinality({m \in Compiled : pool.bubbles[m].name = n})
                <= 1 + Cardinality({i \in DOMAIN module.outputs : module.outputs[i] = n})

(***************************************************************************)
(* Half precision stays inside: operators are given floats of one          *)
(* precision, half precision only if they have a version for it, and the   *)
(* program returns what the module returns.                                *)
(***************************************************************************)
PrecisionsMatch ==
    HandedOver =>
        /\ \A n \in Range(outputs) : DTypeOf(n) # "float16"
        /\ \A n \in {m \in Compiled : Op(m) \notin EndPoints \union {"cast", "to_float"}} :
              LET given == {DTypeOf(m) : m \in Range(pool.links[n])} \intersect Floats
              IN  Cardinality(given) <= 1 /\ ("float16" \in given => Op(n) \in HalfOps)
=============================================================================
