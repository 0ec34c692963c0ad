----------------------------- MODULE MCWorkbench -----------------------------
(***************************************************************************)
(* Programs as Compiler makes them: of two inputs, the second cast; of two *)
(* outputs, one of which is an input of the other; one that has no use for *)
(* its input, and so leaves it beside its output; and a filter that uses a *)
(* datum, with a node named like one of a program.                         *)
(***************************************************************************)
EXTENDS Workbench

CONSTANTS main, pair, wrong, filter, x, y

Push(k) == [op |-> "push", at |-> k]
Exchange(i, j) == [op |-> "swap", at |-> i, with |-> j]
Bind(k) == [op |-> "erase", at |-> 0, end |-> -k]
Data(k) == [op |-> "data", at |-> k]
Call(node, n) == [op |-> "call", node |-> node, nargs |-> n]

MCInputs ==
    main :> <<[name |-> "x", cast |-> FALSE], [name |-> "y", cast |-> TRUE]>> @@
    pair :> <<[name |-> "x", cast |-> FALSE]>> @@
    wrong :> <<[name |-> "x", cast |-> TRUE]>> @@
    filter :> <<[name |-> "_0", cast |-> FALSE]>>

\* main is h(x, g(x, y)); pair is f(x, x) and f of a datum and f(x, x); the
\* filter is f(datum, x).
MCCode ==
    main :> <<Push(0), Push(0), Push(1), Bind(3), Call("g", 2), Call("h", 2)>> @@
    pair :> <<Push(0), Push(0), Bind(2), Call("f", 2), Data(1), Push(0), Call("f", 2)>> @@
    wrong :> <<Bind(0), Data(0)>> @@
    filter :> <<Push(0), Bind(1), Data(0), Exchange(1, 0), Call("f", 2)>>

MCOutputs == main :> 1 @@ pair :> 2 @@ wrong :> 1 @@ filter :> 1

MCHooks == {{"f", "g"}}
MCLeft == {<<>>, <<y>>}
=============================================================================
