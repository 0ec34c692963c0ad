----------------------------- MODULE ConstFolding -----------------------------
(***************************************************************************)
(* Compiler::run_const_nodes (compiler/compiler.cpp): the operators that   *)
(* depend on constants only are run while compiling and replaced by Const  *)
(* nodes, and the nodes that need a replaced one are copied.               *)
(*                                                                         *)
(* run_const_node is recursive and remembers what it returned.  The loop   *)
(* over the outputs passes one variable as node and as const_node, so the  *)
(* assignment of the result also changes the key it is remembered under:   *)
(* the result for an output is filed under itself, and an output that      *)
(* turns up again is folded again.                                         *)
(***************************************************************************)
EXTENDS Zipper

CONSTANT Supported      \* the operators some creator is registered for

VARIABLE readyConst     \* ready_const; ready is ready_nonconst

foldingVars == <<translatorVars, readyConst>>

Folding == phase = "folding" /\ UNCHANGED module
Op(n) == OpOf(pool, n)

\* Mistake: results are always filed under themselves.
ResultKey(n, result) == result

\* The key a result is remembered under
MemoKey(n, result) == IF Callers = <<>> THEN result ELSE n

-----------------------------------------------------------------------------
UseReadyNonconst ==
    /\ Folding /\ Looking
    /\ LookedAt \in DOMAIN ready
    /\ ReturnTo(calls, LookedAt, ready[LookedAt], FALSE)
    /\ UNCHANGED <<phase, pool, outputs, ready, readyConst>>

Unknown == Folding /\ Looking /\ LookedAt \notin DOMAIN ready \union DOMAIN readyConst

UseReadyConst ==
    /\ Folding /\ Looking
    /\ LookedAt \in DOMAIN readyConst \ DOMAIN ready
    /\ ReturnTo(calls, LookedAt, readyConst[LookedAt], TRUE)
    /\ UNCHANGED <<phase, pool, outputs, ready, readyConst>>

RejectVariable ==
    /\ Unknown
    /\ Op(LookedAt) = "variable"
    /\ Rejected
    /\ UNCHANGED readyConst

TakeConst ==
    /\ Unknown
    /\ Op(LookedAt) = "const"
    /\ readyConst' = WithEntry(readyConst, LookedAt, LookedAt)
    /\ ReturnTo(calls, LookedAt, LookedAt, TRUE)
    /\ UNCHANGED <<phase, pool, outputs, ready>>

TakeParameter ==
    /\ Unknown
    /\ Op(LookedAt) = "param"
    /\ ready' = WithEntry(ready, LookedAt, LookedAt)
    /\ ReturnTo(calls, LookedAt, LookedAt, FALSE)
    /\ UNCHANGED <<phase, pool, outputs, readyConst>>

\* An operator: its inputs come first.
Enter ==
    /\ Unknown
    /\ Op(LookedAt) \notin EndPoints
    /\ calls' = Append(calls, CallOn(LookedAt, LookedAt))
    /\ UNCHANGED <<phase, pool, outputs, results, ready, readyConst>>

\* An operator on unchanged inputs stays what it is.
Keep ==
    /\ Folding /\ Seen
    /\ ~Caller.allConst /\ ~Caller.changed
    /\ ready' = WithEntry(ready, Caller.node, Caller.node)
    /\ ReturnTo(Callers, Caller.node, Caller.node, FALSE)
    /\ UNCHANGED <<phase, pool, outputs, readyConst>>

\* An operator some input of which was replaced: the same bubble, new links.
Copy ==
    /\ Folding /\ Seen
    /\ ~Caller.allConst /\ Caller.changed
    /\ pool' = Made(pool, pool.bubbles[Caller.node], Caller.inputs)
    /\ LET new == Newest(pool')
       IN  /\ ready' = WithEntry(ready, MemoKey(Caller.node, new), new)
           /\ ReturnTo(Callers, Caller.node, new, FALSE)
    /\ UNCHANGED <<phase, outputs, readyConst>>

\* What intime::run gives for an operator on Consts
Computed(n, consts) ==
    LET b == pool.bubbles[n]
    IN  DataBubble(b.name, Applied(b, [i \in DOMAIN consts |-> ConstData(pool, consts[i])]),
                   DTypeOf(n))

\* An operator on Consts: it is run, and a Const made for the result.
Compute ==
    /\ Folding /\ Seen
    /\ Caller.allConst
    /\ Op(Caller.node) \in Supported
    /\ pool' = Made(pool, Computed(Caller.node, Caller.inputs), <<>>)
    /\ LET new == Newest(pool')
       IN  /\ readyConst' = WithEntry(readyConst, MemoKey(Caller.node, new), new)
           /\ ReturnTo(Callers, Caller.node, new, TRUE)
    /\ UNCHANGED <<phase, outputs, ready>>

\* intime::run throws OperatorNotFoundException.
RejectOperator ==
    /\ Folding /\ Seen
    /\ Caller.allConst
    /\ Op(Caller.node) \notin Supported
    /\ Rejected
    /\ UNCHANGED readyConst

EndFolding ==
    /\ Folding /\ AllSeen
    /\ NextPass("compiling")
    /\ readyConst' = <<>>

FoldNext ==
    \/ UseReadyNonconst \/ UseReadyConst \/ RejectVariable \/ TakeConst \/ TakeParameter
    \/ Enter \/ Keep \/ Copy \/ Compute \/ RejectOperator \/ EndFolding
=============================================================================
