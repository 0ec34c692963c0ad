------------------------------- MODULE Executor -------------------------------
(***************************************************************************)
(* What ThreadPool promises to the code that uses it (the parallel blocks  *)
(* of runtime/inside/parallel.h): each task is run once, and a caller that *)
(* joins goes on only when all its tasks were run.                         *)
(***************************************************************************)
EXTENDS Naturals

CONSTANTS
    Tasks,
    Callers,
    TasksOf(_)      \* the tasks of a caller

VARIABLES
    ran,            \* how often each task was run
    gone            \* the callers that have gone on

executorVars == <<ran, gone>>

Init ==
    /\ ran = [t \in Tasks |-> 0]
    /\ gone = {}

Execute(t) ==
    /\ ran[t] = 0
    /\ ran' = [ran EXCEPT ![t] = 1]
    /\ UNCHANGED gone

GoOn(p) ==
    /\ p \notin gone
    /\ \A t \in TasksOf(p) : ran[t] = 1
    /\ gone' = gone \union {p}
    /\ UNCHANGED ran

Next == \/ \E t \in Tasks : Execute(t)
        \/ \E p \in Callers : GoOn(p)

Safety == Init /\ [][Next]_executorVars

\* Every task is run and every caller goes on.
Spec == Safety /\ WF_executorVars(Next)
=============================================================================
