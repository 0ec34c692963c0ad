----------------------------- MODULE MCThreadPool -----------------------------
(***************************************************************************)
(* ThreadPool with two callers of two tasks each, or with a single caller. *)
(***************************************************************************)
EXTENDS ThreadPool, TLC

CONSTANTS p1, p2, job1, job2, job3, job4

OneCaller == p1 :> <<job1, job2>>
TwoCallers == p1 :> <<job1, job2>> @@ p2 :> <<job3, job4>>
=============================================================================
