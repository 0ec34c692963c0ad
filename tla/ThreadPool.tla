------------------------------ MODULE ThreadPool ------------------------------
(***************************************************************************)
(* ThreadPool and Thread of runtime/inside/thread_pool.cpp.  Callers hand  *)
(* tasks to cores and join; each core is a thread that runs the tasks it   *)
(* is given; when all callers are done the pool is destroyed.              *)
(*                                                                         *)
(* Each core has a task_mutex and a task_cond, the pool a                  *)
(* running_core_mutex and a running_core_cond.  A thread that waits for a  *)
(* condition may be woken for no reason; one that is notified before it    *)
(* waits is not woken.  A step is what a thread does between two points    *)
(* where another may see the difference: who holds a mutex from one step   *)
(* to the next is told by its program counter.                             *)
(***************************************************************************)
EXTENDS Integers, Sequences, FiniteSets, Functions

CONSTANTS
    Sizes,          \* the values of pool_size
    Tasks,
    Callers,
    TasksOf,        \* the tasks each caller runs, in order
    WithAfter,      \* the tasks that are given an after_task
    Waited,         \* the tasks whose Thread the caller joins at once
    Joining,        \* the callers that end with ThreadPool::join
    MaxWakes,       \* bound on the number of times threads are woken for nothing

    NoTask          \* nullptr

ASSUME SizesAssumption == Sizes \subseteq Nat /\ MaxWakes \in Nat

ASSUME CallersAssumption ==
    /\ TasksOf \in [Callers -> Seq(Tasks)]
    /\ Joining \subseteq Callers
    /\ NoTask \notin Tasks

\* A task is one call of ThreadPool::run.
ASSUME TasksAssumption ==
    \A p, q \in Callers : \A i \in DOMAIN TasksOf[p], j \in DOMAIN TasksOf[q] :
        TasksOf[p][i] = TasksOf[q][j] => p = q /\ i = j

VARIABLES
    size,           \* thread_pool.size(); never changes
    running_core,   \* the cores that are free, first to be taken first
    task,           \* Thread::task of each core
    is_running,     \* Thread::is_running of each core
    worker,         \* where Thread::operating is, on each core
    caller,         \* where each caller is
    next,           \* the next task of each caller, in TasksOf
    signet,         \* the core each caller was given last
    destroyer,      \* where ~ThreadPool is
    victim,         \* the core that is being deleted
    wakes,          \* how often a thread was woken for nothing
    ran,            \* how often each task was run
    followed        \* the tasks whose after_task was called

poolVars == <<size, running_core>>
threadVars == <<task, is_running, worker>>
callerVars == <<caller, next, signet>>
destroyerVars == <<destroyer, victim>>
history == <<ran, followed>>
vars == <<poolVars, threadVars, callerVars, destroyerVars, wakes, history>>

Cores == 0 .. size - 1

Init ==
    /\ size \in Sizes
    /\ running_core = [i \in 1 .. size |-> i - 1]
    /\ task = [c \in Cores |-> NoTask]
    /\ is_running = [c \in Cores |-> TRUE]
    /\ worker = [c \in Cores |-> "starting"]
    /\ caller = [p \in Callers |-> "calling"]
    /\ next = [p \in Callers |-> 1]
    /\ signet = [p \in Callers |-> -1]
    /\ destroyer = "alive"
    /\ victim = 0
    /\ wakes = 0
    /\ ran = [t \in Tasks |-> 0]
    /\ followed = {}

-----------------------------------------------------------------------------
\* operating holds task_mutex except while it waits; the others release it
\* in the step that takes it.
HoldsTaskMutex(c) == worker[c] \notin {"starting", "waiting", "woken", "exited"}

\* Who is between locking and unlocking running_core_mutex
PoolMutexFree == /\ \A p \in Callers : caller[p] \notin {"loading", "joining"}
                 /\ \A c \in Cores : worker[c] # "recycling"

WorkerAt(c, from, to) == worker[c] = from /\ worker' = [worker EXCEPT ![c] = to]
CallerAt(p, from, to) == caller[p] = from /\ caller' = [caller EXCEPT ![p] = to]

\* running_core_cond.notify_all(): the callers test their conditions again.
WakePool(at) == [p \in Callers |-> CASE at[p] = "waitingCore" -> "calling"
                                     [] at[p] = "waitingAll" -> "ending"
                                     [] OTHER -> at[p]]

\* task_cond.notify_all(), as seen by the callers that wait for core c
WakeJoiners(c) == [p \in Callers |-> IF caller[p] = "waitingThread" /\ signet[p] = c
                                     THEN "watching" ELSE caller[p]]

\* ... and by the thread of the core
WakeWorker(c) == [worker EXCEPT ![c] = IF @ = "waiting" THEN "woken" ELSE @]

-----------------------------------------------------------------------------
(***************************************************************************)
(* A caller: ThreadPool::run for each of its tasks, then ThreadPool::join. *)
(***************************************************************************)
HasMore(p) == next[p] <= Len(TasksOf[p])
NextTask(p) == TasksOf[p][next[p]]

\* A pool of no threads runs the task at once, and forgets the after_task.
RunHere(p) ==
    /\ size = 0
    /\ caller[p] = "calling" /\ HasMore(p)
    /\ ran' = [ran EXCEPT ![NextTask(p)] = @ + 1]
    /\ next' = [next EXCEPT ![p] = @ + 1]
    /\ UNCHANGED <<poolVars, threadVars, caller, signet, destroyerVars, followed, wakes>>

\* load locks running_core_mutex.
EnterLoad(p) ==
    /\ size > 0 /\ HasMore(p) /\ PoolMutexFree
    /\ CallerAt(p, "calling", "loading")
    /\ UNCHANGED <<poolVars, threadVars, next, signet, destroyerVars, history, wakes>>

\* Mistake: the core is not taken out of the queue.
LoadShared(p) ==
    /\ CallerAt(p, "loading", "handing")
    /\ running_core # <<>>
    /\ signet' = [signet EXCEPT ![p] = Head(running_core)]
    /\ UNCHANGED <<poolVars, threadVars, next, destroyerVars, history, wakes>>

Load(p) ==
    /\ CallerAt(p, "loading", "handing")
    /\ running_core # <<>>
    /\ signet' = [signet EXCEPT ![p] = Head(running_core)]
    /\ running_core' = Tail(running_core)
    /\ UNCHANGED <<size, threadVars, next, destroyerVars, history, wakes>>

LoadWaits(p) ==
    /\ running_core = <<>>
    /\ CallerAt(p, "loading", "waitingCore")
    /\ UNCHANGED <<poolVars, threadVars, next, signet, destroyerVars, history, wakes>>

\* Mistake: the task is set although the thread holds task_mutex.
HandUnlocked(p) ==
    LET c == signet[p]
    IN  /\ CallerAt(p, "handing", IF NextTask(p) \in Waited THEN "watching" ELSE "calling")
        /\ task' = [task EXCEPT ![c] = NextTask(p)]
        /\ worker' = WakeWorker(c)
        /\ next' = [next EXCEPT ![p] = @ + 1]
        /\ UNCHANGED <<poolVars, is_running, signet, destroyerVars, history, wakes>>

\* Thread::run: a core is in the queue before its thread has dropped the
\* task it ran, but the thread keeps task_mutex until it has.
Hand(p) ==
    LET c == signet[p]
    IN  /\ caller[p] = "handing"
        /\ ~HoldsTaskMutex(c)
        /\ caller' = [WakeJoiners(c) EXCEPT
                        ![p] = IF NextTask(p) \in Waited THEN "watching" ELSE "calling"]
        /\ task' = [task EXCEPT ![c] = NextTask(p)]
        /\ worker' = WakeWorker(c)
        /\ next' = [next EXCEPT ![p] = @ + 1]
        /\ UNCHANGED <<poolVars, is_running, signet, destroyerVars, history, wakes>>

\* Thread::join: locks task_mutex and waits while there is a task.
ThreadJoin(p) ==
    /\ CallerAt(p, "watching", IF task[signet[p]] = NoTask THEN "calling" ELSE "waitingThread")
    /\ ~HoldsTaskMutex(signet[p])
    /\ UNCHANGED <<poolVars, threadVars, next, signet, destroyerVars, history, wakes>>

\* The caller has run all its tasks.
LastTask(p) ==
    /\ ~HasMore(p)
    /\ CallerAt(p, "calling", IF p \in Joining THEN "ending" ELSE "left")
    /\ UNCHANGED <<poolVars, threadVars, next, signet, destroyerVars, history, wakes>>

EnterJoin(p) ==
    /\ PoolMutexFree
    /\ CallerAt(p, "ending", "joining")
    /\ UNCHANGED <<poolVars, threadVars, next, signet, destroyerVars, history, wakes>>

\* Mistake: it is enough that some core is free.
JoinAny(p) ==
    /\ CallerAt(p, "joining", IF running_core # <<>> \/ size = 0 THEN "left" ELSE "waitingAll")
    /\ UNCHANGED <<poolVars, threadVars, next, signet, destroyerVars, history, wakes>>

\* ThreadPool::join returns when all cores are free.
Join(p) ==
    /\ CallerAt(p, "joining", IF Len(running_core) = size THEN "left" ELSE "waitingAll")
    /\ UNCHANGED <<poolVars, threadVars, next, signet, destroyerVars, history, wakes>>

CallerStep(p) == \/ RunHere(p) \/ EnterLoad(p) \/ Load(p) \/ LoadWaits(p) \/ Hand(p)
                 \/ ThreadJoin(p) \/ LastTask(p) \/ EnterJoin(p) \/ Join(p)

\* Mistake: if for while in Thread::join
CallerWokenUntested(p) ==
    /\ wakes < MaxWakes /\ wakes' = wakes + 1
    /\ CallerAt(p, "waitingThread", "calling")
    /\ UNCHANGED <<poolVars, threadVars, next, signet, destroyerVars, history>>

CallerWokenForNothing(p) ==
    /\ wakes < MaxWakes /\ wakes' = wakes + 1
    /\ caller[p] \in {"waitingCore", "waitingAll", "waitingThread"}
    /\ caller' = [caller EXCEPT ![p] = CASE @ = "waitingCore" -> "calling"
                                         [] @ = "waitingAll" -> "ending"
                                         [] @ = "waitingThread" -> "watching"]
    /\ UNCHANGED <<poolVars, threadVars, next, signet, destroyerVars, history>>

-----------------------------------------------------------------------------
(***************************************************************************)
(* Thread::operating of core c                                             *)
(***************************************************************************)
Start(c) ==
    /\ WorkerAt(c, "starting", "outer")
    /\ UNCHANGED <<poolVars, task, is_running, callerVars, destroyerVars, history, wakes>>

\* while (is_running)
TestRunning(c) ==
    /\ WorkerAt(c, "outer", IF is_running[c] THEN "inner" ELSE "exited")
    /\ UNCHANGED <<poolVars, task, is_running, callerVars, destroyerVars, history, wakes>>

\* while (is_running && !task)
TestTask(c) ==
    /\ WorkerAt(c, "inner", IF is_running[c] /\ task[c] = NoTask THEN "goingToWait" ELSE "leaving")
    /\ UNCHANGED <<poolVars, task, is_running, callerVars, destroyerVars, history, wakes>>

\* task_cond.wait releases task_mutex and waits, in one step.
Wait(c) ==
    /\ WorkerAt(c, "goingToWait", "waiting")
    /\ UNCHANGED <<poolVars, task, is_running, callerVars, destroyerVars, history, wakes>>

Resume(c) ==
    /\ WorkerAt(c, "woken", "inner")
    /\ UNCHANGED <<poolVars, task, is_running, callerVars, destroyerVars, history, wakes>>

\* if (!is_running) break: a task that has come in meanwhile is not run.
TestStopped(c) ==
    /\ WorkerAt(c, "leaving", IF is_running[c] THEN "running" ELSE "exited")
    /\ UNCHANGED <<poolVars, task, is_running, callerVars, destroyerVars, history, wakes>>

RunTask(c) ==
    /\ WorkerAt(c, "running", "after")
    /\ ran' = [ran EXCEPT ![task[c]] = @ + 1]
    /\ UNCHANGED <<poolVars, task, is_running, callerVars, destroyerVars, followed, wakes>>

\* The after_task of the caller is called before the core is recycled;
\* recycling_thread locks running_core_mutex.
RunAfter(c) ==
    /\ PoolMutexFree
    /\ WorkerAt(c, "after", "recycling")
    /\ followed' = followed \union ({task[c]} \intersect WithAfter)
    /\ UNCHANGED <<poolVars, task, is_running, callerVars, destroyerVars, ran, wakes>>

\* Mistake: nobody is notified.
RecycleSilently(c) ==
    /\ WorkerAt(c, "recycling", "clearing")
    /\ running_core' = <<c>> \o running_core
    /\ UNCHANGED <<size, task, is_running, callerVars, destroyerVars, history, wakes>>

Recycle(c) ==
    /\ WorkerAt(c, "recycling", "clearing")
    /\ running_core' = <<c>> \o running_core
    /\ caller' = WakePool(caller)
    /\ UNCHANGED <<size, task, is_running, next, signet, destroyerVars, history, wakes>>

Clear(c) ==
    /\ WorkerAt(c, "clearing", "outer")
    /\ task' = [task EXCEPT ![c] = NoTask]
    /\ caller' = WakeJoiners(c)
    /\ UNCHANGED <<poolVars, is_running, next, signet, destroyerVars, history, wakes>>

WorkerStep(c) == \/ Start(c) \/ TestRunning(c) \/ TestTask(c) \/ Wait(c) \/ Resume(c)
                 \/ TestStopped(c) \/ RunTask(c) \/ RunAfter(c) \/ Recycle(c) \/ Clear(c)

WorkerWokenForNothing(c) ==
    /\ wakes < MaxWakes /\ wakes' = wakes + 1
    /\ WorkerAt(c, "waiting", "woken")
    /\ UNCHANGED <<poolVars, task, is_running, callerVars, destroyerVars, history>>

-----------------------------------------------------------------------------
(***************************************************************************)
(* ~ThreadPool deletes the threads one after the other.                    *)
(***************************************************************************)
\* No caller uses the pool any more.
BeginDestroy ==
    /\ destroyer = "alive"
    /\ \A p \in Callers : caller[p] = "left"
    /\ destroyer' = IF size = 0 THEN "destroyed" ELSE "stopping"
    /\ UNCHANGED <<poolVars, threadVars, callerVars, victim, history, wakes>>

\* ~Thread: is_running = false, without task_mutex
StopThread ==
    /\ destroyer = "stopping"
    /\ is_running' = [is_running EXCEPT ![victim] = FALSE]
    /\ destroyer' = "notifying"
    /\ UNCHANGED <<poolVars, task, worker, callerVars, victim, history, wakes>>

NotifyThread ==
    /\ destroyer = "notifying"
    /\ worker' = WakeWorker(victim)
    /\ caller' = WakeJoiners(victim)
    /\ destroyer' = "joining"
    /\ UNCHANGED <<poolVars, task, is_running, next, signet, victim, history, wakes>>

\* Mistake: core.detach()
DetachThread ==
    /\ destroyer = "joining"
    /\ IF victim = size - 1 THEN destroyer' = "destroyed" /\ UNCHANGED victim
       ELSE destroyer' = "stopping" /\ victim' = victim + 1
    /\ UNCHANGED <<poolVars, threadVars, callerVars, history, wakes>>

\* core.join()
JoinThread ==
    /\ destroyer = "joining"
    /\ worker[victim] = "exited"
    /\ IF victim = size - 1 THEN destroyer' = "destroyed" /\ UNCHANGED victim
       ELSE destroyer' = "stopping" /\ victim' = victim + 1
    /\ UNCHANGED <<poolVars, threadVars, callerVars, history, wakes>>

DestroyStep == BeginDestroy \/ StopThread \/ NotifyThread \/ JoinThread

Destroyed == destroyer = "destroyed" /\ UNCHANGED vars

-----------------------------------------------------------------------------
Next == \/ \E p \in Callers : CallerStep(p) \/ CallerWokenForNothing(p)
        \/ \E c \in Cores : WorkerStep(c) \/ WorkerWokenForNothing(c)
        \/ DestroyStep
        \/ Destroyed

Spec == Init /\ [][Next]_vars

PossibleCores == UNION {0 .. s - 1 : s \in Sizes}

\* Every thread that can go on does, in the end.  Nobody has to be woken
\* for nothing; as that happens finitely often and there are finitely many
\* tasks, no thread needs its mutexes to be fair.
FairSpec == /\ Spec
            /\ \A p \in Callers : WF_vars(CallerStep(p))
            /\ \A c \in PossibleCores : WF_vars(c \in Cores /\ WorkerStep(c))
            /\ WF_vars(DestroyStep)

-----------------------------------------------------------------------------
HoldingTask == {"running", "after", "recycling", "clearing"}

TypeOK ==
    /\ size \in Sizes
    /\ running_core \in Seq(Cores) /\ Len(running_core) <= size
    /\ task \in [Cores -> Tasks \union {NoTask}]
    /\ is_running \in [Cores -> BOOLEAN]
    /\ worker \in [Cores -> HoldingTask \union {"starting", "outer", "inner", "goingToWait",
                                                "waiting", "woken", "leaving", "exited"}]
    /\ \A c \in Cores : worker[c] \in HoldingTask => task[c] # NoTask
    /\ caller \in [Callers -> {"calling", "loading", "waitingCore", "handing", "watching",
                               "waitingThread", "ending", "joining", "waitingAll", "left"}]
    /\ next \in [Callers -> Nat \ {0}]
    /\ signet \in [Callers -> Cores \union {-1}]
    /\ destroyer \in {"alive", "stopping", "notifying", "joining", "destroyed"}
    /\ victim \in Cores \union {0}
    /\ wakes \in 0 .. MaxWakes
    /\ ran \in [Tasks -> Nat]
    /\ followed \subseteq WithAfter

(***************************************************************************)
(* No core is lost and none is given to two: each is in the queue, or with *)
(* one caller that is about to hand it a task, or has a task whose thread  *)
(* has not recycled it yet.  Who runs a task has one (TypeOK).             *)
(***************************************************************************)
CoresConserved ==
    /\ TypeOK
    /\ \A c \in Cores :
        Cardinality({i \in DOMAIN running_core : running_core[i] = c})
          + Cardinality({p \in Callers : caller[p] = "handing" /\ signet[p] = c})
          + (IF task[c] # NoTask /\ worker[c] # "clearing" THEN 1 ELSE 0) = 1

(***************************************************************************)
(* Thread::run never replaces a task: a core is recycled before its thread *)
(* drops the task, so a caller may have the core while the old task is     *)
(* still set.                                                              *)
(***************************************************************************)
NoTaskReplaced ==
    [][\A c \in Cores : task[c] # NoTask => task'[c] \in {task[c], NoTask}]_vars

(***************************************************************************)
(* Thread::join on a Thread that ThreadPool::run returned: the caller goes *)
(* on only after its task and the after_task were run.                     *)
(***************************************************************************)
Watching(p) == caller[p] \in {"watching", "waitingThread"}
WaitedAreDone ==
    \A p \in Callers : \A i \in 1 .. next[p] - 1 :
        LET t == TasksOf[p][i]
        IN  t \in Waited /\ ~(i = next[p] - 1 /\ Watching(p))
                => ran[t] = 1 /\ (t \in WithAfter /\ size > 0 => t \in followed)

(***************************************************************************)
(* After ~ThreadPool no thread is left, and tasks were run to their end    *)
(* or not at all: a core that is not back in the queue has a task that was *)
(* never started.                                                          *)
(***************************************************************************)
DestroyedIsSettled ==
    destroyer = "destroyed" =>
        \A c \in Cores : /\ worker[c] = "exited"
                         /\ c \in Range(running_core) <=> task[c] = NoTask
                         /\ task[c] # NoTask => ran[task[c]] = 0

\* The pool is an Executor to the callers that join.
Handed(p) == Range(TasksOf[p])
Joined == UNION {Handed(p) : p \in Joining}
Pool == INSTANCE Executor WITH Tasks <- Joined, Callers <- Joining, TasksOf <- Handed,
                               ran <- [t \in Joined |-> ran[t]],
                               gone <- {p \in Joining : caller[p] = "left"}
RunsEachTask == Pool!Spec

\* Whoever joins or waits for a core gets on, in the end.
CallersFinish == <>(\A p \in Callers : caller[p] = "left")

\* test/parallel.cpp: main leaves the scope of the pool and returns.
DestructionEnds == <>(destroyer = "destroyed")
=============================================================================
