--------------------------- MODULE ThreadPool_proof ---------------------------
(***************************************************************************)
(* Proofs about ThreadPool, for any number of cores, callers and tasks: no *)
(* core is lost or given to two, no task is replaced, who waits for a task *)
(* finds it done, destruction leaves nothing half done, and the pool runs  *)
(* tasks and lets callers go on as an Executor does.                       *)
(***************************************************************************)
EXTENDS ThreadPool, TLAPS, FiniteSetTheorems

-----------------------------------------------------------------------------
(***************************************************************************)
(* The queue of free cores                                                 *)
(***************************************************************************)
Distinct(q) == \A i, j \in DOMAIN q : q[i] = q[j] => i = j

\* Taking the first core
LEMMA HeadTaken ==
    ASSUME NEW S, NEW q \in Seq(S), q # <<>>
    PROVE  /\ Head(q) \in S /\ Tail(q) \in Seq(S) /\ Len(Tail(q)) = Len(q) - 1
           /\ Range(q) = {Head(q)} \union Range(Tail(q))
           /\ Distinct(q) => Distinct(Tail(q)) /\ Head(q) \notin Range(Tail(q))
<1>1. /\ Len(q) \in Nat \ {0} /\ DOMAIN q = 1 .. Len(q) /\ Head(q) = q[1]
      /\ Tail(q) \in Seq(S) /\ Len(Tail(q)) = Len(q) - 1
      /\ DOMAIN Tail(q) = 1 .. Len(q) - 1
      /\ \A i \in 1 .. Len(q) - 1 : Tail(q)[i] = q[i + 1]
  OBVIOUS
<1>2. q[1] \in S
  BY <1>1
<1>3. ASSUME NEW x \in Range(q)  PROVE x = q[1] \/ x \in Range(Tail(q))
  <2>1. PICK i \in 1 .. Len(q) : x = q[i]
    BY <1>1 DEF Range
  <2>2. i # 1 => i - 1 \in DOMAIN Tail(q) /\ Tail(q)[i - 1] = x
    BY <1>1, <2>1
  <2> QED
    BY <2>1, <2>2 DEF Range
<1>4. ASSUME NEW x \in Range(Tail(q))  PROVE x \in Range(q)
  BY <1>1 DEF Range
<1>5. q[1] \in Range(q)
  BY <1>1 DEF Range
<1>6. ASSUME Distinct(q)  PROVE Distinct(Tail(q)) /\ q[1] \notin Range(Tail(q))
  <2>1. Distinct(Tail(q))
    BY <1>1, <1>6 DEF Distinct
  <2>2. \A i \in DOMAIN Tail(q) : Tail(q)[i] # q[1]
    BY <1>1, <1>6 DEF Distinct
  <2> QED
    BY <2>1, <2>2 DEF Range
<1> QED
  BY <1>1, <1>2, <1>3, <1>4, <1>5, <1>6

\* Putting a core first
LEMMA PutFirst ==
    ASSUME NEW S, NEW q \in Seq(S), NEW x \in S
    PROVE  /\ <<x>> \o q \in Seq(S) /\ Range(<<x>> \o q) = {x} \union Range(q)
           /\ Distinct(q) /\ x \notin Range(q) => Distinct(<<x>> \o q)
<1> DEFINE r == <<x>> \o q
<1>1. /\ Len(q) \in Nat /\ DOMAIN q = 1 .. Len(q)
      /\ r \in Seq(S) /\ DOMAIN r = 1 .. Len(q) + 1 /\ r[1] = x
      /\ \A i \in 1 .. Len(q) : r[i + 1] = q[i]
  OBVIOUS
<1> HIDE DEF r
<1>2. ASSUME NEW y \in Range(r)  PROVE y = x \/ y \in Range(q)
  <2>1. PICK i \in 1 .. Len(q) + 1 : y = r[i]
    BY <1>1 DEF Range
  <2>2. i # 1 => i - 1 \in 1 .. Len(q) /\ r[(i - 1) + 1] = y
    BY <1>1, <2>1
  <2> QED
    BY <1>1, <2>1, <2>2 DEF Range
<1>3. x \in Range(r) /\ \A y \in Range(q) : y \in Range(r)
  <2>1. 1 \in DOMAIN r /\ \A i \in 1 .. Len(q) : i + 1 \in DOMAIN r
    BY <1>1
  <2> QED
    BY <1>1, <2>1 DEF Range
<1>4. ASSUME Distinct(q), x \notin Range(q)  PROVE Distinct(r)
  <2>1. \A i \in 1 .. Len(q) : q[i] # x
    BY <1>1, <1>4 DEF Range
  <2>2. \A i \in 2 .. Len(q) + 1 : i - 1 \in 1 .. Len(q) /\ r[i] = q[i - 1]
    <3>1. \A i \in 2 .. Len(q) + 1 : i - 1 \in 1 .. Len(q) /\ r[(i - 1) + 1] = q[i - 1] /\ (i - 1) + 1 = i
      BY <1>1
    <3> QED
      BY <3>1
  <2> SUFFICES ASSUME NEW i \in 1 .. Len(q) + 1, NEW j \in 1 .. Len(q) + 1, r[i] = r[j]
               PROVE  i = j
    BY <1>1 DEF Distinct
  <2>3. CASE i = 1
    BY <1>1, <2>1, <2>2, <2>3
  <2>4. CASE j = 1
    BY <1>1, <2>1, <2>2, <2>4
  <2>5. CASE i # 1 /\ j # 1
    <3>1. i \in 2 .. Len(q) + 1 /\ j \in 2 .. Len(q) + 1
      BY <1>1, <2>5
    <3>2. q[i - 1] = q[j - 1] /\ i - 1 \in DOMAIN q /\ j - 1 \in DOMAIN q
      BY <1>1, <2>2, <3>1
    <3>3. i - 1 = j - 1
      BY <1>4, <3>2 DEF Distinct
    <3> QED
      BY <3>1, <3>3
  <2> QED
    BY <2>3, <2>4, <2>5
<1> QED
  BY <1>1, <1>2, <1>3, <1>4 DEF r

\* There are not more cores in the queue than in the pool, and when there
\* are as many, each core is there.
LEMMA QueueFits ==
    ASSUME NEW n \in Nat, NEW q \in Seq(0 .. n - 1), Distinct(q)
    PROVE  Len(q) <= n /\ (Len(q) = n => Range(q) = 0 .. n - 1)
<1> DEFINE S == 0 .. n - 1  D == 1 .. Len(q)
<1>1. Len(q) \in Nat /\ DOMAIN q = D /\ q \in [D -> S]
  OBVIOUS
<1>2. IsFiniteSet(S) /\ Cardinality(S) = n /\ Cardinality(D) = Len(q)
  <2>1. IsFiniteSet(0 .. n - 1) /\ Cardinality(0 .. n - 1) = n
    <3>1. n - 1 \in Int /\ (0 > n - 1 => n = 0)
      OBVIOUS
    <3> QED
      BY <3>1, FS_Interval
  <2>2. Cardinality(1 .. Len(q)) = Len(q)
    <3> DEFINE l == Len(q)
    <3>1. l \in Int /\ 1 \in Int /\ (1 > l => l = 0)
      BY <1>1
    <3> HIDE DEF l
    <3>2. Cardinality(1 .. l) = IF 1 > l THEN 0 ELSE l - 1 + 1
      BY <3>1, FS_Interval
    <3>3. Cardinality(1 .. l) = l
      BY <3>1, <3>2
    <3> QED
      BY <3>3 DEF l
  <2> QED
    BY <2>1, <2>2
<1>3. q \in Injection(D, S)
  BY <1>1 DEF Distinct, Injection, IsInjective
<1> HIDE DEF S, D
<1>4. Cardinality(D) <= Cardinality(S) /\ (Cardinality(D) = Cardinality(S) <=> q \in Surjection(D, S))
  BY <1>2, <1>3, FS_Injection
<1>5. ASSUME q \in Surjection(D, S)  PROVE Range(q) = S
  <2>1. \A s \in S : \E i \in D : q[i] = s
    BY <1>5 DEF Surjection
  <2> QED
    BY <1>1, <2>1 DEF Range
<1> QED
  BY <1>2, <1>4, <1>5 DEF S

-----------------------------------------------------------------------------
(***************************************************************************)
(* The inductive invariant                                                 *)
(***************************************************************************)
\* The cores with a task that their thread has not finished with
BusyCores == {c \in Cores : task[c] # NoTask /\ worker[c] # "clearing"}

Queue == Range(running_core)

CoresOwned ==
    /\ Distinct(running_core)
    /\ Queue \intersect BusyCores = {}
    /\ \A p \in Callers : caller[p] = "handing" => signet[p] \in Cores \ (Queue \union BusyCores)
    /\ \A p, q \in Callers :
          caller[p] = "handing" /\ caller[q] = "handing" /\ signet[q] = signet[p] => q = p
    /\ \A c \in Cores : \/ c \in Queue \union BusyCores
                        \/ \E p \in Callers : caller[p] = "handing" /\ signet[p] = c

\* A thread leaves the loop of operating with a task or because it is stopped.
WorkersPlaced ==
    \A c \in Cores : worker[c] = "leaving" => task[c] # NoTask \/ ~is_running[c]

\* What is known where a caller is
CallersPlaced ==
    \A p \in Callers :
        /\ next[p] <= Len(TasksOf[p]) + 1
        /\ caller[p] \in {"loading", "handing"} => HasMore(p)
        /\ caller[p] \in {"ending", "joining", "waitingAll"} => ~HasMore(p) /\ p \in Joining
        /\ caller[p] = "left" => ~HasMore(p)
        /\ caller[p] \in {"watching", "waitingThread"} => signet[p] \in Cores /\ next[p] > 1

OnCore(t) == \E c \in Cores : task[c] = t

Done(t) == ran[t] = 1 /\ (t \in WithAfter /\ size > 0 => t \in followed)

\* How far the thread of a core is with its task; no two cores have the same.
TasksOnCores ==
    /\ \A c \in Cores : task[c] # NoTask =>
        /\ ran[task[c]] = IF worker[c] \in {"after", "recycling", "clearing"} THEN 1 ELSE 0
        /\ worker[c] \in {"recycling", "clearing"} /\ task[c] \in WithAfter
              => task[c] \in followed
    /\ \A c, d \in Cores : task[c] = task[d] /\ task[c] # NoTask => c = d

\* A task that a caller has run is on a core or done; no other was touched.
TasksOfCallers ==
    \A p \in Callers : \A i \in DOMAIN TasksOf[p] :
        LET t == TasksOf[p][i]
        IN  /\ i < next[p] => OnCore(t) \/ Done(t)
            /\ i >= next[p] => ~OnCore(t) /\ ran[t] = 0

\* A task that was waited for has left its core.
WaitedHaveLeft ==
    \A p \in Callers : \A i \in DOMAIN TasksOf[p] :
        LET t == TasksOf[p][i]
        IN  i < next[p] /\ t \in Waited =>
              /\ i # next[p] - 1 \/ ~Watching(p) => ~OnCore(t)
              /\ Watching(p) => \A c \in Cores : task[c] = t => c = signet[p]

Destruction ==
    /\ destroyer # "alive" => \A p \in Callers : caller[p] = "left"
    /\ destroyer = "alive" => victim = 0
    /\ destroyer \in {"stopping", "notifying", "joining"} =>
          victim \in Cores /\ \A c \in 0 .. victim - 1 : worker[c] = "exited"
    /\ destroyer = "destroyed" => \A c \in Cores : worker[c] = "exited"

Inductive == /\ TypeOK /\ CoresOwned /\ WorkersPlaced /\ CallersPlaced /\ TasksOnCores
             /\ TasksOfCallers /\ WaitedHaveLeft /\ Destruction

-----------------------------------------------------------------------------
(***************************************************************************)
(* Who is woken goes back to test what it waits for; nobody else moves.    *)
(***************************************************************************)
CallerPlaces == {"calling", "loading", "waitingCore", "handing", "watching",
                 "waitingThread", "ending", "joining", "waitingAll", "left"}

LEMMA JoinersWoken ==
    ASSUME NEW c, caller \in [Callers -> CallerPlaces]
    PROVE  /\ WakeJoiners(c) \in [Callers -> CallerPlaces]
           /\ \A p \in Callers : \/ WakeJoiners(c)[p] = caller[p]
                                 \/ caller[p] = "waitingThread" /\ WakeJoiners(c)[p] = "watching"
BY DEF WakeJoiners, CallerPlaces

LEMMA PoolWoken ==
    ASSUME caller \in [Callers -> CallerPlaces]
    PROVE  /\ WakePool(caller) \in [Callers -> CallerPlaces]
           /\ \A p \in Callers : \/ WakePool(caller)[p] = caller[p]
                                 \/ caller[p] = "waitingCore" /\ WakePool(caller)[p] = "calling"
                                 \/ caller[p] = "waitingAll" /\ WakePool(caller)[p] = "ending"
BY DEF WakePool, CallerPlaces

LEMMA WorkerWoken ==
    ASSUME TypeOK, NEW c \in Cores
    PROVE  \A d \in Cores : \/ WakeWorker(c)[d] = worker[d]
                            \/ worker[d] = "waiting" /\ WakeWorker(c)[d] = "woken"
BY DEF WakeWorker, TypeOK

-----------------------------------------------------------------------------
(***************************************************************************)
(* Types                                                                   *)
(***************************************************************************)
LEMMA SizeIsNatural == ASSUME TypeOK  PROVE size \in Nat
BY SizesAssumption DEF TypeOK

LEMMA NextTaskIsTask ==
    ASSUME TypeOK, NEW p \in Callers, HasMore(p)
    PROVE  NextTask(p) \in Tasks /\ NextTask(p) # NoTask /\ next[p] \in DOMAIN TasksOf[p]
BY CallersAssumption DEF TypeOK, HasMore, NextTask

\* A core that is recycled was not in the queue.
LEMMA RecycledFits ==
    ASSUME Inductive, NEW c \in Cores, Recycle(c)
    PROVE  /\ running_core' \in Seq(Cores) /\ Len(running_core') <= size
           /\ Range(running_core') = {c} \union Range(running_core) /\ Distinct(running_core')
<1>1. /\ running_core \in Seq(Cores) /\ Distinct(running_core) /\ c \notin Queue
      /\ running_core' = <<c>> \o running_core
  BY DEF Inductive, TypeOK, CoresOwned, Recycle, WorkerAt, HoldingTask, BusyCores
<1>2. /\ running_core' \in Seq(Cores) /\ Range(running_core') = {c} \union Range(running_core)
      /\ Distinct(running_core')
  BY <1>1, PutFirst DEF Queue
<1>3. Len(running_core') <= size
  BY <1>2, QueueFits, SizeIsNatural DEF Cores, Inductive
<1> QED
  BY <1>2, <1>3

LEMMA CallerTyped ==
    ASSUME Inductive, NEW p \in Callers, CallerStep(p)
    PROVE  TypeOK'
<1> USE DEF Inductive, TypeOK, Cores, poolVars, threadVars, callerVars, destroyerVars, history,
            CallerAt
<1>1. CASE RunHere(p)
  BY <1>1, NextTaskIsTask DEF RunHere
<1>2. CASE EnterLoad(p)
  BY <1>2 DEF EnterLoad
<1>3. CASE Load(p)
  <2>1. /\ running_core # <<>> /\ running_core \in Seq(Cores) /\ Len(running_core) <= size
        /\ running_core' = Tail(running_core) /\ signet' = [signet EXCEPT ![p] = Head(running_core)]
    BY <1>3 DEF Load
  <2>2. Head(running_core) \in Cores /\ running_core' \in Seq(Cores) /\ Len(running_core') <= size
    <3>1. /\ Head(running_core) \in Cores /\ Tail(running_core) \in Seq(Cores)
          /\ Len(Tail(running_core)) = Len(running_core) - 1
      BY <2>1, HeadTaken
    <3> QED
      BY <2>1, <3>1, SizeIsNatural
  <2> QED
    BY <1>3, <2>2 DEF Load
<1>4. CASE LoadWaits(p)
  BY <1>4 DEF LoadWaits
<1>5. CASE Hand(p)
  BY <1>5, NextTaskIsTask, JoinersWoken DEF Hand, WakeWorker, HoldsTaskMutex, CoresOwned, CallersPlaced, CallerPlaces
<1>6. CASE ThreadJoin(p)
  BY <1>6 DEF ThreadJoin
<1>7. CASE LastTask(p)
  BY <1>7 DEF LastTask
<1>8. CASE EnterJoin(p)
  BY <1>8 DEF EnterJoin
<1>9. CASE Join(p)
  BY <1>9 DEF Join
<1> QED
  BY <1>1, <1>2, <1>3, <1>4, <1>5, <1>6, <1>7, <1>8, <1>9 DEF CallerStep

LEMMA WorkerTyped ==
    ASSUME Inductive, NEW c \in Cores, WorkerStep(c)
    PROVE  TypeOK'
<1> USE DEF Inductive, TypeOK, Cores, poolVars, threadVars, callerVars, destroyerVars, history,
            WorkerAt, HoldingTask
<1>1. CASE Start(c)
  BY <1>1 DEF Start
<1>2. CASE TestRunning(c)
  BY <1>2 DEF TestRunning
<1>3. CASE TestTask(c)
  BY <1>3 DEF TestTask
<1>4. CASE Wait(c)
  BY <1>4 DEF Wait
<1>5. CASE Resume(c)
  BY <1>5 DEF Resume
<1>6. CASE TestStopped(c)
  BY <1>6 DEF TestStopped, WorkersPlaced
<1>7. CASE RunTask(c)
  BY <1>7 DEF RunTask
<1>8. CASE RunAfter(c)
  BY <1>8 DEF RunAfter
<1>9. CASE Recycle(c)
  <2>1. running_core' \in Seq(Cores) /\ Len(running_core') <= size
    BY <1>9, RecycledFits
  <2> QED
    BY <1>9, <2>1, PoolWoken DEF Recycle, CallerPlaces
<1>10. CASE Clear(c)
  BY <1>10, JoinersWoken DEF Clear, CallerPlaces
<1> QED
  BY <1>1, <1>2, <1>3, <1>4, <1>5, <1>6, <1>7, <1>8, <1>9, <1>10 DEF WorkerStep

LEMMA OthersTyped ==
    ASSUME Inductive,
           \/ \E p \in Callers : CallerWokenForNothing(p)
           \/ \E c \in Cores : WorkerWokenForNothing(c)
           \/ DestroyStep
    PROVE  TypeOK'
<1> USE DEF Inductive, TypeOK, Cores, poolVars, threadVars, callerVars, destroyerVars, history
<1>1. ASSUME NEW p \in Callers, CallerWokenForNothing(p)  PROVE TypeOK'
  BY <1>1, SizesAssumption DEF CallerWokenForNothing
<1>2. ASSUME NEW c \in Cores, WorkerWokenForNothing(c)  PROVE TypeOK'
  BY <1>2, SizesAssumption DEF WorkerWokenForNothing, WorkerAt, HoldingTask
<1>3. CASE BeginDestroy
  BY <1>3 DEF BeginDestroy
<1>4. CASE StopThread
  BY <1>4 DEF StopThread
<1>5. CASE NotifyThread
  BY <1>5, JoinersWoken DEF NotifyThread, WakeWorker, CallerPlaces, HoldingTask, Destruction
<1>6. CASE JoinThread
  <2>1. victim' \in Cores'
    BY <1>6, SizeIsNatural DEF JoinThread, Destruction
  <2> QED
    BY <1>6, <2>1 DEF JoinThread
<1> QED
  BY <1>1, <1>2, <1>3, <1>4, <1>5, <1>6 DEF DestroyStep

LEMMA TypesKept ==
    ASSUME Inductive, [Next]_vars
    PROVE  TypeOK'
<1>1. CASE UNCHANGED vars
  BY <1>1 DEF Inductive, TypeOK, Cores, vars, poolVars, threadVars, callerVars, destroyerVars, history
<1> QED
  BY <1>1, CallerTyped, WorkerTyped, OthersTyped DEF Next, Destroyed

-----------------------------------------------------------------------------
(***************************************************************************)
(* Whose the cores are                                                     *)
(***************************************************************************)
\* Most steps change neither the queue nor who holds a core nor who is busy.
OwnersKept ==
    /\ UNCHANGED <<size, running_core, task, signet>>
    /\ \A c \in Cores : worker'[c] = "clearing" <=> worker[c] = "clearing"
    /\ \A p \in Callers : caller'[p] = "handing" <=> caller[p] = "handing"

LEMMA CallerKeepsOwners ==
    ASSUME Inductive, NEW p \in Callers, CallerStep(p)
    PROVE  OwnersKept \/ Load(p) \/ Hand(p)
<1> USE DEF Inductive, TypeOK, OwnersKept, poolVars, threadVars, callerVars, CallerAt
<1>1. CASE RunHere(p)
  BY <1>1 DEF RunHere
<1>2. CASE EnterLoad(p)
  BY <1>2 DEF EnterLoad
<1>3. CASE LoadWaits(p)
  BY <1>3 DEF LoadWaits
<1>4. CASE ThreadJoin(p)
  BY <1>4 DEF ThreadJoin
<1>5. CASE LastTask(p)
  BY <1>5 DEF LastTask
<1>6. CASE EnterJoin(p)
  BY <1>6 DEF EnterJoin
<1>7. CASE Join(p)
  BY <1>7 DEF Join
<1> QED
  BY <1>1, <1>2, <1>3, <1>4, <1>5, <1>6, <1>7 DEF CallerStep

LEMMA WorkerKeepsOwners ==
    ASSUME Inductive, NEW c \in Cores, WorkerStep(c)
    PROVE  OwnersKept \/ Recycle(c) \/ Clear(c)
<1> USE DEF Inductive, TypeOK, OwnersKept, poolVars, threadVars, callerVars, WorkerAt
<1>1. CASE Start(c)
  BY <1>1 DEF Start
<1>2. CASE TestRunning(c)
  BY <1>2 DEF TestRunning
<1>3. CASE TestTask(c)
  BY <1>3 DEF TestTask
<1>4. CASE Wait(c)
  BY <1>4 DEF Wait
<1>5. CASE Resume(c)
  BY <1>5 DEF Resume
<1>6. CASE TestStopped(c)
  BY <1>6 DEF TestStopped
<1>7. CASE RunTask(c)
  BY <1>7 DEF RunTask
<1>8. CASE RunAfter(c)
  BY <1>8 DEF RunAfter
<1> QED
  BY <1>1, <1>2, <1>3, <1>4, <1>5, <1>6, <1>7, <1>8 DEF WorkerStep

LEMMA OthersKeepOwners ==
    ASSUME Inductive,
           \/ \E p \in Callers : CallerWokenForNothing(p)
           \/ \E c \in Cores : WorkerWokenForNothing(c)
           \/ DestroyStep
           \/ UNCHANGED vars
    PROVE  OwnersKept
<1> USE DEF Inductive, OwnersKept, poolVars, threadVars, callerVars
<1>1. ASSUME NEW p \in Callers, CallerWokenForNothing(p)  PROVE OwnersKept
  BY <1>1 DEF CallerWokenForNothing, TypeOK
<1>2. ASSUME NEW c \in Cores, WorkerWokenForNothing(c)  PROVE OwnersKept
  BY <1>2 DEF WorkerWokenForNothing, WorkerAt, TypeOK
<1>3. CASE BeginDestroy \/ StopThread \/ JoinThread \/ UNCHANGED vars
  BY <1>3 DEF BeginDestroy, StopThread, JoinThread, vars
<1>4. CASE NotifyThread
  <2>1. caller \in [Callers -> CallerPlaces] /\ victim \in Cores
    BY <1>4 DEF TypeOK, CallerPlaces, Destruction, NotifyThread
  <2> QED
    BY <1>4, <2>1, JoinersWoken, WorkerWoken DEF NotifyThread
<1> QED
  BY <1>1, <1>2, <1>3, <1>4 DEF DestroyStep

\* Each core stays somebody's.
LEMMA OwnersStay ==
    ASSUME Inductive, [Next]_vars
    PROVE  CoresOwned'
<1> USE DEF Inductive
<1>1. CASE OwnersKept
  <2>1. Cores' = Cores /\ BusyCores' = BusyCores /\ Queue' = Queue
    BY <1>1 DEF OwnersKept, Cores, BusyCores, Queue
  <2> QED
    BY <1>1, <2>1 DEF CoresOwned, OwnersKept
<1>2. ASSUME NEW p \in Callers, Load(p)  PROVE CoresOwned'
  <2> DEFINE h == Head(running_core)
  <2>1. h \in Cores /\ Queue = {h} \union Queue' /\ h \notin Queue' /\ Distinct(running_core')
    BY <1>2, HeadTaken DEF Load, TypeOK, CoresOwned, Queue
  <2>2. /\ signet' = [signet EXCEPT ![p] = h]
        /\ caller' = [caller EXCEPT ![p] = "handing"] /\ caller[p] = "loading"
        /\ UNCHANGED <<size, task, worker>>
    BY <1>2 DEF Load, CallerAt, threadVars
  <2> HIDE DEF h
  <2>3. Cores' = Cores /\ BusyCores' = BusyCores
    BY <2>2 DEF Cores, BusyCores
  <2>4. \A q \in Callers : /\ q # p => signet'[q] = signet[q] /\ caller'[q] = caller[q]
                           /\ q = p => signet'[q] = h /\ caller'[q] = "handing"
    BY <2>2 DEF TypeOK
  <2> QED
    BY <2>1, <2>2, <2>3, <2>4 DEF CoresOwned
<1>3. ASSUME NEW p \in Callers, Hand(p)  PROVE CoresOwned'
  <2> DEFINE h == signet[p]
  <2>1. /\ caller[p] = "handing" /\ caller' = [WakeJoiners(h) EXCEPT
                            ![p] = IF NextTask(p) \in Waited THEN "watching" ELSE "calling"]
        /\ task' = [task EXCEPT ![h] = NextTask(p)] /\ worker' = WakeWorker(h)
        /\ UNCHANGED <<size, running_core, signet>> /\ ~HoldsTaskMutex(h)
    BY <1>3 DEF Hand, poolVars
  <2>2. h \in Cores /\ NextTask(p) # NoTask
    BY <1>3, <2>1, NextTaskIsTask DEF CoresOwned, CallersPlaced
  <2>3. \A q \in Callers : /\ q # p => (caller'[q] = "handing" <=> caller[q] = "handing")
                           /\ caller'[p] # "handing"
    <3>1. caller \in [Callers -> CallerPlaces]
      BY DEF TypeOK, CallerPlaces
    <3> QED
      BY <2>1, <3>1, JoinersWoken
  <2>4. \A c \in Cores : worker'[c] = "clearing" <=> worker[c] = "clearing"
    BY <2>1, <2>2, WorkerWoken
  <2>5. Cores' = Cores /\ Queue' = Queue /\ Distinct(running_core') = Distinct(running_core)
    BY <2>1 DEF Cores, Queue
  <2>6. BusyCores' = BusyCores \union {h}
    <3>1. worker[h] # "clearing"
      BY <2>1 DEF HoldsTaskMutex
    <3> QED
      BY <2>1, <2>2, <2>4, <2>5, <3>1 DEF BusyCores, TypeOK
  <2> HIDE DEF h
  <2> QED
    BY <2>1, <2>2, <2>3, <2>5, <2>6 DEF CoresOwned, h
<1>4. ASSUME NEW c \in Cores, Recycle(c)  PROVE CoresOwned'
  <2>1. Queue' = {c} \union Queue /\ Distinct(running_core')
    BY <1>4, RecycledFits DEF Queue
  <2>2. /\ worker[c] = "recycling" /\ worker' = [worker EXCEPT ![c] = "clearing"]
        /\ caller' = WakePool(caller) /\ UNCHANGED <<size, task, signet>>
    BY <1>4 DEF Recycle, WorkerAt
  <2>3. Cores' = Cores /\ c \in BusyCores /\ BusyCores' = BusyCores \ {c}
    BY <2>2 DEF Cores, BusyCores, TypeOK, HoldingTask
  <2>4. \A p \in Callers : caller'[p] = "handing" <=> caller[p] = "handing"
    <3>1. caller \in [Callers -> CallerPlaces]
      BY DEF TypeOK, CallerPlaces
    <3> QED
      BY <2>2, <3>1, PoolWoken
  <2> QED
    BY <2>1, <2>2, <2>3, <2>4 DEF CoresOwned
<1>5. ASSUME NEW c \in Cores, Clear(c)  PROVE CoresOwned'
  <2>1. /\ worker[c] = "clearing" /\ worker' = [worker EXCEPT ![c] = "outer"]
        /\ task' = [task EXCEPT ![c] = NoTask]
        /\ caller' = WakeJoiners(c) /\ UNCHANGED <<size, running_core, signet>>
    BY <1>5 DEF Clear, WorkerAt, poolVars
  <2>2. Cores' = Cores /\ BusyCores' = BusyCores /\ Queue' = Queue
    BY <2>1 DEF Cores, BusyCores, Queue, TypeOK
  <2>3. \A p \in Callers : caller'[p] = "handing" <=> caller[p] = "handing"
    <3>1. caller \in [Callers -> CallerPlaces]
      BY DEF TypeOK, CallerPlaces
    <3> QED
      BY <2>1, <3>1, JoinersWoken
  <2> QED
    BY <2>1, <2>2, <2>3 DEF CoresOwned
<1> QED
  BY <1>1, <1>2, <1>3, <1>4, <1>5, CallerKeepsOwners, WorkerKeepsOwners, OthersKeepOwners
     DEF Next, Destroyed

-----------------------------------------------------------------------------
(***************************************************************************)
(* Where threads and callers are                                           *)
(***************************************************************************)
LEMMA WorkersStayPlaced ==
    ASSUME Inductive, [Next]_vars
    PROVE  WorkersPlaced'
<1> USE DEF Inductive, TypeOK, WorkersPlaced, Cores, poolVars, threadVars, callerVars,
            destroyerVars, history
<1>1. ASSUME NEW p \in Callers, CallerStep(p)  PROVE WorkersPlaced'
  <2>1. CASE Hand(p)
    <3>1. signet[p] \in Cores
      BY <2>1 DEF Hand, CoresOwned
    <3> QED
      BY <2>1, <3>1, WorkerWoken, NextTaskIsTask DEF Hand, CallersPlaced
  <2>2. CASE ~Hand(p)
    BY <1>1, <2>2 DEF CallerStep, RunHere, EnterLoad, Load, LoadWaits, ThreadJoin, LastTask,
                      EnterJoin, Join
  <2> QED
    BY <2>1, <2>2
<1>2. ASSUME NEW c \in Cores, WorkerStep(c)  PROVE WorkersPlaced'
  <2>1. CASE TestTask(c)
    BY <2>1 DEF TestTask, WorkerAt
  <2>2. CASE RunTask(c) \/ RunAfter(c) \/ Recycle(c)
    BY <2>2 DEF RunTask, RunAfter, Recycle, WorkerAt
  <2>3. CASE Clear(c)
    BY <2>3 DEF Clear, WorkerAt
  <2>4. CASE Start(c) \/ TestRunning(c) \/ Wait(c) \/ Resume(c) \/ TestStopped(c)
    BY <2>4 DEF Start, TestRunning, Wait, Resume, TestStopped, WorkerAt
  <2> QED
    BY <1>2, <2>1, <2>2, <2>3, <2>4 DEF WorkerStep
<1>3. ASSUME NEW p \in Callers, CallerWokenForNothing(p)  PROVE WorkersPlaced'
  BY <1>3 DEF CallerWokenForNothing
<1>4. ASSUME NEW c \in Cores, WorkerWokenForNothing(c)  PROVE WorkersPlaced'
  BY <1>4 DEF WorkerWokenForNothing, WorkerAt
<1>5. CASE BeginDestroy \/ JoinThread \/ UNCHANGED vars
  BY <1>5 DEF BeginDestroy, JoinThread, vars
<1>6. CASE StopThread
  BY <1>6 DEF StopThread
<1>7. CASE NotifyThread
  BY <1>7, WorkerWoken DEF NotifyThread, Destruction
<1> QED
  BY <1>1, <1>2, <1>3, <1>4, <1>5, <1>6, <1>7 DEF Next, DestroyStep, Destroyed

LEMMA CallersStayPlaced ==
    ASSUME Inductive, [Next]_vars
    PROVE  CallersPlaced'
<1> USE DEF Inductive, TypeOK, CallersPlaced, HasMore, Cores, poolVars, callerVars
<1>1. caller \in [Callers -> CallerPlaces]
  BY DEF CallerPlaces
<1>2. ASSUME NEW p \in Callers, CallerStep(p)  PROVE CallersPlaced'
  <2>1. TasksOf \in [Callers -> Seq(Tasks)] /\ Len(TasksOf[p]) \in Nat
    BY CallersAssumption
  <2>2. CASE RunHere(p)
    BY <2>1, <2>2 DEF RunHere, threadVars
  <2>3. CASE EnterLoad(p) \/ LoadWaits(p)
    BY <2>3 DEF EnterLoad, LoadWaits, CallerAt
  <2>4. CASE Load(p)
    BY <2>4 DEF Load, CallerAt
  <2>5. CASE Hand(p)
    <3>1. signet[p] \in Cores
      BY <2>5 DEF Hand, CoresOwned
    <3>2. /\ caller[p] = "handing" /\ next' = [next EXCEPT ![p] = @ + 1] /\ UNCHANGED <<signet, size>>
          /\ caller' = [WakeJoiners(signet[p]) EXCEPT
                            ![p] = IF NextTask(p) \in Waited THEN "watching" ELSE "calling"]
      BY <2>5 DEF Hand
    <3>3. \A q \in Callers : q # p =>
              /\ next'[q] = next[q]
              /\ \/ caller'[q] = caller[q]
                 \/ caller[q] = "waitingThread" /\ caller'[q] = "watching"
      BY <1>1, <3>2, JoinersWoken
    <3>4. next'[p] = next[p] + 1 /\ caller'[p] \in {"watching", "calling"}
      BY <1>1, <3>2, JoinersWoken
    <3>5. next[p] \in Nat /\ next[p] >= 1 /\ next[p] <= Len(TasksOf[p])
      BY <2>5 DEF Hand
    <3> HIDE DEF TypeOK, Inductive
    <3>6. CallersPlaced
      BY DEF Inductive
    <3> QED
      BY <2>1, <3>1, <3>2, <3>3, <3>4, <3>5, <3>6
  <2>6. CASE ThreadJoin(p)
    BY <2>6 DEF ThreadJoin, CallerAt
  <2>7. CASE LastTask(p)
    BY <2>7 DEF LastTask, CallerAt
  <2>8. CASE EnterJoin(p) \/ Join(p)
    BY <2>8 DEF EnterJoin, Join, CallerAt
  <2> QED
    BY <1>2, <2>2, <2>3, <2>4, <2>5, <2>6, <2>7, <2>8 DEF CallerStep
<1>3. ASSUME NEW c \in Cores, WorkerStep(c)  PROVE CallersPlaced'
  <2>1. CASE Recycle(c)
    BY <1>1, <2>1, PoolWoken DEF Recycle
  <2>2. CASE Clear(c)
    BY <1>1, <2>2, JoinersWoken DEF Clear
  <2>3. CASE ~Recycle(c) /\ ~Clear(c)
    BY <1>3, <2>3 DEF WorkerStep, Start, TestRunning, TestTask, Wait, Resume, TestStopped,
                      RunTask, RunAfter
  <2> QED
    BY <2>1, <2>2, <2>3
<1>4. ASSUME NEW p \in Callers, CallerWokenForNothing(p)  PROVE CallersPlaced'
  BY <1>4 DEF CallerWokenForNothing
<1>5. ASSUME NEW c \in Cores, WorkerWokenForNothing(c)  PROVE CallersPlaced'
  BY <1>5 DEF WorkerWokenForNothing
<1>6. CASE BeginDestroy \/ StopThread \/ JoinThread \/ UNCHANGED vars
  BY <1>6 DEF BeginDestroy, StopThread, JoinThread, vars
<1>7. CASE NotifyThread
  BY <1>1, <1>7, JoinersWoken DEF NotifyThread
<1> QED
  BY <1>2, <1>3, <1>4, <1>5, <1>6, <1>7 DEF Next, DestroyStep, Destroyed

-----------------------------------------------------------------------------
(***************************************************************************)
(* What happens to the tasks                                               *)
(***************************************************************************)
LEMMA TasksAreTasks ==
    ASSUME NEW p \in Callers, NEW i \in DOMAIN TasksOf[p]
    PROVE  TasksOf[p][i] \in Tasks /\ TasksOf[p][i] # NoTask /\ i \in Nat /\ i >= 1
BY CallersAssumption

\* A task that is handed was on no core, and its core had none.
LEMMA HandedIsNew ==
    ASSUME Inductive, NEW p \in Callers, Hand(p)
    PROVE  /\ signet[p] \in Cores /\ task[signet[p]] = NoTask
           /\ worker[signet[p]] \in {"starting", "waiting", "woken", "exited"}
           /\ NextTask(p) \in Tasks /\ NextTask(p) # NoTask
           /\ next[p] \in DOMAIN TasksOf[p] /\ NextTask(p) = TasksOf[p][next[p]]
           /\ ran[NextTask(p)] = 0 /\ ~OnCore(NextTask(p))
           /\ task' = [task EXCEPT ![signet[p]] = NextTask(p)]
           /\ next' = [next EXCEPT ![p] = @ + 1]
           /\ UNCHANGED <<size, signet, ran, followed>>
<1>1. HasMore(p) /\ signet[p] \in Cores \ BusyCores
  BY DEF Hand, Inductive, CallersPlaced, CoresOwned
<1>2. worker[signet[p]] \in {"starting", "waiting", "woken", "exited"}
  BY DEF Hand, HoldsTaskMutex
<1>3. task[signet[p]] = NoTask
  BY <1>1, <1>2 DEF BusyCores
<1>4. /\ NextTask(p) \in Tasks /\ NextTask(p) # NoTask
      /\ next[p] \in DOMAIN TasksOf[p] /\ NextTask(p) = TasksOf[p][next[p]]
  BY <1>1, NextTaskIsTask DEF NextTask, Inductive
<1>5. ran[NextTask(p)] = 0 /\ ~OnCore(NextTask(p))
  BY <1>4, TasksAreTasks DEF Inductive, TasksOfCallers
<1>6. /\ task' = [task EXCEPT ![signet[p]] = NextTask(p)]
      /\ next' = [next EXCEPT ![p] = @ + 1]
      /\ UNCHANGED <<size, signet, ran, followed>>
  BY DEF Hand, poolVars, history
<1> QED
  BY <1>1, <1>2, <1>3, <1>4, <1>5, <1>6

\* Most steps do nothing to a task.
TasksKept ==
    /\ UNCHANGED <<size, task, ran, followed, next>>
    /\ \A c \in Cores :
        /\ worker'[c] \in {"after", "recycling", "clearing"}
              <=> worker[c] \in {"after", "recycling", "clearing"}
        /\ worker'[c] \in {"recycling", "clearing"} <=> worker[c] \in {"recycling", "clearing"}

LEMMA StepsOnTasks ==
    ASSUME Inductive, [Next]_vars
    PROVE  \/ TasksKept
           \/ \E p \in Callers : RunHere(p) \/ Hand(p)
           \/ \E c \in Cores : RunTask(c) \/ RunAfter(c) \/ Clear(c)
<1> USE DEF Inductive, TypeOK, TasksKept, poolVars, threadVars, callerVars, history
<1>1. ASSUME NEW p \in Callers, CallerStep(p)  PROVE TasksKept \/ RunHere(p) \/ Hand(p)
  BY <1>1 DEF CallerStep, EnterLoad, Load, LoadWaits, ThreadJoin, LastTask, EnterJoin, Join
<1>2. ASSUME NEW c \in Cores, WorkerStep(c)
      PROVE  TasksKept \/ RunTask(c) \/ RunAfter(c) \/ Clear(c)
  <2>1. CASE Start(c) \/ TestRunning(c) \/ TestTask(c)
    BY <2>1 DEF Start, TestRunning, TestTask, WorkerAt
  <2>2. CASE Wait(c) \/ Resume(c) \/ TestStopped(c)
    BY <2>2 DEF Wait, Resume, TestStopped, WorkerAt
  <2>3. CASE Recycle(c)
    BY <2>3 DEF Recycle, WorkerAt
  <2> QED
    BY <1>2, <2>1, <2>2, <2>3 DEF WorkerStep
<1>3. ASSUME NEW p \in Callers, CallerWokenForNothing(p)  PROVE TasksKept
  BY <1>3 DEF CallerWokenForNothing
<1>4. ASSUME NEW c \in Cores, WorkerWokenForNothing(c)  PROVE TasksKept
  BY <1>4 DEF WorkerWokenForNothing, WorkerAt
<1>5. CASE BeginDestroy \/ StopThread \/ JoinThread \/ UNCHANGED vars
  BY <1>5 DEF BeginDestroy, StopThread, JoinThread, vars
<1>6. CASE NotifyThread
  BY <1>6, WorkerWoken DEF NotifyThread, Destruction
<1> QED
  BY <1>1, <1>2, <1>3, <1>4, <1>5, <1>6 DEF Next, DestroyStep, Destroyed

LEMMA TasksOnCoresKept ==
    ASSUME Inductive, [Next]_vars
    PROVE  TasksOnCores'
<1>1. TasksOnCores /\ TypeOK
  BY DEF Inductive
<1>2. CASE TasksKept
  BY <1>1, <1>2 DEF TasksKept, TasksOnCores, Cores
<1>3. ASSUME NEW p \in Callers, RunHere(p)  PROVE TasksOnCores'
  BY <1>1, <1>3 DEF RunHere, poolVars, threadVars, TasksOnCores, Cores
<1>4. ASSUME NEW p \in Callers, Hand(p)  PROVE TasksOnCores'
  <2> DEFINE h == signet[p]  t == NextTask(p)
  <2>1. /\ h \in Cores /\ task' = [task EXCEPT ![h] = t] /\ ran[t] = 0
        /\ worker[h] \in {"starting", "waiting", "woken", "exited"}
        /\ \A c \in Cores : task[c] # t
        /\ UNCHANGED <<size, ran, followed>>
    BY <1>4, HandedIsNew DEF OnCore
  <2>2. worker' = WakeWorker(h)
    BY <1>4 DEF Hand
  <2>3. \A c \in Cores : \/ worker'[c] = worker[c]
                         \/ worker[c] = "waiting" /\ worker'[c] = "woken"
    BY <1>1, <2>1, <2>2, WorkerWoken
  <2> HIDE DEF h, t
  <2>4. \A c \in Cores : task'[c] = IF c = h THEN t ELSE task[c]
    BY <1>1, <2>1 DEF TypeOK
  <2> QED
    BY <1>1, <2>1, <2>3, <2>4 DEF TasksOnCores, Cores
<1>5. ASSUME NEW c \in Cores, RunTask(c)  PROVE TasksOnCores'
  <2>1. /\ worker[c] = "running" /\ worker' = [worker EXCEPT ![c] = "after"]
        /\ ran' = [ran EXCEPT ![task[c]] = @ + 1] /\ UNCHANGED <<size, task, followed>>
    BY <1>5 DEF RunTask, WorkerAt, poolVars
  <2>2. task[c] \in Tasks /\ task[c] # NoTask /\ ran[task[c]] = 0
    BY <1>1, <2>1 DEF TypeOK, HoldingTask, TasksOnCores
  <2>3. ran'[task[c]] = 1 /\ \A d \in Cores : d # c /\ task[d] # NoTask => ran'[task[d]] = ran[task[d]]
    BY <1>1, <2>1, <2>2 DEF TypeOK, TasksOnCores
  <2>4. worker'[c] = "after" /\ \A d \in Cores : d # c => worker'[d] = worker[d]
    BY <1>1, <2>1 DEF TypeOK
  <2> QED
    BY <1>1, <2>1, <2>3, <2>4 DEF TasksOnCores, Cores
<1>6. ASSUME NEW c \in Cores, RunAfter(c)  PROVE TasksOnCores'
  BY <1>1, <1>6 DEF RunAfter, WorkerAt, HoldingTask, poolVars, TypeOK, TasksOnCores, Cores
<1>7. ASSUME NEW c \in Cores, Clear(c)  PROVE TasksOnCores'
  BY <1>1, <1>7 DEF Clear, WorkerAt, poolVars, history, TypeOK, TasksOnCores, Cores
<1> QED
  BY <1>2, <1>3, <1>4, <1>5, <1>6, <1>7, StepsOnTasks

LEMMA TasksOfCallersKept ==
    ASSUME Inductive, [Next]_vars
    PROVE  TasksOfCallers'
<1>1. TasksOfCallers /\ TypeOK
  BY DEF Inductive
<1>2. CASE TasksKept
  BY <1>1, <1>2 DEF TasksKept, TasksOfCallers, OnCore, Done, Cores
<1>3. ASSUME NEW p \in Callers, RunHere(p)  PROVE TasksOfCallers'
  <2> DEFINE t == NextTask(p)
  <2>1. /\ size = 0 /\ size' = 0 /\ ran' = [ran EXCEPT ![t] = @ + 1]
        /\ next' = [next EXCEPT ![p] = @ + 1] /\ HasMore(p)
    BY <1>3 DEF RunHere, poolVars
  <2>2. next[p] \in DOMAIN TasksOf[p] /\ t \in Tasks /\ t = TasksOf[p][next[p]]
    BY <1>1, <2>1, NextTaskIsTask DEF NextTask
  <2> HIDE DEF t
  <2>3. ran[t] = 0
    BY <1>1, <2>2, TasksAreTasks DEF TasksOfCallers
  <2>4. ran'[t] = 1 /\ \A u \in Tasks : u # t => ran'[u] = ran[u]
    BY <1>1, <2>1, <2>2, <2>3 DEF TypeOK
  <2>5. \A u : ~OnCore(u) /\ ~OnCore(u)'
    BY <2>1 DEF OnCore, Cores
  <2> SUFFICES ASSUME NEW q \in Callers, NEW i \in DOMAIN TasksOf[q]
               PROVE  /\ i < next'[q] => ran'[TasksOf[q][i]] = 1
                      /\ i >= next'[q] => ran'[TasksOf[q][i]] = 0
    BY <2>1, <2>5 DEF TasksOfCallers, Done
  <2>6. TasksOf[q][i] \in Tasks /\ i \in Nat /\ i >= 1
    BY TasksAreTasks
  <2>7. TasksOf[q][i] = t => q = p /\ i = next[p]
    BY <2>2, TasksAssumption
  <2>8. /\ i < next[q] => ran[TasksOf[q][i]] = 1
        /\ i >= next[q] => ran[TasksOf[q][i]] = 0
    BY <1>1, <2>5 DEF TasksOfCallers, Done
  <2>9. next[q] \in Nat /\ next'[q] = IF q = p THEN next[q] + 1 ELSE next[q]
    BY <1>1, <2>1 DEF TypeOK
  <2> QED
    BY <2>2, <2>4, <2>6, <2>7, <2>8, <2>9
<1>4. ASSUME NEW p \in Callers, Hand(p)  PROVE TasksOfCallers'
  <2> DEFINE h == signet[p]  t == NextTask(p)
  <2>1. /\ h \in Cores /\ task[h] = NoTask /\ task' = [task EXCEPT ![h] = t] /\ ran[t] = 0
        /\ next[p] \in DOMAIN TasksOf[p] /\ t = TasksOf[p][next[p]] /\ t \in Tasks
        /\ next' = [next EXCEPT ![p] = @ + 1] /\ UNCHANGED <<size, ran, followed>>
    BY <1>4, HandedIsNew
  <2> HIDE DEF h, t
  <2>2. \A u : u # NoTask => (OnCore(u)' <=> OnCore(u) \/ u = t)
    BY <1>1, <2>1 DEF OnCore, TypeOK, Cores
  <2> SUFFICES ASSUME NEW q \in Callers, NEW i \in DOMAIN TasksOf[q]
               PROVE  /\ i < next'[q] => OnCore(TasksOf[q][i])' \/ Done(TasksOf[q][i])'
                      /\ i >= next'[q] => ~OnCore(TasksOf[q][i])' /\ ran'[TasksOf[q][i]] = 0
    BY DEF TasksOfCallers
  <2>3. TasksOf[q][i] # NoTask /\ i \in Nat /\ i >= 1
    BY TasksAreTasks
  <2>4. TasksOf[q][i] = t => q = p /\ i = next[p]
    BY <2>1, TasksAssumption
  <2>5. next[q] \in Nat /\ next'[q] = IF q = p THEN next[q] + 1 ELSE next[q]
    BY <1>1, <2>1 DEF TypeOK
  <2>6. Done(TasksOf[q][i])' <=> Done(TasksOf[q][i])
    BY <2>1 DEF Done
  <2> QED
    BY <1>1, <2>1, <2>2, <2>3, <2>4, <2>5, <2>6 DEF TasksOfCallers
<1>5. ASSUME NEW c \in Cores, RunTask(c)  PROVE TasksOfCallers'
  <2>1. /\ worker[c] = "running" /\ ran' = [ran EXCEPT ![task[c]] = @ + 1]
        /\ UNCHANGED <<size, task, followed, next>>
    BY <1>5 DEF RunTask, WorkerAt, poolVars, callerVars
  <2>2. task[c] \in Tasks /\ OnCore(task[c])
    BY <1>1, <2>1 DEF TypeOK, HoldingTask, OnCore
  <2>3. \A u : OnCore(u)' <=> OnCore(u)
    BY <2>1 DEF OnCore, Cores
  <2>4. \A u \in Tasks : u # task[c] => ran'[u] = ran[u] /\ (Done(u) => Done(u)')
    BY <1>1, <2>1, <2>2 DEF TypeOK, Done
  <2> QED
    BY <1>1, <2>1, <2>2, <2>3, <2>4, TasksAreTasks DEF TasksOfCallers
<1>6. ASSUME NEW c \in Cores, RunAfter(c)  PROVE TasksOfCallers'
  BY <1>1, <1>6 DEF RunAfter, poolVars, callerVars, TasksOfCallers, OnCore, Done, Cores
<1>7. ASSUME NEW c \in Cores, Clear(c)  PROVE TasksOfCallers'
  <2>1. /\ worker[c] = "clearing" /\ task' = [task EXCEPT ![c] = NoTask]
        /\ UNCHANGED <<size, ran, followed, next>>
    BY <1>7 DEF Clear, WorkerAt, poolVars, history
  <2>2. Done(task[c])
    BY <1>1, <2>1 DEF Inductive, TypeOK, HoldingTask, TasksOnCores, Done
  <2>3. \A u : u # NoTask => /\ OnCore(u)' => OnCore(u)
                             /\ OnCore(u) => OnCore(u)' \/ u = task[c]
    BY <1>1, <2>1 DEF OnCore, TypeOK, Cores
  <2>4. \A u : Done(u)' <=> Done(u)
    BY <2>1 DEF Done
  <2> QED
    BY <1>1, <2>1, <2>2, <2>3, <2>4, TasksAreTasks DEF TasksOfCallers
<1> QED
  BY <1>2, <1>3, <1>4, <1>5, <1>6, <1>7, StepsOnTasks

LEMMA WaitedStayAway ==
    ASSUME Inductive, [Next]_vars
    PROVE  WaitedHaveLeft'
<1>1. WaitedHaveLeft /\ TypeOK /\ caller \in [Callers -> CallerPlaces]
  BY DEF Inductive, TypeOK, CallerPlaces
<1>2. ASSUME NEW p \in Callers, RunHere(p)  PROVE WaitedHaveLeft'
  BY <1>2 DEF RunHere, poolVars, WaitedHaveLeft, OnCore, Cores
<1>3. ASSUME NEW p \in Callers, Hand(p)  PROVE WaitedHaveLeft'
  <2> DEFINE h == signet[p]  t == NextTask(p)
  <2>1. /\ h \in Cores /\ task[h] = NoTask /\ task' = [task EXCEPT ![h] = t] /\ ~OnCore(t)
        /\ next[p] \in DOMAIN TasksOf[p] /\ t = TasksOf[p][next[p]] /\ t \in Tasks
        /\ next' = [next EXCEPT ![p] = @ + 1] /\ UNCHANGED <<size, signet>>
    BY <1>3, HandedIsNew
  <2>2. /\ caller[p] = "handing"
        /\ \A q \in Callers : q # p => (Watching(q)' <=> Watching(q))
    BY <1>1, <1>3, JoinersWoken DEF Hand, Watching
  <2> DEFINE o == signet[p]
  <2> HIDE DEF h, t
  <2>3. \A c \in Cores : task'[c] = IF c = h THEN t ELSE task[c]
    BY <1>1, <2>1 DEF TypeOK
  <2> SUFFICES ASSUME NEW q \in Callers, NEW i \in DOMAIN TasksOf[q],
                      i < next'[q], TasksOf[q][i] \in Waited
               PROVE  /\ i # next'[q] - 1 \/ ~Watching(q)' => ~OnCore(TasksOf[q][i])'
                      /\ Watching(q)' => \A c \in Cores : task'[c] = TasksOf[q][i] => c = signet[q]
    BY <2>1 DEF WaitedHaveLeft, Cores
  <2>4. TasksOf[q][i] # NoTask /\ i \in Nat
    BY TasksAreTasks
  <2>5. TasksOf[q][i] = t => q = p /\ i = next[p]
    BY <2>1, TasksAssumption
  <2>6. next[q] \in Nat /\ next'[q] = IF q = p THEN next[q] + 1 ELSE next[q]
    BY <1>1, <2>1 DEF TypeOK
  <2>7. TasksOf[q][i] # t => (OnCore(TasksOf[q][i])' <=> OnCore(TasksOf[q][i]))
    BY <2>1, <2>3, <2>4 DEF OnCore, Cores
  <2>8. CASE TasksOf[q][i] = t
    <3>1. q = p /\ i = next'[q] - 1 /\ t \in Waited
      BY <2>4, <2>5, <2>6, <2>8
    <3>2. Watching(p)'
      BY <1>1, <1>3, <3>1, JoinersWoken DEF Hand, Watching, t
    <3>3. \A c \in Cores : task'[c] = t => c = h
      BY <2>1, <2>3 DEF OnCore
    <3> QED
      BY <2>8, <3>1, <3>2, <3>3 DEF h
  <2>9. CASE TasksOf[q][i] # t /\ q # p
    <3>1. /\ i # next[q] - 1 \/ ~Watching(q) => ~OnCore(TasksOf[q][i])
          /\ Watching(q) => \A c \in Cores : task[c] = TasksOf[q][i] => c = signet[q]
      BY <1>1, <2>6, <2>9 DEF WaitedHaveLeft
    <3> QED
      BY <2>2, <2>3, <2>6, <2>7, <2>9, <3>1
  <2>10. CASE TasksOf[q][i] # t /\ q = p
    <3>1. i < next[p]
      BY <2>1, <2>4, <2>6, <2>10
    <3>2. ~OnCore(TasksOf[q][i])
      BY <1>1, <2>2, <2>10, <3>1 DEF WaitedHaveLeft, Watching
    <3> QED
      BY <2>3, <2>7, <2>10, <3>2 DEF OnCore
  <2> QED
    BY <2>8, <2>9, <2>10
<1>4. ASSUME NEW c \in Cores, Clear(c)  PROVE WaitedHaveLeft'
  <2>1. /\ task' = [task EXCEPT ![c] = NoTask] /\ UNCHANGED <<size, signet, next>>
        /\ \A p \in Callers : Watching(p)' <=> Watching(p)
    BY <1>1, <1>4, JoinersWoken DEF Clear, Watching, poolVars
  <2>2. \A d \in Cores : task'[d] = IF d = c THEN NoTask ELSE task[d]
    BY <1>1, <2>1 DEF TypeOK
  <2> QED
    BY <1>1, <2>1, <2>2, TasksAreTasks DEF WaitedHaveLeft, OnCore, Cores
<1>5. ASSUME NEW p \in Callers, ThreadJoin(p)  PROVE WaitedHaveLeft'
  <2>1. /\ caller' = [caller EXCEPT ![p] = IF task[signet[p]] = NoTask
                                            THEN "calling" ELSE "waitingThread"]
        /\ caller[p] = "watching" /\ UNCHANGED <<size, task, signet, next>>
    BY <1>5 DEF ThreadJoin, CallerAt, poolVars, threadVars
  <2>2. \A q \in Callers : q # p => (Watching(q)' <=> Watching(q))
    BY <1>1, <2>1 DEF Watching
  <2>3. Watching(p) /\ (Watching(p)' \/ task[signet[p]] = NoTask)
    BY <1>1, <2>1 DEF Watching
  <2> QED
    BY <1>1, <2>1, <2>2, <2>3, TasksAreTasks DEF WaitedHaveLeft, OnCore, Cores
<1>6. ASSUME UNCHANGED <<size, task, next>>,
             \A p \in Callers : /\ Watching(p)' <=> Watching(p)
                                /\ Watching(p) => signet'[p] = signet[p]
      PROVE  WaitedHaveLeft'
  <2>1. Cores' = Cores /\ \A t : OnCore(t)' <=> OnCore(t)
    BY <1>6 DEF OnCore, Cores
  <2>2. next' = next /\ task' = task
    BY <1>6
  <2> SUFFICES ASSUME NEW p \in Callers, NEW i \in DOMAIN TasksOf[p], i < next[p],
                      TasksOf[p][i] \in Waited
               PROVE  /\ i # next[p] - 1 \/ ~Watching(p)' => ~OnCore(TasksOf[p][i])'
                      /\ Watching(p)' => \A c \in Cores : task[c] = TasksOf[p][i] => c = signet'[p]
    BY <2>1, <2>2 DEF WaitedHaveLeft
  <2>3. /\ i # next[p] - 1 \/ ~Watching(p) => ~OnCore(TasksOf[p][i])
        /\ Watching(p) => \A c \in Cores : task[c] = TasksOf[p][i] => c = signet[p]
    BY <1>1 DEF WaitedHaveLeft
  <2> QED
    BY <1>6, <2>1, <2>3
<1>7. \/ \E p \in Callers : RunHere(p) \/ Hand(p) \/ ThreadJoin(p)
      \/ \E c \in Cores : Clear(c)
      \/ /\ UNCHANGED <<size, task, next>>
         /\ \A p \in Callers : /\ Watching(p)' <=> Watching(p)
                               /\ Watching(p) => signet'[p] = signet[p]
  <2> USE DEF poolVars, threadVars, callerVars, Watching
  <2>1. ASSUME NEW p \in Callers, Load(p)
        PROVE  /\ UNCHANGED <<size, task, next>>
               /\ \A q \in Callers : /\ Watching(q)' <=> Watching(q)
                                     /\ Watching(q) => signet'[q] = signet[q]
    BY <1>1, <2>1 DEF Load, CallerAt
  <2>2. ASSUME NEW p \in Callers, EnterLoad(p) \/ LoadWaits(p) \/ LastTask(p) \/ EnterJoin(p) \/ Join(p)
        PROVE  /\ UNCHANGED <<size, task, next, signet>>
               /\ \A q \in Callers : Watching(q)' <=> Watching(q)
    BY <1>1, <2>2 DEF EnterLoad, LoadWaits, LastTask, EnterJoin, Join, CallerAt
  <2>3. ASSUME NEW p \in Callers, CallerWokenForNothing(p)
        PROVE  /\ UNCHANGED <<size, task, next, signet>>
               /\ \A q \in Callers : Watching(q)' <=> Watching(q)
    BY <1>1, <2>3 DEF CallerWokenForNothing
  <2>4. ASSUME NEW c \in Cores, WorkerStep(c) \/ WorkerWokenForNothing(c), ~Clear(c)
        PROVE  /\ UNCHANGED <<size, task, next, signet>>
               /\ \A q \in Callers : Watching(q)' <=> Watching(q)
    <3>1. CASE Recycle(c)
      BY <1>1, <3>1, PoolWoken DEF Recycle
    <3> QED
      BY <2>4, <3>1 DEF WorkerStep, Start, TestRunning, TestTask, Wait, Resume, TestStopped,
                        RunTask, RunAfter, WorkerWokenForNothing
  <2>5. CASE DestroyStep \/ UNCHANGED vars
    <3>1. CASE NotifyThread
      BY <1>1, <3>1, JoinersWoken DEF NotifyThread
    <3> QED
      BY <2>5, <3>1 DEF DestroyStep, BeginDestroy, StopThread, JoinThread, vars
  <2> QED
    BY <2>1, <2>2, <2>3, <2>4, <2>5 DEF Next, CallerStep, Destroyed
<1> QED
  BY <1>2, <1>3, <1>4, <1>5, <1>6, <1>7

LEMMA DestructionGoesOn ==
    ASSUME Inductive, [Next]_vars
    PROVE  Destruction'
<1>1. Destruction /\ TypeOK /\ caller \in [Callers -> CallerPlaces] /\ size \in Nat
  BY SizeIsNatural DEF Inductive, TypeOK, CallerPlaces
<1>2. ASSUME NEW p \in Callers, CallerStep(p) \/ CallerWokenForNothing(p)  PROVE Destruction'
  <2>1. caller[p] # "left" /\ UNCHANGED <<size, destroyer, victim>>
    BY <1>1, <1>2 DEF CallerStep, RunHere, EnterLoad, Load, LoadWaits, Hand, ThreadJoin, LastTask,
                      EnterJoin, Join, CallerWokenForNothing, CallerAt, poolVars, destroyerVars
  <2> QED
    BY <1>1, <2>1 DEF Destruction
<1>3. ASSUME NEW c \in Cores, WorkerStep(c) \/ WorkerWokenForNothing(c)  PROVE Destruction'
  <2>1. /\ UNCHANGED <<size, destroyer, victim>> /\ worker[c] # "exited"
        /\ \A d \in Cores : d # c => worker'[d] = worker[d]
    BY <1>1, <1>3 DEF WorkerStep, Start, TestRunning, TestTask, Wait, Resume, TestStopped, RunTask,
                      RunAfter, Recycle, Clear, WorkerWokenForNothing, WorkerAt, poolVars,
                      destroyerVars, TypeOK
  <2>2. \A p \in Callers : caller[p] = "left" => caller'[p] = "left"
    <3>1. CASE Recycle(c)
      BY <1>1, <3>1, PoolWoken DEF Recycle
    <3>2. CASE Clear(c)
      BY <1>1, <3>2, JoinersWoken DEF Clear
    <3> QED
      BY <1>3, <3>1, <3>2 DEF WorkerStep, Start, TestRunning, TestTask, Wait, Resume, TestStopped,
                              RunTask, RunAfter, WorkerWokenForNothing, callerVars
  <2> QED
    BY <1>1, <2>1, <2>2 DEF Destruction, Cores
<1>4. CASE BeginDestroy
  BY <1>1, <1>4 DEF BeginDestroy, Destruction, Cores, poolVars, threadVars, callerVars
<1>5. CASE StopThread
  BY <1>1, <1>5 DEF StopThread, Destruction, Cores, poolVars, callerVars
<1>6. CASE NotifyThread
  <2>1. victim \in Cores /\ UNCHANGED <<size, victim>> /\ destroyer' = "joining"
    BY <1>1, <1>6 DEF NotifyThread, Destruction, poolVars
  <2>2. \A p \in Callers : caller[p] = "left" => caller'[p] = "left"
    BY <1>1, <1>6, JoinersWoken DEF NotifyThread
  <2>3. \A c \in Cores : worker[c] = "exited" => worker'[c] = "exited"
    BY <1>1, <1>6, <2>1, WorkerWoken DEF NotifyThread
  <2> QED
    BY <1>1, <1>6, <2>1, <2>2, <2>3 DEF Destruction, Cores, NotifyThread
<1>7. CASE JoinThread
  BY <1>1, <1>7 DEF JoinThread, Destruction, Cores, poolVars, threadVars, callerVars
<1>8. CASE UNCHANGED vars
  BY <1>1, <1>8 DEF Destruction, Cores, vars, poolVars, threadVars, callerVars, destroyerVars
<1> QED
  BY <1>2, <1>3, <1>4, <1>5, <1>6, <1>7, <1>8 DEF Next, DestroyStep, Destroyed

LEMMA StartsInductive == Init => Inductive
<1> SUFFICES ASSUME Init  PROVE Inductive
  OBVIOUS
<1> USE DEF Init, Cores
<1>1. size \in Nat
  BY SizesAssumption
<1>2. running_core \in [1 .. size -> Cores] /\ running_core \in Seq(Cores) /\ Len(running_core) = size
  BY <1>1
<1>3. TypeOK
  BY <1>1, <1>2, SizesAssumption DEF TypeOK, HoldingTask
<1>4. CoresOwned
  <2>1. Distinct(running_core)
    BY <1>1 DEF Distinct
  <2>2. \A c \in Cores : c + 1 \in DOMAIN running_core /\ running_core[c + 1] = c
    BY <1>1
  <2>3. Cores \subseteq Queue /\ BusyCores = {}
    BY <2>2 DEF Queue, BusyCores, Range
  <2> QED
    BY <2>1, <2>3 DEF CoresOwned
<1>5. WorkersPlaced /\ TasksOnCores /\ Destruction
  BY DEF WorkersPlaced, TasksOnCores, Destruction
<1>6. CallersPlaced /\ TasksOfCallers /\ WaitedHaveLeft
  BY CallersAssumption, TasksAreTasks DEF CallersPlaced, TasksOfCallers, WaitedHaveLeft, OnCore, HasMore
<1> QED
  BY <1>3, <1>4, <1>5, <1>6 DEF Inductive

\* The invariant holds at the start and is kept by each step.
LEMMA InductiveAlways == Spec => []Inductive
<1>1. Inductive /\ [Next]_vars => Inductive'
  BY TypesKept, OwnersStay, WorkersStayPlaced, CallersStayPlaced, TasksOnCoresKept,
     TasksOfCallersKept, WaitedStayAway, DestructionGoesOn DEF Inductive
<1> QED
  BY StartsInductive, <1>1, PTL DEF Spec

-----------------------------------------------------------------------------
(***************************************************************************)
(* What the pool promises                                                  *)
(***************************************************************************)
\* A core is in the queue once, or with one caller, or with its task.
LEMMA CoreCounted ==
    ASSUME Inductive
    PROVE  CoresConserved
<1> SUFFICES ASSUME NEW c \in Cores
             PROVE  Cardinality({i \in DOMAIN running_core : running_core[i] = c})
                      + Cardinality({p \in Callers : caller[p] = "handing" /\ signet[p] = c})
                      + (IF task[c] # NoTask /\ worker[c] # "clearing" THEN 1 ELSE 0) = 1
  BY DEF CoresConserved, Inductive
<1> DEFINE places == {i \in DOMAIN running_core : running_core[i] = c}
           holders == {p \in Callers : caller[p] = "handing" /\ signet[p] = c}
<1>1. CoresOwned
  BY DEF Inductive
<1>2. Cardinality(places) = IF c \in Queue THEN 1 ELSE 0
  <2>1. CASE c \in Queue
    <3>1. PICK i \in DOMAIN running_core : running_core[i] = c
      BY <2>1 DEF Queue, Range
    <3>2. places = {i}
      BY <1>1, <3>1 DEF CoresOwned, Distinct
    <3> QED
      BY <2>1, <3>2, FS_Singleton
  <2>2. CASE c \notin Queue
    <3>1. places = {}
      BY <2>2 DEF Queue, Range
    <3> QED
      BY <2>2, <3>1, FS_EmptySet
  <2> QED
    BY <2>1, <2>2
<1>3. Cardinality(holders) = IF c \in Queue \union BusyCores THEN 0 ELSE 1
  <2>1. CASE c \in Queue \union BusyCores
    <3>1. holders = {}
      BY <1>1, <2>1 DEF CoresOwned
    <3> QED
      BY <2>1, <3>1, FS_EmptySet
  <2>2. CASE c \notin Queue \union BusyCores
    <3>1. PICK p \in Callers : caller[p] = "handing" /\ signet[p] = c
      BY <1>1, <2>2 DEF CoresOwned
    <3>2. holders = {p}
      BY <1>1, <3>1 DEF CoresOwned
    <3> QED
      BY <2>2, <3>2, FS_Singleton
  <2> QED
    BY <2>1, <2>2
<1>4. ~(c \in Queue /\ c \in BusyCores)
  BY <1>1 DEF CoresOwned
<1> HIDE DEF places, holders
<1> QED
  BY <1>2, <1>3, <1>4 DEF BusyCores, places, holders

(***************************************************************************)
(* CoresConserved for pools of any size: no core is lost, and none is      *)
(* given to two callers of ThreadPool::run.                                *)
(***************************************************************************)
THEOREM NoCoreIsLost == Spec => []CoresConserved
BY InductiveAlways, CoreCounted, PTL

(***************************************************************************)
(* WaitedAreDone for any number of callers: who waits with Thread::join    *)
(* for the task it ran finds the task and its after_task done.             *)
(***************************************************************************)
THEOREM WaitersFindTheirTasksDone == Spec => []WaitedAreDone
<1>1. Inductive => WaitedAreDone
  <2> SUFFICES ASSUME Inductive, NEW p \in Callers, NEW i \in 1 .. next[p] - 1,
                      TasksOf[p][i] \in Waited, ~(i = next[p] - 1 /\ Watching(p))
               PROVE  Done(TasksOf[p][i])
    BY DEF WaitedAreDone, Done
  <2>1. next[p] \in Nat /\ next[p] <= Len(TasksOf[p]) + 1 /\ Len(TasksOf[p]) \in Nat
        /\ DOMAIN TasksOf[p] = 1 .. Len(TasksOf[p])
    BY CallersAssumption DEF Inductive, TypeOK, CallersPlaced
  <2>2. i \in DOMAIN TasksOf[p] /\ i < next[p]
    BY <2>1
  <2> QED
    BY <2>2 DEF Inductive, TasksOfCallers, WaitedHaveLeft
<1> QED
  BY <1>1, InductiveAlways, PTL

(***************************************************************************)
(* DestroyedIsSettled for pools of any size: when ~ThreadPool returns, no  *)
(* thread is left, and no task was left in the middle.                     *)
(***************************************************************************)
THEOREM DestructionSettles == Spec => []DestroyedIsSettled
<1>1. Inductive => DestroyedIsSettled
  <2> SUFFICES ASSUME Inductive, destroyer = "destroyed", NEW c \in Cores
               PROVE  /\ worker[c] = "exited"
                      /\ c \in Range(running_core) <=> task[c] = NoTask
                      /\ task[c] # NoTask => ran[task[c]] = 0
    BY DEF DestroyedIsSettled
  <2>1. worker[c] = "exited" /\ \A p \in Callers : caller[p] = "left"
    BY DEF Inductive, Destruction
  <2>2. c \in Queue <=> task[c] = NoTask
    BY <2>1 DEF Inductive, CoresOwned, BusyCores
  <2> QED
    BY <2>1, <2>2 DEF Inductive, TasksOnCores, Queue
<1> QED
  BY <1>1, InductiveAlways, PTL

(***************************************************************************)
(* NoTaskReplaced for pools of any size: Thread::run finds no task on the  *)
(* core it was given, although a core is in the queue again before its     *)
(* thread has dropped the task it ran.                                     *)
(***************************************************************************)
THEOREM TasksAreNotReplaced == Spec => NoTaskReplaced
<1>1. Inductive /\ [Next]_vars => [\A c \in Cores : task[c] # NoTask => task'[c] \in {task[c], NoTask}]_vars
  <2> SUFFICES ASSUME Inductive, [Next]_vars, NEW c \in Cores, task[c] # NoTask
               PROVE  task'[c] \in {task[c], NoTask}
    OBVIOUS
  <2>1. task \in [Cores -> Tasks \union {NoTask}]
    BY DEF Inductive, TypeOK
  <2>2. ASSUME NEW p \in Callers, Hand(p)  PROVE task'[c] \in {task[c], NoTask}
    BY <2>1, <2>2, HandedIsNew
  <2>3. ASSUME NEW d \in Cores, Clear(d)  PROVE task'[c] \in {task[c], NoTask}
    BY <2>1, <2>3 DEF Clear
  <2>4. CASE UNCHANGED task
    BY <2>4
  <2> QED
    BY <2>2, <2>3, <2>4, StepsOnTasks
       DEF TasksKept, RunHere, RunTask, RunAfter, threadVars
<1> QED
  BY <1>1, InductiveAlways, PTL DEF NoTaskReplaced, Spec

-----------------------------------------------------------------------------
(***************************************************************************)
(* The pool is an Executor.                                                *)
(***************************************************************************)
LEMMA JoinedAreTasks == Joined \subseteq Tasks
BY CallersAssumption DEF Joined, Handed, Range

\* Running a task for the first time
LEMMA RunOnce ==
    ASSUME TypeOK, NEW t \in Tasks, ran[t] = 0, ran' = [ran EXCEPT ![t] = @ + 1],
           \A p \in Callers : caller'[p] = "left" <=> caller[p] = "left"
    PROVE  [Pool!Next]_(Pool!executorVars)
<1>1. {p \in Joining : caller'[p] = "left"} = {p \in Joining : caller[p] = "left"}
  BY CallersAssumption
<1>2. CASE t \in Joined
  <2>1. [u \in Joined |-> ran[u]][t] = 0
    BY <1>2
  <2>2. [u \in Joined |-> ran'[u]] = [[u \in Joined |-> ran[u]] EXCEPT ![t] = 1]
    <3>1. \A u \in Joined : ran'[u] = IF u = t THEN 1 ELSE ran[u]
      BY <1>2, JoinedAreTasks DEF TypeOK
    <3> QED
      BY <3>1
  <2> QED
    BY <1>1, <1>2, <2>1, <2>2 DEF Pool!Next, Pool!Execute
<1>3. CASE t \notin Joined
  <2>1. [u \in Joined |-> ran'[u]] = [u \in Joined |-> ran[u]]
    BY <1>3, JoinedAreTasks DEF TypeOK
  <2> QED
    BY <1>1, <2>1 DEF Pool!executorVars
<1> QED
  BY <1>2, <1>3

\* When all cores are in the queue, a caller with nothing more to run finds
\* its tasks done.
LEMMA AllFreeAllDone ==
    ASSUME Inductive, Len(running_core) = size, NEW p \in Callers, ~HasMore(p)
    PROVE  \A t \in Handed(p) : ran[t] = 1
<1>1. BusyCores = {}
  <2>1. running_core \in Seq(0 .. size - 1) /\ Distinct(running_core) /\ size \in Nat
    BY SizeIsNatural DEF Inductive, TypeOK, CoresOwned, Cores
  <2>2. Queue = Cores
    BY <2>1, QueueFits DEF Queue, Cores
  <2> QED
    BY <2>2 DEF Inductive, CoresOwned, BusyCores
<1> SUFFICES ASSUME NEW i \in DOMAIN TasksOf[p]  PROVE ran[TasksOf[p][i]] = 1
  BY DEF Handed, Range
<1>2. next[p] \in Nat /\ DOMAIN TasksOf[p] = 1 .. Len(TasksOf[p]) /\ Len(TasksOf[p]) \in Nat
  BY CallersAssumption DEF Inductive, TypeOK
<1>3. i < next[p]
  BY <1>2 DEF HasMore
<1>4. OnCore(TasksOf[p][i]) \/ ran[TasksOf[p][i]] = 1
  BY <1>3 DEF Inductive, TasksOfCallers, Done
<1>5. ASSUME NEW c \in Cores, task[c] = TasksOf[p][i]  PROVE ran[TasksOf[p][i]] = 1
  BY <1>1, <1>5, TasksAreTasks DEF BusyCores, Inductive, TasksOnCores
<1> QED
  BY <1>4, <1>5 DEF OnCore

LEMMA StepsOfExecutor ==
    ASSUME Inductive, [Next]_vars
    PROVE  [Pool!Next]_(Pool!executorVars)
<1>1. TypeOK /\ caller \in [Callers -> CallerPlaces]
  BY DEF Inductive, TypeOK, CallerPlaces
<1>2. ASSUME UNCHANGED ran, \A p \in Joining : caller'[p] = "left" <=> caller[p] = "left"
      PROVE  Pool!executorVars' = Pool!executorVars
  <2>1. {p \in Joining : caller'[p] = "left"} = {p \in Joining : caller[p] = "left"}
    BY <1>2
  <2> QED
    BY <1>2, <2>1 DEF Pool!executorVars
<1>3. ASSUME NEW p \in Callers, CallerStep(p)
      PROVE  [Pool!Next]_(Pool!executorVars)
  <2>1. CASE RunHere(p)
    <3>1. HasMore(p) /\ ran' = [ran EXCEPT ![NextTask(p)] = @ + 1] /\ caller' = caller
      BY <2>1 DEF RunHere
    <3>2. NextTask(p) \in Tasks /\ ran[NextTask(p)] = 0
      <4>1. /\ NextTask(p) \in Tasks /\ next[p] \in DOMAIN TasksOf[p]
            /\ NextTask(p) = TasksOf[p][next[p]]
        BY <1>1, <3>1, NextTaskIsTask DEF NextTask
      <4> QED
        BY <4>1, TasksAreTasks DEF Inductive, TasksOfCallers
    <3> QED
      BY <1>1, <3>1, <3>2, RunOnce
  <2>2. CASE Join(p)
    <3>1. caller[p] = "joining" /\ UNCHANGED ran /\ ~HasMore(p) /\ p \in Joining
          /\ caller' = [caller EXCEPT ![p] = IF Len(running_core) = size THEN "left" ELSE "waitingAll"]
      BY <2>2 DEF Join, CallerAt, history, Inductive, CallersPlaced
    <3>2. CASE Len(running_core) = size
      <4>1. \A t \in Handed(p) : ran[t] = 1
        BY <3>1, <3>2, AllFreeAllDone
      <4>2. \A t \in Handed(p) : [u \in Joined |-> ran[u]][t] = 1
        BY <3>1, <4>1 DEF Joined
      <4>3. /\ p \notin {q \in Joining : caller[q] = "left"}
            /\ {q \in Joining : caller'[q] = "left"} = {q \in Joining : caller[q] = "left"} \union {p}
        BY <1>1, <3>1, <3>2, CallersAssumption
      <4>4. UNCHANGED [u \in Joined |-> ran[u]]
        BY <3>1
      <4> QED
        BY <3>1, <4>2, <4>3, <4>4 DEF Pool!Next, Pool!GoOn
    <3>3. CASE Len(running_core) # size
      <4>1. \A q \in Joining : caller'[q] = "left" <=> caller[q] = "left"
        BY <1>1, <3>1, <3>3, CallersAssumption
      <4> QED
        BY <1>2, <3>1, <4>1
    <3> QED
      BY <3>2, <3>3
  <2>3. CASE Hand(p)
    <3>1. UNCHANGED ran /\ \A q \in Joining : caller'[q] = "left" <=> caller[q] = "left"
      BY <1>1, <2>3, JoinersWoken, CallersAssumption DEF Hand, history
    <3> QED
      BY <1>2, <3>1
  <2>4. CASE LastTask(p)
    <3>1. UNCHANGED ran /\ \A q \in Joining : caller'[q] = "left" <=> caller[q] = "left"
      BY <1>1, <2>4, CallersAssumption DEF LastTask, CallerAt, history
    <3> QED
      BY <1>2, <3>1
  <2>5. CASE EnterLoad(p) \/ Load(p) \/ LoadWaits(p) \/ ThreadJoin(p) \/ EnterJoin(p)
    <3>1. UNCHANGED ran /\ \A q \in Joining : caller'[q] = "left" <=> caller[q] = "left"
      BY <1>1, <2>5, CallersAssumption
         DEF EnterLoad, Load, LoadWaits, ThreadJoin, EnterJoin, CallerAt, history
    <3> QED
      BY <1>2, <3>1
  <2> QED
    BY <1>3, <2>1, <2>2, <2>3, <2>4, <2>5 DEF CallerStep
<1>4. ASSUME NEW c \in Cores, WorkerStep(c)
      PROVE  [Pool!Next]_(Pool!executorVars)
  <2>1. CASE RunTask(c)
    <3>1. worker[c] = "running" /\ ran' = [ran EXCEPT ![task[c]] = @ + 1] /\ caller' = caller
      BY <2>1 DEF RunTask, WorkerAt, callerVars
    <3>2. task[c] \in Tasks /\ ran[task[c]] = 0
      BY <3>1 DEF Inductive, TypeOK, HoldingTask, TasksOnCores
    <3> QED
      BY <1>1, <3>1, <3>2, RunOnce
  <2>2. CASE Recycle(c) \/ Clear(c)
    <3>1. UNCHANGED ran /\ \A q \in Joining : caller'[q] = "left" <=> caller[q] = "left"
      BY <1>1, <2>2, PoolWoken, JoinersWoken, CallersAssumption DEF Recycle, Clear, history
    <3> QED
      BY <1>2, <3>1
  <2>3. CASE ~RunTask(c) /\ ~Recycle(c) /\ ~Clear(c)
    <3>1. UNCHANGED <<ran, caller>>
      BY <1>4, <2>3 DEF WorkerStep, Start, TestRunning, TestTask, Wait, Resume, TestStopped,
                        RunAfter, callerVars, history
    <3> QED
      BY <1>2, <3>1
  <2> QED
    BY <2>1, <2>2, <2>3
<1>5. ASSUME NEW p \in Callers, CallerWokenForNothing(p)
      PROVE  [Pool!Next]_(Pool!executorVars)
  <2>1. UNCHANGED ran /\ \A q \in Joining : caller'[q] = "left" <=> caller[q] = "left"
    BY <1>1, <1>5, CallersAssumption DEF CallerWokenForNothing, history
  <2> QED
    BY <1>2, <2>1
<1>6. ASSUME NEW c \in Cores, WorkerWokenForNothing(c)
      PROVE  [Pool!Next]_(Pool!executorVars)
  BY <1>2, <1>6 DEF WorkerWokenForNothing, callerVars, history
<1>7. CASE DestroyStep \/ UNCHANGED vars
  <2>1. UNCHANGED ran /\ \A q \in Joining : caller'[q] = "left" <=> caller[q] = "left"
    BY <1>1, <1>7, JoinersWoken, CallersAssumption
       DEF DestroyStep, BeginDestroy, StopThread, NotifyThread, JoinThread, vars, callerVars, history
  <2> QED
    BY <1>2, <2>1
<1> QED
  BY <1>3, <1>4, <1>5, <1>6, <1>7 DEF Next, Destroyed

(***************************************************************************)
(* The safety of RunsEachTask for pools of any size, those of no threads   *)
(* included: a task of a caller that joins is run once and no more, and    *)
(* ThreadPool::join returns only when all tasks of the caller were run.    *)
(***************************************************************************)
THEOREM PoolIsExecutor == Spec => Pool!Safety
<1>1. Init => Pool!Init
  <2> SUFFICES ASSUME Init  PROVE Pool!Init
    OBVIOUS
  <2>1. [t \in Joined |-> ran[t]] = [t \in Joined |-> 0]
    BY JoinedAreTasks DEF Init
  <2>2. {p \in Joining : caller[p] = "left"} = {}
    BY CallersAssumption DEF Init
  <2> QED
    BY <2>1, <2>2 DEF Pool!Init
<1> QED
  BY <1>1, StepsOfExecutor, InductiveAlways, PTL DEF Spec, Pool!Safety

=============================================================================
