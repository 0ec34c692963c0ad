------------------------------- MODULE RWMutex -------------------------------
(***************************************************************************)
(* rwmutex of utils/mutex.h: a read-write lock made of a mutex, two counts *)
(* and two condition variables.  A writer is counted from the moment it    *)
(* asks, and readers wait while any writer is counted.                     *)
(*                                                                         *)
(* m_mutex_counter is held from the call to the return or to the wait, so  *)
(* each call is one step, as is each test of a thread that was woken.  A   *)
(* thread may be woken for nothing.                                        *)
(***************************************************************************)
EXTENDS Integers, FiniteSets

CONSTANT Threads

ASSUME ThreadsAssumption == IsFiniteSet(Threads)

VARIABLES
    m_read_count,
    m_write_count,
    m_writing,
    pc      \* of each thread: it holds the lock when "reading" or "writing",
            \* waits for m_cond_read or m_cond_write, or was woken from there

vars == <<m_read_count, m_write_count, m_writing, pc>>

At(where) == {t \in Threads : pc[t] = where}

Init ==
    /\ m_read_count = 0
    /\ m_write_count = 0
    /\ m_writing = FALSE
    /\ pc = [t \in Threads |-> "idle"]

-----------------------------------------------------------------------------
Readable == m_write_count = 0

\* Mistake: m_writing is not tested.
WritableBeside == m_read_count = 0

Writable == m_read_count = 0 /\ ~m_writing

\* The test of m_cond_read.wait, when it holds and when it does not
EnterRead(t) ==
    /\ Readable
    /\ m_read_count' = m_read_count + 1
    /\ pc' = [pc EXCEPT ![t] = "reading"]
    /\ UNCHANGED <<m_write_count, m_writing>>

AwaitRead(t) ==
    /\ ~Readable
    /\ pc' = [pc EXCEPT ![t] = "waitingRead"]
    /\ UNCHANGED <<m_read_count, m_write_count, m_writing>>

lock_read(t) == pc[t] = "idle" /\ (EnterRead(t) \/ AwaitRead(t))

ResumeRead(t) == pc[t] = "wokenRead" /\ (EnterRead(t) \/ AwaitRead(t))

\* Mistake: a writer that waits is not counted.
LockWriteUncounted(t) ==
    /\ pc[t] = "idle"
    /\ m_write_count' = IF Writable THEN m_write_count + 1 ELSE m_write_count
    /\ m_writing' = (m_writing \/ Writable)
    /\ pc' = [pc EXCEPT ![t] = IF Writable THEN "writing" ELSE "waitingWrite"]
    /\ UNCHANGED m_read_count

\* ++m_write_count comes before the wait.
lock_write(t) ==
    /\ pc[t] = "idle"
    /\ m_write_count' = m_write_count + 1
    /\ m_writing' = (m_writing \/ Writable)
    /\ pc' = [pc EXCEPT ![t] = IF Writable THEN "writing" ELSE "waitingWrite"]
    /\ UNCHANGED m_read_count

ResumeWrite(t) ==
    /\ pc[t] = "wokenWrite"
    /\ m_writing' = (m_writing \/ Writable)
    /\ pc' = [pc EXCEPT ![t] = IF Writable THEN "writing" ELSE "waitingWrite"]
    /\ UNCHANGED <<m_read_count, m_write_count>>

\* m_cond_write.notify_one(), by a thread t that gives up the lock
WakeWriter(t) ==
    IF At("waitingWrite") = {} THEN pc' = [pc EXCEPT ![t] = "idle"]
    ELSE \E w \in At("waitingWrite") : pc' = [pc EXCEPT ![t] = "idle", ![w] = "wokenWrite"]

\* m_cond_read.notify_all()
WakeReaders(t) ==
    pc' = [u \in Threads |-> IF u = t THEN "idle"
                             ELSE IF pc[u] = "waitingRead" THEN "wokenRead" ELSE pc[u]]

\* Mistake: the last reader wakes nobody.
ReleaseReadSilently(t) ==
    /\ pc[t] = "reading"
    /\ m_read_count' = m_read_count - 1
    /\ pc' = [pc EXCEPT ![t] = "idle"]
    /\ UNCHANGED <<m_write_count, m_writing>>

release_read(t) ==
    /\ pc[t] = "reading"
    /\ m_read_count' = m_read_count - 1
    /\ IF m_read_count = 1 /\ m_write_count > 0 THEN WakeWriter(t)
       ELSE pc' = [pc EXCEPT ![t] = "idle"]
    /\ UNCHANGED <<m_write_count, m_writing>>

\* Mistake: readers are woken, writers that wait are not.
ReleaseWriteToReaders(t) ==
    /\ pc[t] = "writing"
    /\ m_write_count' = m_write_count - 1
    /\ m_writing' = FALSE
    /\ WakeReaders(t)
    /\ UNCHANGED m_read_count

release_write(t) ==
    /\ pc[t] = "writing"
    /\ m_write_count' = m_write_count - 1
    /\ m_writing' = FALSE
    /\ IF m_write_count = 1 THEN WakeReaders(t) ELSE WakeWriter(t)
    /\ UNCHANGED m_read_count

WokenForNothing(t) ==
    /\ pc[t] \in {"waitingRead", "waitingWrite"}
    /\ pc' = [pc EXCEPT ![t] = IF @ = "waitingRead" THEN "wokenRead" ELSE "wokenWrite"]
    /\ UNCHANGED <<m_read_count, m_write_count, m_writing>>

\* What a thread does that has begun
GoOn(t) == ResumeRead(t) \/ ResumeWrite(t) \/ release_read(t) \/ release_write(t)

Next == \E t \in Threads : lock_read(t) \/ lock_write(t) \/ GoOn(t) \/ WokenForNothing(t)

Spec == Init /\ [][Next]_vars

\* The scheduler runs threads that are woken, and who has the lock gives it
\* up.  Nobody has to ask for it.
FairSpec == Spec /\ \A t \in Threads : WF_vars(GoOn(t))

-----------------------------------------------------------------------------
TypeOK ==
    /\ m_read_count \in Nat
    /\ m_write_count \in Nat
    /\ m_writing \in BOOLEAN
    /\ pc \in [Threads -> {"idle", "waitingRead", "wokenRead", "reading",
                           "waitingWrite", "wokenWrite", "writing"}]

(***************************************************************************)
(* The counts are what release_read and release_write take them for; a     *)
(* count that is off by one leaves the lock locked, or open.               *)
(***************************************************************************)
Counted == At("waitingWrite") \union At("wokenWrite") \union At("writing")
CountsExact ==
    /\ m_read_count = Cardinality(At("reading"))
    /\ m_write_count = Cardinality(Counted)
    /\ m_writing <=> At("writing") # {}

\* Readers exclude writers, and writers each other.
Exclusion ==
    /\ At("writing") # {} => At("reading") = {}
    /\ \A t, u \in At("writing") : t = u

(***************************************************************************)
(* Whoever waits is woken by somebody: a reader waits only while a writer  *)
(* is counted; if writers wait while the lock is free, one of them was     *)
(* woken.  notify_one is enough although readers share the lock.           *)
(***************************************************************************)
NoLostWakeup ==
    /\ At("waitingRead") # {} => m_write_count > 0
    /\ At("waitingWrite") # {} /\ Writable => At("wokenWrite") # {}

Inductive == TypeOK /\ CountsExact /\ Exclusion /\ NoLostWakeup

\* rwmutex implements ReadWriteLock.
Lock == INSTANCE ReadWriteLock WITH readers <- At("reading"), writers <- At("writing")
IsReadWriteLock == Lock!Spec

(***************************************************************************)
(* Somebody gets the lock, again and again, unless nobody wants it any     *)
(* more.  (Each reader is not promised it: writers may come forever.)      *)
(***************************************************************************)
Enters(t) == pc[t] \notin {"reading", "writing"} /\ pc'[t] \in {"reading", "writing"}
SomebodyEnters ==
    \/ <>[](\A t \in Threads : pc[t] = "idle")
    \/ []<><<\E t \in Threads : Enters(t)>>_vars
=============================================================================
