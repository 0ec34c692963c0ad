---------------------------- MODULE ReadWriteLock ----------------------------
(***************************************************************************)
(* What rwmutex (utils/mutex.h) promises to SyncBlock: any number of       *)
(* readers, or one writer.                                                 *)
(***************************************************************************)
CONSTANT Threads

VARIABLES
    readers,    \* the threads that hold the lock to read
    writers     \* ... and to write

lockVars == <<readers, writers>>

Init == readers = {} /\ writers = {}

LockRead(t) ==
    /\ t \notin readers /\ writers = {}
    /\ readers' = readers \union {t}
    /\ UNCHANGED writers

LockWrite(t) ==
    /\ readers = {} /\ writers = {}
    /\ writers' = {t}
    /\ UNCHANGED readers

ReleaseRead(t) ==
    /\ t \in readers
    /\ readers' = readers \ {t}
    /\ UNCHANGED writers

ReleaseWrite(t) ==
    /\ t \in writers
    /\ writers' = writers \ {t}
    /\ UNCHANGED readers

Next == \E t \in Threads : LockRead(t) \/ LockWrite(t) \/ ReleaseRead(t) \/ ReleaseWrite(t)

Spec == Init /\ [][Next]_lockVars
=============================================================================
