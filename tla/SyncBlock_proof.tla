---------------------------- MODULE SyncBlock_proof ----------------------------
(***************************************************************************)
(* Proofs about RWMutex and about SyncBlock, which it guards.  For any     *)
(* number of threads the lock excludes, its counts are exact, and a thread *)
(* that waits is woken by somebody; of each key one copy is made, and no   *)
(* reader finds a value that was destroyed or is old.                      *)
(***************************************************************************)
EXTENDS SyncBlock, TLAPS, FiniteSetTheorems

-----------------------------------------------------------------------------
(***************************************************************************)
(* Counting threads                                                        *)
(***************************************************************************)
\* A set of threads is finite, and its size tells whether it is empty.
LEMMA ThreadsCounted ==
    ASSUME NEW S, S \subseteq Threads
    PROVE  IsFiniteSet(S) /\ Cardinality(S) \in Nat /\ (Cardinality(S) = 0 <=> S = {})
BY ThreadsAssumption, FS_Subset, FS_CardinalityType, FS_EmptySet

\* One thread more
LEMMA OneMore ==
    ASSUME NEW S, S \subseteq Threads, NEW t \in Threads, t \notin S
    PROVE  Cardinality(S \union {t}) = Cardinality(S) + 1
BY ThreadsCounted, FS_AddElement

\* One thread less
LEMMA OneLess ==
    ASSUME NEW S, S \subseteq Threads, NEW t \in S
    PROVE  Cardinality(S \ {t}) = Cardinality(S) - 1 /\ Cardinality(S) > 0
<1>1. Cardinality(S \ {t}) = Cardinality(S) - 1
  BY ThreadsCounted, FS_RemoveElement
<1>2. Cardinality(S) \in Nat /\ Cardinality(S) # 0
  BY ThreadsCounted
<1> QED
  BY <1>1, <1>2

\* A single thread
LEMMA OnlyOne ==
    ASSUME NEW S, S \subseteq Threads, NEW t \in S, Cardinality(S) = 1
    PROVE  S = {t}
<1>1. Cardinality(S \ {t}) = 0
  BY OneLess
<1>2. S \ {t} = {}
  BY <1>1, ThreadsCounted, S \ {t} \subseteq Threads
<1> QED
  BY <1>2

-----------------------------------------------------------------------------
(***************************************************************************)
(* Where threads are                                                       *)
(***************************************************************************)
\* One thread moves.
LEMMA OneMoves ==
    ASSUME TypeOK, NEW t \in Threads, NEW to, pc' = [pc EXCEPT ![t] = to], NEW where
    PROVE  At(where)' = IF where = to THEN At(where) \union {t} ELSE At(where) \ {t}
BY DEF TypeOK, At

\* A thread is in one place.
LEMMA InOnePlace ==
    ASSUME NEW t \in Threads, NEW where
    PROVE  t \in At(where) <=> pc[t] = where
BY DEF At

\* What the counts tell
LEMMA CountsTell ==
    ASSUME Inductive
    PROVE  /\ m_read_count \in Nat /\ m_write_count \in Nat
           /\ m_read_count = 0 <=> At("reading") = {}
           /\ m_write_count = 0 <=> Counted = {}
           /\ At("reading") \subseteq Threads /\ Counted \subseteq Threads
<1>1. At("reading") \subseteq Threads /\ Counted \subseteq Threads
  BY DEF At, Counted
<1> QED
  BY <1>1, ThreadsCounted DEF Inductive, TypeOK, CountsExact

\* A reader gets the lock: no writer is counted.
LEMMA EnterReadKeeps ==
    ASSUME Inductive, NEW t \in Threads, pc[t] \in {"idle", "wokenRead"}, EnterRead(t)
    PROVE  Inductive'
<1>1. TypeOK /\ CountsExact /\ Exclusion /\ NoLostWakeup
  BY DEF Inductive
<1>2. /\ m_write_count = 0 /\ m_read_count' = m_read_count + 1
      /\ pc' = [pc EXCEPT ![t] = "reading"] /\ UNCHANGED <<m_write_count, m_writing>>
  BY DEF EnterRead, Readable
<1>3. TypeOK'
  BY <1>1, <1>2 DEF TypeOK
<1>4. Counted = {}
  BY <1>2, CountsTell
<1>5. /\ At("reading")' = At("reading") \union {t} /\ t \notin At("reading")
      /\ \A w \in {"waitingWrite", "wokenWrite", "writing", "waitingRead"} :
            At(w)' = At(w) \ {t} /\ t \notin At(w)
  <2>1. \A w : At(w)' = IF w = "reading" THEN At(w) \union {t} ELSE At(w) \ {t}
    BY <1>1, <1>2, OneMoves
  <2> QED
    BY <2>1, InOnePlace
<1>6. Counted' = {} /\ At("writing") = {} /\ At("writing")' = {} /\ At("waitingWrite")' = {}
  BY <1>4, <1>5 DEF Counted
<1>7. CountsExact'
  <2>1. m_read_count' = Cardinality(At("reading")')
    BY <1>1, <1>2, <1>5, OneMore, CountsTell DEF CountsExact
  <2>2. m_write_count' = Cardinality(Counted')
    BY <1>1, <1>2, <1>4, <1>6 DEF CountsExact
  <2>3. m_writing' <=> At("writing")' # {}
    BY <1>1, <1>2, <1>6 DEF CountsExact
  <2> QED
    BY <2>1, <2>2, <2>3 DEF CountsExact
<1>8. Exclusion'
  BY <1>6 DEF Exclusion
<1>9. NoLostWakeup'
  <2>1. At("waitingRead")' = {}
    BY <1>1, <1>2, <1>5 DEF NoLostWakeup, TypeOK
  <2> QED
    BY <2>1, <1>6 DEF NoLostWakeup
<1> QED
  BY <1>3, <1>7, <1>8, <1>9 DEF Inductive

\* A reader waits: a writer is counted.
LEMMA AwaitReadKeeps ==
    ASSUME Inductive, NEW t \in Threads, pc[t] \in {"idle", "wokenRead"}, AwaitRead(t)
    PROVE  Inductive'
<1>1. TypeOK /\ CountsExact /\ Exclusion /\ NoLostWakeup
  BY DEF Inductive
<1>2. /\ m_write_count # 0 /\ pc' = [pc EXCEPT ![t] = "waitingRead"]
      /\ UNCHANGED <<m_read_count, m_write_count, m_writing>>
  BY DEF AwaitRead, Readable
<1>3. TypeOK'
  BY <1>1, <1>2 DEF TypeOK
<1>4. \A w \in {"waitingWrite", "wokenWrite", "writing", "reading"} : At(w)' = At(w)
  <2>1. \A w : At(w)' = IF w = "waitingRead" THEN At(w) \union {t} ELSE At(w) \ {t}
    BY <1>1, <1>2, OneMoves
  <2> QED
    BY <2>1, InOnePlace
<1>5. Counted' = Counted
  BY <1>4 DEF Counted
<1>6. CountsExact' /\ Exclusion'
  BY <1>1, <1>2, <1>4, <1>5 DEF CountsExact, Exclusion
<1>7. NoLostWakeup'
  <2>1. m_write_count' > 0
    BY <1>1, <1>2 DEF TypeOK
  <2> QED
    BY <2>1, <1>1, <1>2, <1>4 DEF NoLostWakeup, Writable
<1> QED
  BY <1>3, <1>6, <1>7 DEF Inductive

\* A writer that asks, or was woken, takes a free lock or waits.
LEMMA TestWriteKeeps ==
    ASSUME Inductive, NEW t \in Threads, lock_write(t) \/ ResumeWrite(t)
    PROVE  Inductive'
<1>1. TypeOK /\ CountsExact /\ Exclusion /\ NoLostWakeup
  BY DEF Inductive
<1> DEFINE to == IF Writable THEN "writing" ELSE "waitingWrite"
<1>2. /\ m_writing' = (m_writing \/ Writable) /\ m_read_count' = m_read_count
      /\ pc' = [pc EXCEPT ![t] = to]
      /\ \/ pc[t] = "idle" /\ m_write_count' = m_write_count + 1
         \/ pc[t] = "wokenWrite" /\ m_write_count' = m_write_count
  BY DEF lock_write, ResumeWrite
<1>3. to \in {"writing", "waitingWrite"} /\ (to = "writing" <=> Writable)
  OBVIOUS
<1> HIDE DEF to
<1>4. TypeOK'
  BY <1>1, <1>2, <1>3 DEF TypeOK
<1>5. \A w : At(w)' = IF w = to THEN At(w) \union {t} ELSE At(w) \ {t}
  BY <1>1, <1>2, OneMoves
<1>6. At("reading")' = At("reading") /\ At("waitingRead")' = At("waitingRead")
  <2>1. t \notin At("reading") /\ t \notin At("waitingRead")
    BY <1>2, InOnePlace
  <2> QED
    BY <2>1, <1>3, <1>5
<1>7. Counted' = Counted \union {t}
  BY <1>3, <1>5 DEF Counted
<1>8. t \in Counted <=> pc[t] = "wokenWrite"
  BY <1>2, InOnePlace DEF Counted
<1>9. m_write_count' = Cardinality(Counted')
  <2>1. CASE pc[t] = "idle"
    BY <2>1, <1>1, <1>2, <1>7, <1>8, OneMore, CountsTell DEF CountsExact
  <2>2. CASE pc[t] = "wokenWrite"
    BY <2>2, <1>1, <1>2, <1>7, <1>8, Counted' = Counted DEF CountsExact
  <2> QED
    BY <2>1, <2>2, <1>2
<1>10. m_writing \in BOOLEAN /\ (m_writing <=> At("writing") # {})
  BY <1>1 DEF TypeOK, CountsExact
<1>11. t \notin At("writing")
  BY <1>2, InOnePlace
<1>12. CASE Writable
  <2>1. /\ m_read_count = 0 /\ ~m_writing /\ to = "writing"
    BY <1>12, <1>3 DEF Writable
  <2>2. m_writing'
    BY <1>2, <1>12
  <2>3. At("writing") = {} /\ At("reading") = {} /\ At("writing")' = {t}
    BY <2>1, <1>5, <1>10, CountsTell
  <2>4. CountsExact'
    BY <2>2, <2>3, <1>1, <1>2, <1>6, <1>9 DEF CountsExact
  <2>5. Exclusion'
    BY <2>3, <1>6 DEF Exclusion
  <2>6. NoLostWakeup'
    <3>1. m_write_count' > 0
      <4>1. t \in Counted' /\ Counted' \subseteq Threads
        BY <1>7, CountsTell
      <4> QED
        BY <4>1, <1>9, OneLess
    <3> QED
      BY <3>1, <2>2 DEF NoLostWakeup, Writable
  <2> QED
    BY <2>4, <2>5, <2>6, <1>4 DEF Inductive
<1>13. CASE ~Writable
  <2>1. to = "waitingWrite"
    BY <1>13, <1>3
  <2>2. m_writing' = m_writing
    BY <1>2, <1>10, <1>13
  <2>3. At("writing")' = At("writing")
    BY <2>1, <1>5, <1>11
  <2>4. CountsExact'
    BY <2>2, <2>3, <1>1, <1>2, <1>6, <1>9 DEF CountsExact
  <2>5. Exclusion'
    BY <2>3, <1>1, <1>6 DEF Exclusion
  <2>6. NoLostWakeup'
    <3>1. ~Writable'
      BY <2>2, <1>2, <1>13 DEF Writable
    <3>2. m_write_count' > 0
      <4>1. t \in Counted' /\ Counted' \subseteq Threads
        BY <1>7, CountsTell
      <4> QED
        BY <4>1, <1>9, OneLess
    <3> QED
      BY <3>1, <3>2 DEF NoLostWakeup
  <2> QED
    BY <2>4, <2>5, <2>6, <1>4 DEF Inductive
<1> QED
  BY <1>12, <1>13

-----------------------------------------------------------------------------
(***************************************************************************)
(* Giving the lock up                                                      *)
(***************************************************************************)
\* notify_one: the thread that releases is idle and, if writers wait, one of
\* them is woken.
LEMMA WakeWriterMoves ==
    ASSUME TypeOK, NEW t \in Threads, pc[t] \in {"reading", "writing"}, WakeWriter(t)
    PROVE  /\ pc' \in [Threads -> {"idle", "waitingRead", "wokenRead", "reading",
                                   "waitingWrite", "wokenWrite", "writing"}]
           /\ At("reading")' = At("reading") \ {t}
           /\ At("writing")' = At("writing") \ {t}
           /\ At("waitingRead")' = At("waitingRead")
           /\ Counted' = Counted \ {t}
           /\ At("waitingWrite")' # {} => At("wokenWrite")' # {}
<1>1. CASE At("waitingWrite") = {}
  <2>1. pc' = [pc EXCEPT ![t] = "idle"]
    BY <1>1 DEF WakeWriter
  <2>2. \A w \in {"reading", "writing", "waitingRead", "waitingWrite", "wokenWrite"} :
            At(w)' = At(w) \ {t}
    BY <2>1, OneMoves
  <2>3. t \notin At("waitingRead")
    BY InOnePlace
  <2>4. Counted' = Counted \ {t}
    BY <2>2 DEF Counted
  <2>5. pc' \in [Threads -> {"idle", "waitingRead", "wokenRead", "reading",
                             "waitingWrite", "wokenWrite", "writing"}]
    BY <2>1 DEF TypeOK
  <2> QED
    BY <1>1, <2>2, <2>3, <2>4, <2>5
<1>2. ASSUME NEW w \in At("waitingWrite"),
             pc' = [pc EXCEPT ![t] = "idle", ![w] = "wokenWrite"]
      PROVE  /\ pc' \in [Threads -> {"idle", "waitingRead", "wokenRead", "reading",
                                     "waitingWrite", "wokenWrite", "writing"}]
             /\ At("reading")' = At("reading") \ {t}
             /\ At("writing")' = At("writing") \ {t}
             /\ At("waitingRead")' = At("waitingRead")
             /\ Counted' = Counted \ {t}
             /\ At("wokenWrite")' # {}
  <2>1. w \in Threads /\ pc[w] = "waitingWrite" /\ w # t
    BY DEF At
  <2>2. \A u \in Threads : pc'[u] = IF u = w THEN "wokenWrite"
                                    ELSE IF u = t THEN "idle" ELSE pc[u]
    BY <1>2, <2>1 DEF TypeOK
  <2>3. pc' \in [Threads -> {"idle", "waitingRead", "wokenRead", "reading",
                             "waitingWrite", "wokenWrite", "writing"}]
    BY <1>2, <2>1 DEF TypeOK
  <2>4. /\ At("reading")' = At("reading") \ {t}
        /\ At("writing")' = At("writing") \ {t}
        /\ At("waitingRead")' = At("waitingRead")
    BY <2>1, <2>2 DEF At
  <2>5. /\ At("waitingWrite")' = At("waitingWrite") \ {w}
        /\ At("wokenWrite")' = At("wokenWrite") \union {w}
    BY <2>1, <2>2 DEF At
  <2>6. Counted' = Counted \ {t}
    BY <2>1, <2>4, <2>5, InOnePlace DEF Counted
  <2> QED
    BY <2>3, <2>4, <2>5, <2>6
<1> QED
  BY <1>1, <1>2 DEF WakeWriter

\* The last reader lets a writer in.
LEMMA ReleaseReadKeeps ==
    ASSUME Inductive, NEW t \in Threads, release_read(t)
    PROVE  Inductive'
<1>1. TypeOK /\ CountsExact /\ Exclusion /\ NoLostWakeup
  BY DEF Inductive
<1>2. /\ pc[t] = "reading" /\ m_read_count' = m_read_count - 1
      /\ UNCHANGED <<m_write_count, m_writing>>
      /\ IF m_read_count = 1 /\ m_write_count > 0 THEN WakeWriter(t)
         ELSE pc' = [pc EXCEPT ![t] = "idle"]
  BY DEF release_read
<1>3. t \in At("reading") /\ At("reading") \subseteq Threads
  BY <1>2, InOnePlace, CountsTell
<1>4. t \notin Counted /\ t \notin At("waitingRead") /\ t \notin At("writing")
  BY <1>2, InOnePlace DEF Counted
<1>5. /\ pc' \in [Threads -> {"idle", "waitingRead", "wokenRead", "reading",
                              "waitingWrite", "wokenWrite", "writing"}]
      /\ At("reading")' = At("reading") \ {t}
      /\ At("writing")' = At("writing")
      /\ At("waitingRead")' = At("waitingRead")
      /\ Counted' = Counted
      /\ m_read_count = 1 => (At("waitingWrite")' # {} => At("wokenWrite")' # {})
  <2>1. CASE m_read_count = 1 /\ m_write_count > 0
    BY <2>1, <1>1, <1>2, <1>4, WakeWriterMoves
  <2>2. CASE ~(m_read_count = 1 /\ m_write_count > 0)
    <3>1. pc' = [pc EXCEPT ![t] = "idle"]
      BY <2>2, <1>2
    <3>2. \A w \in {"reading", "writing", "waitingRead", "waitingWrite", "wokenWrite"} :
              At(w)' = At(w) \ {t}
      BY <1>1, <3>1, OneMoves
    <3>3. Counted' = Counted
      BY <1>4, <3>2 DEF Counted
    <3>4. m_read_count = 1 => Counted = {}
      BY <2>2, CountsTell
    <3>5. m_read_count = 1 => At("waitingWrite")' = {}
      BY <3>2, <3>4 DEF Counted
    <3>6. pc' \in [Threads -> {"idle", "waitingRead", "wokenRead", "reading",
                               "waitingWrite", "wokenWrite", "writing"}]
      BY <1>1, <3>1 DEF TypeOK
    <3> QED
      BY <1>4, <3>2, <3>3, <3>5, <3>6
  <2> QED
    BY <2>1, <2>2
<1>6. m_read_count \in Nat /\ m_read_count > 0 /\ m_read_count' = Cardinality(At("reading")')
  BY <1>1, <1>2, <1>3, <1>5, OneLess, CountsTell DEF CountsExact
<1>7. TypeOK'
  BY <1>1, <1>2, <1>5, <1>6 DEF TypeOK
<1>8. CountsExact'
  BY <1>1, <1>2, <1>5, <1>6 DEF CountsExact
<1>9. Exclusion'
  BY <1>1, <1>5 DEF Exclusion
<1>10. NoLostWakeup'
  <2>1. At("waitingRead")' # {} => m_write_count' > 0
    BY <1>1, <1>2, <1>5 DEF NoLostWakeup
  <2>2. Writable' => m_read_count = 1
    BY <1>2, <1>6 DEF Writable
  <2> QED
    BY <2>1, <2>2, <1>5 DEF NoLostWakeup
<1> QED
  BY <1>7, <1>8, <1>9, <1>10 DEF Inductive

\* A writer lets another writer in or, if there is none, the readers.
LEMMA ReleaseWriteKeeps ==
    ASSUME Inductive, NEW t \in Threads, release_write(t)
    PROVE  Inductive'
<1>1. TypeOK /\ CountsExact /\ Exclusion /\ NoLostWakeup
  BY DEF Inductive
<1>2. /\ pc[t] = "writing" /\ m_write_count' = m_write_count - 1 /\ m_writing' = FALSE
      /\ m_read_count' = m_read_count
      /\ IF m_write_count = 1 THEN WakeReaders(t) ELSE WakeWriter(t)
  BY DEF release_write
<1>3. t \in Counted /\ t \in At("writing") /\ Counted \subseteq Threads
  BY <1>2, InOnePlace, CountsTell DEF Counted
<1>4. At("writing") = {t} /\ At("reading") = {}
  BY <1>1, <1>3 DEF Exclusion
<1>5. /\ pc' \in [Threads -> {"idle", "waitingRead", "wokenRead", "reading",
                              "waitingWrite", "wokenWrite", "writing"}]
      /\ At("reading")' = {} /\ At("writing")' = {}
      /\ Counted' = Counted \ {t}
      /\ At("waitingRead")' # {} => m_write_count # 1
      /\ At("waitingWrite")' # {} => At("wokenWrite")' # {}
  <2>1. CASE m_write_count # 1
    BY <2>1, <1>1, <1>2, <1>4, WakeWriterMoves
  <2>2. CASE m_write_count = 1
    <3>1. \A u \in Threads : pc'[u] = IF u = t THEN "idle"
                                      ELSE IF pc[u] = "waitingRead" THEN "wokenRead" ELSE pc[u]
      BY <2>2, <1>2 DEF WakeReaders
    <3>2. Counted = {t}
      BY <2>2, <1>1, <1>3, OnlyOne DEF CountsExact
    <3>3. pc' \in [Threads -> {"idle", "waitingRead", "wokenRead", "reading",
                               "waitingWrite", "wokenWrite", "writing"}]
      BY <2>2, <1>1, <1>2 DEF WakeReaders, TypeOK
    <3>4. \A w \in {"reading", "writing", "waitingWrite", "wokenWrite"} : At(w)' = At(w) \ {t}
      BY <3>1 DEF At
    <3>5. At("waitingRead")' = {}
      BY <3>1 DEF At
    <3>6. Counted' = {} /\ At("waitingWrite")' = {}
      BY <3>2, <3>4 DEF Counted
    <3> QED
      BY <3>2, <3>3, <3>4, <3>5, <3>6, <1>4
  <2> QED
    BY <2>1, <2>2
<1>6. m_write_count \in Nat /\ m_write_count > 0 /\ m_write_count' = Cardinality(Counted')
  BY <1>1, <1>2, <1>3, <1>5, OneLess, CountsTell DEF CountsExact
<1>7. m_read_count = 0
  BY <1>4, CountsTell
<1>8. TypeOK'
  <2>1. m_read_count' \in Nat /\ m_write_count' \in Nat
    BY <1>1, <1>2, <1>6 DEF TypeOK
  <2>2. m_writing' \in BOOLEAN
    BY <1>2
  <2> QED
    BY <1>5, <2>1, <2>2 DEF TypeOK
<1>9. CountsExact'
  <2>1. m_read_count' = Cardinality(At("reading")')
    BY <1>1, <1>2, <1>4, <1>5 DEF CountsExact
  <2> QED
    BY <2>1, <1>2, <1>5, <1>6 DEF CountsExact
<1>10. Exclusion'
  BY <1>5 DEF Exclusion
<1>11. NoLostWakeup'
  <2>1. m_write_count # 1 => m_write_count' > 0
    BY <1>2, <1>6
  <2> QED
    BY <2>1, <1>5 DEF NoLostWakeup
<1> QED
  BY <1>8, <1>9, <1>10, <1>11 DEF Inductive

\* A thread that is woken for nothing tests again.
LEMMA WokenForNothingKeeps ==
    ASSUME Inductive, NEW t \in Threads, WokenForNothing(t)
    PROVE  Inductive'
<1>1. TypeOK /\ CountsExact /\ Exclusion /\ NoLostWakeup
  BY DEF Inductive
<1> DEFINE to == IF pc[t] = "waitingRead" THEN "wokenRead" ELSE "wokenWrite"
<1>2. /\ pc[t] \in {"waitingRead", "waitingWrite"} /\ pc' = [pc EXCEPT ![t] = to]
      /\ UNCHANGED <<m_read_count, m_write_count, m_writing>>
  BY DEF WokenForNothing
<1>3. \/ pc[t] = "waitingRead" /\ to = "wokenRead"
      \/ pc[t] = "waitingWrite" /\ to = "wokenWrite"
  BY <1>2
<1> HIDE DEF to
<1>4. TypeOK'
  BY <1>1, <1>2, <1>3 DEF TypeOK
<1>5. \A w : At(w)' = IF w = to THEN At(w) \union {t} ELSE At(w) \ {t}
  BY <1>1, <1>2, OneMoves
<1>6. At("reading")' = At("reading") /\ At("writing")' = At("writing")
  <2>1. t \notin At("reading") /\ t \notin At("writing")
    BY <1>2, InOnePlace
  <2> QED
    BY <2>1, <1>3, <1>5
<1>7. Counted' = Counted /\ At("waitingRead")' \subseteq At("waitingRead")
      /\ (At("waitingWrite")' # {} => At("waitingWrite") # {})
      /\ At("wokenWrite") \subseteq At("wokenWrite")'
  <2>1. CASE pc[t] = "waitingRead" /\ to = "wokenRead"
    <3>1. t \notin Counted /\ t \notin At("wokenWrite")
      BY <2>1, InOnePlace DEF Counted
    <3> QED
      BY <2>1, <3>1, <1>5 DEF Counted
  <2>2. CASE pc[t] = "waitingWrite" /\ to = "wokenWrite"
    <3>1. t \in At("waitingWrite") /\ t \notin At("writing")
      BY <2>2, InOnePlace
    <3> QED
      BY <2>2, <3>1, <1>5 DEF Counted
  <2> QED
    BY <2>1, <2>2, <1>3
<1>8. CountsExact' /\ Exclusion'
  BY <1>1, <1>2, <1>6, <1>7 DEF CountsExact, Exclusion
<1>9. NoLostWakeup'
  BY <1>1, <1>2, <1>7 DEF NoLostWakeup, Writable
<1> QED
  BY <1>4, <1>8, <1>9 DEF Inductive

\* Nobody has asked yet.
LEMMA InitInductive == Init => Inductive
<1> SUFFICES ASSUME Init PROVE Inductive
  OBVIOUS
<1>1. \A w \in {"reading", "writing", "waitingRead", "waitingWrite", "wokenWrite"} : At(w) = {}
  BY DEF Init, At
<1>2. Counted = {} /\ Cardinality({}) = 0
  BY <1>1, FS_EmptySet DEF Counted
<1> QED
  BY <1>1, <1>2 DEF Init, Inductive, TypeOK, CountsExact, Exclusion, NoLostWakeup

\* A step that changes nothing
LEMMA StutterKeeps == Inductive /\ UNCHANGED vars => Inductive'
BY DEF Inductive, vars, TypeOK, CountsExact, Exclusion, NoLostWakeup, Counted, At, Writable

-----------------------------------------------------------------------------
\* For any number of threads, counts are exact, writers exclude everybody and
\* whoever waits is woken by somebody.
THEOREM InductiveInvariant == Spec => []Inductive
<1>1. Inductive /\ Next => Inductive'
  BY EnterReadKeeps, AwaitReadKeeps, TestWriteKeeps, ReleaseReadKeeps, ReleaseWriteKeeps,
     WokenForNothingKeeps DEF Next, GoOn, lock_read, ResumeRead
<1> QED
  BY InitInductive, <1>1, StutterKeeps, PTL DEF Spec

\* A reader waits only while a writer is counted, and when writers wait for a
\* free lock one of them is about to take it.
THEOREM NobodyForgotten == Spec => []NoLostWakeup
<1>1. Inductive => NoLostWakeup
  BY DEF Inductive
<1> QED
  BY <1>1, InductiveInvariant, PTL

-----------------------------------------------------------------------------
(***************************************************************************)
(* rwmutex is a read-write lock                                            *)
(***************************************************************************)
\* The threads that hold the lock, before and after one of them moves
LEMMA HoldersMove ==
    ASSUME TypeOK, NEW t \in Threads, NEW to, pc' = [pc EXCEPT ![t] = to]
    PROVE  /\ At("reading")' = IF to = "reading" THEN At("reading") \union {t}
                               ELSE At("reading") \ {t}
           /\ At("writing")' = IF to = "writing" THEN At("writing") \union {t}
                               ELSE At("writing") \ {t}
BY OneMoves

\* A thread that neither had nor gets the lock
LEMMA OthersStay ==
    ASSUME TypeOK, NEW t \in Threads, NEW to, to \notin {"reading", "writing"},
           pc' = [pc EXCEPT ![t] = to], t \notin At("reading"), t \notin At("writing")
    PROVE  At("reading")' = At("reading") /\ At("writing")' = At("writing")
<1>1. to # "reading" /\ to # "writing"
  OBVIOUS
<1>2. At("reading")' = At("reading") \ {t}
  BY <1>1, HoldersMove
<1>3. At("writing")' = At("writing") \ {t}
  BY <1>1, HoldersMove
<1>4. At("reading") \ {t} = At("reading") /\ At("writing") \ {t} = At("writing")
  OBVIOUS
<1> QED
  BY <1>2, <1>3, <1>4

\* Every call that takes or gives up the lock is a step of ReadWriteLock, and
\* the others change nobody's hold.
LEMMA LockStep ==
    ASSUME Inductive, Inductive', [Next]_vars
    PROVE  [Lock!Next]_(Lock!lockVars)
<1>1. TypeOK /\ Exclusion /\ CountsExact
  BY DEF Inductive
<1>2. At("reading") \subseteq Threads /\ At("writing") \subseteq Threads
  BY DEF At
<1>3. SUFFICES
        \/ UNCHANGED <<At("reading"), At("writing")>>
        \/ \E t \in Threads :
             \/ /\ t \notin At("reading") /\ At("writing") = {}
                /\ At("reading")' = At("reading") \union {t} /\ At("writing")' = At("writing")
             \/ /\ At("reading") = {} /\ At("writing") = {}
                /\ At("writing")' = {t} /\ At("reading")' = At("reading")
             \/ /\ t \in At("reading")
                /\ At("reading")' = At("reading") \ {t} /\ At("writing")' = At("writing")
             \/ /\ t \in At("writing")
                /\ At("writing")' = At("writing") \ {t} /\ At("reading")' = At("reading")
  BY DEF Lock!Next, Lock!lockVars, Lock!LockRead, Lock!LockWrite, Lock!ReleaseRead,
         Lock!ReleaseWrite
<1>4. ASSUME NEW t \in Threads, pc[t] \in {"idle", "wokenRead"}, EnterRead(t)
      PROVE  /\ t \notin At("reading") /\ At("writing") = {}
             /\ At("reading")' = At("reading") \union {t} /\ At("writing")' = At("writing")
  <2>1. pc' = [pc EXCEPT ![t] = "reading"] /\ m_write_count = 0
    BY <1>4 DEF EnterRead, Readable
  <2>2. t \notin At("reading") /\ t \notin At("writing")
    BY <1>4, InOnePlace
  <2>3. At("writing") = {}
    BY <2>1, CountsTell DEF Counted
  <2> QED
    BY <2>1, <2>2, <2>3, <1>1, HoldersMove
<1>5. ASSUME NEW t \in Threads, pc[t] \in {"idle", "wokenRead"}, AwaitRead(t)
      PROVE  UNCHANGED <<At("reading"), At("writing")>>
  <2>1. pc' = [pc EXCEPT ![t] = "waitingRead"]
    BY <1>5 DEF AwaitRead
  <2>2. t \notin At("reading") /\ t \notin At("writing")
    BY <1>5, InOnePlace
  <2> QED
    BY <2>1, <2>2, <1>1, OthersStay
<1>6. ASSUME NEW t \in Threads, lock_write(t) \/ ResumeWrite(t)
      PROVE  \/ UNCHANGED <<At("reading"), At("writing")>>
             \/ /\ At("reading") = {} /\ At("writing") = {}
                /\ At("writing")' = {t} /\ At("reading")' = At("reading")
  <2>1. /\ pc' = [pc EXCEPT ![t] = IF Writable THEN "writing" ELSE "waitingWrite"]
        /\ pc[t] \in {"idle", "wokenWrite"}
    BY <1>6 DEF lock_write, ResumeWrite
  <2>2. t \notin At("reading") /\ t \notin At("writing")
    BY <2>1, InOnePlace
  <2>3. CASE Writable
    <3>1. pc' = [pc EXCEPT ![t] = "writing"]
      BY <2>1, <2>3
    <3>2. At("reading") = {} /\ At("writing") = {}
      BY <2>3, <1>1, CountsTell DEF Writable, CountsExact
    <3> QED
      BY <3>1, <3>2, <2>2, <1>1, HoldersMove
  <2>4. CASE ~Writable
    <3>1. pc' = [pc EXCEPT ![t] = "waitingWrite"]
      BY <2>1, <2>4
    <3> QED
      BY <3>1, <2>2, <1>1, OthersStay
  <2> QED
    BY <2>3, <2>4
<1>7. ASSUME NEW t \in Threads, release_read(t)
      PROVE  /\ t \in At("reading")
             /\ At("reading")' = At("reading") \ {t} /\ At("writing")' = At("writing")
  <2>1. /\ pc[t] = "reading"
        /\ IF m_read_count = 1 /\ m_write_count > 0 THEN WakeWriter(t)
           ELSE pc' = [pc EXCEPT ![t] = "idle"]
    BY <1>7 DEF release_read
  <2>2. t \in At("reading") /\ t \notin At("writing")
    BY <2>1, InOnePlace
  <2> QED
    BY <2>1, <2>2, <1>1, HoldersMove, WakeWriterMoves
<1>8. ASSUME NEW t \in Threads, release_write(t)
      PROVE  /\ t \in At("writing")
             /\ At("writing")' = At("writing") \ {t} /\ At("reading")' = At("reading")
  <2>1. pc[t] = "writing" /\ IF m_write_count = 1 THEN WakeReaders(t) ELSE WakeWriter(t)
    BY <1>8 DEF release_write
  <2>2. t \in At("writing") /\ t \notin At("reading")
    BY <2>1, InOnePlace
  <2>3. CASE m_write_count = 1
    <3>1. \A u \in Threads : pc'[u] = IF u = t THEN "idle"
                                      ELSE IF pc[u] = "waitingRead" THEN "wokenRead" ELSE pc[u]
      BY <2>1, <2>3 DEF WakeReaders
    <3> QED
      BY <3>1, <2>1, <2>2 DEF At
  <2>4. CASE m_write_count # 1
    BY <2>1, <2>2, <2>4, <1>1, WakeWriterMoves
  <2> QED
    BY <2>3, <2>4
<1>9. ASSUME NEW t \in Threads, WokenForNothing(t)
      PROVE  UNCHANGED <<At("reading"), At("writing")>>
  <2>1. /\ \E to \in {"wokenRead", "wokenWrite"} : pc' = [pc EXCEPT ![t] = to]
        /\ pc[t] \in {"waitingRead", "waitingWrite"}
    BY <1>9 DEF WokenForNothing
  <2>2. t \notin At("reading") /\ t \notin At("writing")
    BY <2>1, InOnePlace
  <2> QED
    BY <2>1, <2>2, <1>1, OthersStay
<1>10. CASE UNCHANGED vars
  BY <1>10 DEF vars, At
<1>11. CASE Next
  <2>1. PICK t \in Threads : lock_read(t) \/ lock_write(t) \/ GoOn(t) \/ WokenForNothing(t)
    BY <1>11 DEF Next
  <2>2. CASE lock_read(t) \/ ResumeRead(t)
    BY <2>2, <1>4, <1>5 DEF lock_read, ResumeRead
  <2>3. CASE lock_write(t) \/ ResumeWrite(t)
    BY <2>3, <1>6
  <2>4. CASE release_read(t)
    BY <2>4, <1>7
  <2>5. CASE release_write(t)
    BY <2>5, <1>8
  <2>6. CASE WokenForNothing(t)
    BY <2>6, <1>9
  <2> QED
    BY <2>1, <2>2, <2>3, <2>4, <2>5, <2>6 DEF GoOn
<1> QED
  BY <1>10, <1>11

\* rwmutex implements ReadWriteLock, whoever is woken and however often for
\* nothing.
THEOREM ImplementsLock == Spec => IsReadWriteLock
<1>1. Init => Lock!Init
  BY DEF Init, Lock!Init, At
<1>2. Inductive /\ Inductive' /\ [Next]_vars => [Lock!Next]_(Lock!lockVars)
  BY LockStep
<1> QED
  BY <1>1, <1>2, InductiveInvariant, PTL DEF Spec, IsReadWriteLock, Lock!Spec
-----------------------------------------------------------------------------
(***************************************************************************)
(* The block holds to the lock.                                            *)
(***************************************************************************)
Places == {"idle", "waitingRead", "wokenRead", "reading", "waitingWrite", "wokenWrite", "writing"}

\* Others than the thread that takes or gives up the lock may be woken.
Undisturbed(t) ==
    \A u \in Threads : u # t => \/ pc'[u] = pc[u]
                                \/ pc[u] = "waitingRead" /\ pc'[u] = "wokenRead"
                                \/ pc[u] = "waitingWrite" /\ pc'[u] = "wokenWrite"

LEMMA ReadAsked ==
    ASSUME TypeOK, NEW t \in Threads, lock_read(t)
    PROVE  pc[t] = "idle" /\ pc'[t] \in {"reading", "waitingRead"} /\ Undisturbed(t)
BY DEF TypeOK, lock_read, EnterRead, AwaitRead, Undisturbed

LEMMA WriteAsked ==
    ASSUME TypeOK, NEW t \in Threads, lock_write(t)
    PROVE  pc[t] = "idle" /\ pc'[t] \in {"writing", "waitingWrite"} /\ Undisturbed(t)
BY DEF TypeOK, lock_write, Undisturbed

LEMMA Resumed ==
    ASSUME TypeOK, NEW t \in Threads, ResumeRead(t) \/ ResumeWrite(t)
    PROVE  /\ \/ pc[t] = "wokenRead" /\ pc'[t] \in {"reading", "waitingRead"}
              \/ pc[t] = "wokenWrite" /\ pc'[t] \in {"writing", "waitingWrite"}
           /\ Undisturbed(t)
BY DEF TypeOK, ResumeRead, EnterRead, AwaitRead, ResumeWrite, Undisturbed

LEMMA ReadReleased ==
    ASSUME TypeOK, NEW t \in Threads, release_read(t)
    PROVE  pc[t] = "reading" /\ pc'[t] = "idle" /\ Undisturbed(t)
<1>1. pc[t] = "reading"
  BY DEF release_read
<1>2. ASSUME NEW w \in At("waitingWrite"), pc' = [pc EXCEPT ![t] = "idle", ![w] = "wokenWrite"]
      PROVE  pc'[t] = "idle" /\ Undisturbed(t)
  BY <1>1, <1>2 DEF TypeOK, At, Undisturbed
<1>3. ASSUME pc' = [pc EXCEPT ![t] = "idle"]
      PROVE  pc'[t] = "idle" /\ Undisturbed(t)
  BY <1>3 DEF TypeOK, Undisturbed
<1> QED
  BY <1>1, <1>2, <1>3 DEF release_read, WakeWriter

LEMMA WriteReleased ==
    ASSUME TypeOK, NEW t \in Threads, release_write(t)
    PROVE  pc[t] = "writing" /\ pc'[t] = "idle" /\ Undisturbed(t)
<1>1. pc[t] = "writing"
  BY DEF release_write
<1>2. ASSUME NEW w \in At("waitingWrite"), pc' = [pc EXCEPT ![t] = "idle", ![w] = "wokenWrite"]
      PROVE  pc'[t] = "idle" /\ Undisturbed(t)
  BY <1>1, <1>2 DEF TypeOK, At, Undisturbed
<1>3. ASSUME pc' = [pc EXCEPT ![t] = "idle"]
      PROVE  pc'[t] = "idle" /\ Undisturbed(t)
  BY <1>3 DEF TypeOK, Undisturbed
<1>4. ASSUME WakeReaders(t)
      PROVE  pc'[t] = "idle" /\ Undisturbed(t)
  BY <1>4 DEF WakeReaders, Undisturbed
<1> QED
  BY <1>1, <1>2, <1>3, <1>4 DEF release_write, WakeWriter

\* Every step of a block is one of its lock, or leaves the lock alone.
LEMMA BlockStepsLock == BlockNext => [Next]_vars
BY DEF BlockNext, sync, value, view, broadcast, Drop, Continue, Resume, Look, ComeAgain, Copy,
       Insert, Clear, Reinsert, Wake, Next, GoOn

LEMMA BlockLocks == BlockSpec => Spec
<1>1. BlockInit => Init
  BY DEF BlockInit
<1>2. [BlockNext]_blockVars => [Next]_vars
  BY BlockStepsLock DEF blockVars
<1> QED
  BY <1>1, <1>2, PTL DEF BlockSpec, Spec

(***************************************************************************)
(* The lock of a block is a read-write lock, whatever the clients call.    *)
(***************************************************************************)
THEOREM BlockIsLocked == BlockSpec => []Inductive /\ IsReadWriteLock
BY BlockLocks, InductiveInvariant, ImplementsLock, PTL

-----------------------------------------------------------------------------
(***************************************************************************)
(* The inductive invariant of a block                                      *)
(***************************************************************************)
Ages == {"latest", "old", "garbage"}
Ops == {"sync", "value", "view", "insert", "broadcast"}

BlockTypeOK ==
    /\ DOMAIN m_sync_values \subseteq Keys
    /\ \A k \in DOMAIN m_sync_values : m_sync_values[k] \in Ages
    /\ block \in [Blocks -> {None} \union [key : Keys, lost : BOOLEAN]]
    /\ block[Root] # None
    /\ call \in [Threads -> {None} \union [op : Ops, on : Blocks, key : Keys,
                                           local : {"none"} \union Ages]]
    /\ copies \in [Keys -> Nat]

\* Who reads is in a call that reads, who writes in one that writes.
Placed(t) ==
    /\ pc[t] = "idle" => call[t] = None \/ call[t].op = "insert"
    /\ pc[t] \in {"waitingRead", "wokenRead", "reading"} =>
          call[t] # None /\ call[t].op \in {"sync", "value", "view"}
    /\ pc[t] \in {"waitingWrite", "wokenWrite", "writing"} =>
          call[t] # None /\ call[t].op \in {"insert", "view", "broadcast"}
    /\ call[t] # None =>
          /\ call[t].local # "none" => pc[t] = "writing"
          /\ call[t].on \in {Root, t} /\ block[call[t].on] # None

CallsPlaced == \A t \in Threads : Placed(t)

\* A copy was made for a key that has a value or is about to get it.
CopiesAccounted ==
    \A k \in Keys :
        /\ copies[k] <= 1
        /\ copies[k] = 1 => \/ Has(k)
                            \/ \E t \in Threads : /\ pc[t] = "writing" /\ call[t] # None
                                                  /\ call[t].key = k /\ call[t].local # "none"

BlockInductive == Inductive /\ BlockTypeOK /\ CallsPlaced /\ CopiesAccounted

LEMMA RootIsNoThread == /\ Root \in Blocks /\ \A t \in Threads : t \in Blocks /\ t # Root
                        /\ Blocks = {Root} \union Threads /\ RootKey \in Keys
BY KeysAssumption DEF Root, Blocks

\* None is neither a block nor a call.
LEMMA NoneIsNothing ==
    /\ \A k, l : [key |-> k, lost |-> l] # None
    /\ \A o, b, k, l : [op |-> o, on |-> b, key |-> k, local |-> l] # None
<1>1. DOMAIN None = {"key"}
  BY DEF None
<1>2. \A k, l : "lost" \in DOMAIN [key |-> k, lost |-> l]
  OBVIOUS
<1>3. \A o, b, k, l : "op" \in DOMAIN [op |-> o, on |-> b, key |-> k, local |-> l]
  OBVIOUS
<1> QED
  BY <1>1, <1>2, <1>3

LEMMA AddedValue ==
    ASSUME NEW k, NEW age, m_sync_values' = Inserted(k, age)
    PROVE  /\ DOMAIN m_sync_values' = DOMAIN m_sync_values \union {k}
           /\ \A j \in DOMAIN m_sync_values : m_sync_values'[j] = m_sync_values[j]
           /\ ~Has(k) => m_sync_values'[k] = age
BY DEF Inserted, Has

-----------------------------------------------------------------------------
(***************************************************************************)
(* Types                                                                   *)
(***************************************************************************)
LEMMA UsableBlocks ==
    ASSUME BlockTypeOK, NEW t \in Threads, NEW b \in Usable(t)
    PROVE  b \in Blocks /\ b \in {Root, t} /\ block[b] # None /\ block[b].key \in Keys
<1>1. b \in Blocks /\ b \in {Root, t} /\ block[b] # None
  BY RootIsNoThread DEF Usable
<1>2. block[b] \in [key : Keys, lost : BOOLEAN]
  BY <1>1 DEF BlockTypeOK
<1> QED
  BY <1>1, <1>2

LEMMA DefaultTyped ==
    ASSUME BlockTypeOK, NEW b
    PROVE  Default(b) \in Ages
BY DEF BlockTypeOK, Default, Has, Ages

LEMMA CallTyped ==
    ASSUME BlockTypeOK, NEW t \in Threads, call[t] # None
    PROVE  /\ call[t] \in [op : Ops, on : Blocks, key : Keys, local : {"none"} \union Ages]
           /\ call[t].op \in Ops /\ call[t].on \in Blocks /\ call[t].key \in Keys
           /\ call[t].local \in {"none"} \union Ages
<1>1. call[t] \in [op : Ops, on : Blocks, key : Keys, local : {"none"} \union Ages]
  BY DEF BlockTypeOK
<1> QED
  BY <1>1

\* A call that begins
LEMMA BeginTyped ==
    ASSUME BlockTypeOK, NEW t \in Threads, NEW op \in Ops, NEW b \in Blocks, NEW k \in Keys,
           Begin(t, op, b, k)
    PROVE  /\ call' \in [Threads -> {None} \union [op : Ops, on : Blocks, key : Keys,
                                                  local : {"none"} \union Ages]]
           /\ call[t] = None /\ call'[t] = [op |-> op, on |-> b, key |-> k, local |-> "none"]
           /\ call'[t] # None
           /\ \A u \in Threads : u # t => call'[u] = call[u]
<1>1. [op |-> op, on |-> b, key |-> k, local |-> "none"]
        \in [op : Ops, on : Blocks, key : Keys, local : {"none"} \union Ages]
  OBVIOUS
<1>2. call[t] = None /\ call' = [call EXCEPT ![t] = [op |-> op, on |-> b, key |-> k, local |-> "none"]]
  BY DEF Begin, Free
<1>3. call'[t] = [op |-> op, on |-> b, key |-> k, local |-> "none"]
  BY <1>2 DEF BlockTypeOK
<1> QED
  BY <1>1, <1>2, <1>3, NoneIsNothing DEF BlockTypeOK

\* A call that ends
LEMMA ReturnTyped ==
    ASSUME BlockTypeOK, NEW t \in Threads, Return(t)
    PROVE  /\ call' \in [Threads -> {None} \union [op : Ops, on : Blocks, key : Keys,
                                                  local : {"none"} \union Ages]]
           /\ call'[t] = None /\ \A u \in Threads : u # t => call'[u] = call[u]
BY DEF BlockTypeOK, Return

\* A call that has got its copy
LEMMA LocalTyped ==
    ASSUME BlockTypeOK, NEW t \in Threads, call[t] # None, NEW age \in Ages,
           call' = [call EXCEPT ![t].local = age]
    PROVE  /\ call' \in [Threads -> {None} \union [op : Ops, on : Blocks, key : Keys,
                                                  local : {"none"} \union Ages]]
           /\ call'[t] = [call[t] EXCEPT !.local = age]
           /\ call'[t] # None /\ call'[t].local = age
           /\ call'[t].op = call[t].op /\ call'[t].on = call[t].on /\ call'[t].key = call[t].key
           /\ \A u \in Threads : u # t => call'[u] = call[u]
<1>1. call[t] \in [op : Ops, on : Blocks, key : Keys, local : {"none"} \union Ages]
  BY CallTyped
<1>2. call'[t] = [call[t] EXCEPT !.local = age] /\ \A u \in Threads : u # t => call'[u] = call[u]
  BY DEF BlockTypeOK
<1>3. /\ call'[t] \in [op : Ops, on : Blocks, key : Keys, local : {"none"} \union Ages]
      /\ call'[t].local = age /\ call'[t].op = call[t].op /\ call'[t].on = call[t].on
      /\ call'[t].key = call[t].key
  BY <1>1, <1>2
<1>4. "op" \in DOMAIN call'[t]
  BY <1>3
<1>5. call'[t] # None
  BY <1>4 DEF None
<1> QED
  BY <1>2, <1>3, <1>5 DEF BlockTypeOK

\* A sync that comes again
LEMMA InsertTyped ==
    ASSUME BlockTypeOK, NEW t \in Threads, call[t] # None, call' = [call EXCEPT ![t].op = "insert"]
    PROVE  /\ call' \in [Threads -> {None} \union [op : Ops, on : Blocks, key : Keys,
                                                  local : {"none"} \union Ages]]
           /\ call'[t] # None /\ call'[t].op = "insert" /\ call'[t].local = call[t].local
           /\ call'[t].on = call[t].on /\ call'[t].key = call[t].key
           /\ \A u \in Threads : u # t => call'[u] = call[u]
<1>1. call[t] \in [op : Ops, on : Blocks, key : Keys, local : {"none"} \union Ages]
  BY CallTyped
<1>2. call'[t] = [call[t] EXCEPT !.op = "insert"] /\ \A u \in Threads : u # t => call'[u] = call[u]
  BY DEF BlockTypeOK
<1>3. /\ call'[t] \in [op : Ops, on : Blocks, key : Keys, local : {"none"} \union Ages]
      /\ call'[t].local = call[t].local /\ call'[t].op = "insert" /\ call'[t].on = call[t].on
      /\ call'[t].key = call[t].key
  BY <1>1, <1>2 DEF Ops
<1>4. "op" \in DOMAIN call'[t]
  BY <1>3
<1>5. call'[t] # None
  BY <1>4 DEF None
<1> QED
  BY <1>2, <1>3, <1>5 DEF BlockTypeOK

LEMMA BlockTyped ==
    ASSUME BlockTypeOK, NEW b \in Blocks, block[b] # None
    PROVE  block[b] \in [key : Keys, lost : BOOLEAN]
BY DEF BlockTypeOK

\* What broadcast does to the blocks: all lose their default value,
LEMMA BlockCleared ==
    ASSUME BlockTypeOK, NEW t \in Threads, Clear(t)
    PROVE  /\ block' \in [Blocks -> {None} \union [key : Keys, lost : BOOLEAN]]
           /\ \A b \in Blocks :
                /\ block[b] = None => block'[b] = None
                /\ block[b] # None => block'[b] # None /\ block'[b].lost /\ block'[b].key = block[b].key
<1>1. block' = [b \in Blocks |-> IF block[b] = None THEN None ELSE [block[b] EXCEPT !.lost = TRUE]]
  BY DEF Clear
<1>2. ASSUME NEW b \in Blocks, block[b] # None
      PROVE  /\ block'[b] \in [key : Keys, lost : BOOLEAN] /\ block'[b] # None
             /\ block'[b].lost /\ block'[b].key = block[b].key
  <2>1. block[b] \in [key : Keys, lost : BOOLEAN]
    BY <1>2, BlockTyped
  <2>2. block'[b] = [block[b] EXCEPT !.lost = TRUE]
    BY <1>1, <1>2
  <2>3. /\ block'[b] = [key |-> block[b].key, lost |-> TRUE] /\ block[b].key \in Keys
        /\ block'[b].lost /\ block'[b].key = block[b].key
    BY <2>1, <2>2
  <2> QED
    BY <2>3, NoneIsNothing
<1> QED
  BY <1>1, <1>2

\* and the one it was called on gets a new one.
LEMMA BlockRenewed ==
    ASSUME BlockTypeOK, CallsPlaced, NEW t \in Threads, Reinsert(t)
    PROVE  /\ block' \in [Blocks -> {None} \union [key : Keys, lost : BOOLEAN]]
           /\ call[t] # None /\ call[t].on \in Blocks /\ call[t].on \in {Root, t}
           /\ \A b \in Blocks : b # call[t].on => block'[b] = block[b]
           /\ block'[call[t].on] # None /\ ~block'[call[t].on].lost
           /\ block'[call[t].on].key = block[call[t].on].key
<1> DEFINE on == call[t].on  new == [block[on] EXCEPT !.lost = FALSE]
<1>1. call[t] # None /\ block' = [block EXCEPT ![on].lost = FALSE]
  BY DEF Reinsert, Calls, Free
<1>2. on \in {Root, t} /\ on \in Blocks /\ block[on] # None
  BY <1>1, RootIsNoThread DEF CallsPlaced, Placed
<1>3. block[on] \in [key : Keys, lost : BOOLEAN]
  BY <1>2, BlockTyped
<1>4. new \in [key : Keys, lost : BOOLEAN] /\ new.lost = FALSE /\ new.key = block[on].key
  BY <1>3
<1>5. block'[on] = new /\ \A b \in Blocks : b # on => block'[b] = block[b]
  BY <1>1, <1>2 DEF BlockTypeOK
<1>6. block' = [b \in Blocks |-> block'[b]]
  BY <1>1 DEF BlockTypeOK
<1> HIDE DEF new
<1>7. "lost" \in DOMAIN new
  BY <1>4
<1>8. new # None
  BY <1>7 DEF None
<1>9. block' \in [Blocks -> {None} \union [key : Keys, lost : BOOLEAN]]
  BY <1>4, <1>5, <1>6 DEF BlockTypeOK
<1> QED
  BY <1>1, <1>2, <1>4, <1>5, <1>8, <1>9

\* What a thread can do to a block
LEMMA BlockSteps ==
    ASSUME [BlockNext]_blockVars
    PROVE  \/ \E t \in Threads : \E b \in Usable(t), k \in Keys :
                 sync(t, b, k) \/ value(t, b) \/ view(t, b, k)
           \/ \E t \in Threads : \E b \in Usable(t) : broadcast(t, b)
           \/ \E t \in Threads : Drop(t) \/ Look(t)
           \/ \E t \in Threads : ComeAgain(t) \/ Resume(t) \/ Wake(t)
           \/ \E t \in Threads : Copy(t) \/ Insert(t) \/ Clear(t) \/ Reinsert(t)
           \/ UNCHANGED blockVars
<1>1. CASE BlockNext
  <2>1. PICK t \in Threads :
            \/ \E b \in Usable(t) : \/ \E k \in Keys : sync(t, b, k) \/ view(t, b, k)
                                    \/ value(t, b) \/ broadcast(t, b)
            \/ Drop(t) \/ Continue(t) \/ Wake(t)
    BY <1>1 DEF BlockNext
  <2>2. CASE \E b \in Usable(t) : \/ \E k \in Keys : sync(t, b, k) \/ view(t, b, k)
                                  \/ value(t, b) \/ broadcast(t, b)
    BY <2>2, RootIsNoThread
  <2>3. CASE Continue(t)
    BY <2>3 DEF Continue
  <2> QED
    BY <2>1, <2>2, <2>3
<1> QED
  BY <1>1

LEMMA BlockTypesKept ==
    ASSUME BlockInductive, [BlockNext]_blockVars
    PROVE  BlockTypeOK'
<1>1. BlockTypeOK /\ CallsPlaced /\ TypeOK
  BY DEF BlockInductive, Inductive
<1>2. ASSUME NEW t \in Threads, NEW b \in Usable(t), NEW k \in Keys,
             sync(t, b, k) \/ value(t, b) \/ view(t, b, k)
      PROVE  BlockTypeOK'
  <2>1. PICK op \in Ops, j \in Keys : Begin(t, op, b, j)
    BY <1>1, <1>2, UsableBlocks DEF sync, value, view, Ops
  <2>2. UNCHANGED <<m_sync_values, block, copies>>
    BY <1>2 DEF sync, value, view
  <2> QED
    BY <1>1, <2>1, <2>2, BeginTyped, UsableBlocks DEF BlockTypeOK
<1>3. ASSUME NEW t \in Threads, NEW b \in Usable(t), broadcast(t, b)
      PROVE  BlockTypeOK'
  <2>1. /\ Begin(t, "broadcast", b, block[b].key) /\ "broadcast" \in Ops
        /\ UNCHANGED <<block, copies>>
        /\ m_sync_values' = [k \in DOMAIN m_sync_values |->
                               IF k = block[b].key THEN "latest" ELSE "old"]
    BY <1>3 DEF broadcast, Ops
  <2> QED
    BY <1>1, <2>1, BeginTyped, UsableBlocks DEF BlockTypeOK, Ages
<1>4. ASSUME NEW t \in Threads, Drop(t)
      PROVE  BlockTypeOK'
  BY <1>1, <1>4, RootIsNoThread DEF Drop, BlockTypeOK
<1>5. ASSUME NEW t \in Threads, Look(t)
      PROVE  BlockTypeOK'
  <2>1. call[t] # None /\ call[t].on \in Blocks /\ block[call[t].on] # None
    BY <1>1, <1>5, ReadReleased, CallTyped DEF Look, CallsPlaced, Placed
  <2>2. UNCHANGED <<m_sync_values, copies>>
    BY <1>5 DEF Look
  <2>3. call' \in [Threads -> {None} \union [op : Ops, on : Blocks, key : Keys,
                                           local : {"none"} \union Ages]]
    BY <1>1, <1>5, <2>1, InsertTyped, ReturnTyped DEF Look
  <2>4. block' = [block EXCEPT ![t] = block[call[t].on]] \/ block' = block
    BY <1>5 DEF Look
  <2>5. block' \in [Blocks -> {None} \union [key : Keys, lost : BOOLEAN]] /\ block'[Root] # None
    BY <1>1, <2>1, <2>4, RootIsNoThread DEF BlockTypeOK
  <2> QED
    BY <1>1, <2>2, <2>3, <2>5 DEF BlockTypeOK
<1>6. ASSUME NEW t \in Threads, ComeAgain(t) \/ Resume(t) \/ Wake(t)
      PROVE  BlockTypeOK'
  BY <1>1, <1>6 DEF ComeAgain, Resume, Wake, BlockTypeOK
<1>7. ASSUME NEW t \in Threads, Copy(t)
      PROVE  BlockTypeOK'
  <2>1. /\ call[t] # None /\ call' = [call EXCEPT ![t].local = Default(call[t].on)]
        /\ copies' = [copies EXCEPT ![call[t].key] = @ + 1] /\ UNCHANGED <<m_sync_values, block>>
    BY <1>7 DEF Copy, Inserts, Calls, Free
  <2>2. copies' \in [Keys -> Nat]
    BY <1>1, <2>1 DEF BlockTypeOK
  <2> QED
    BY <1>1, <2>1, <2>2, DefaultTyped, LocalTyped DEF BlockTypeOK
<1>8. ASSUME NEW t \in Threads, Insert(t)
      PROVE  BlockTypeOK'
  <2>1. /\ call[t] # None /\ m_sync_values' = Inserted(call[t].key, call[t].local)
        /\ Has(call[t].key) \/ call[t].local # "none"
        /\ \/ block' = [block EXCEPT ![t] = [key |-> call[t].key, lost |-> FALSE]]
           \/ block' = block
        /\ Return(t) /\ UNCHANGED copies
    BY <1>8 DEF Insert, Inserts, Calls, Free
  <2>2. call[t].key \in Keys /\ call[t].local \in {"none"} \union Ages
    BY <1>1, <2>1, CallTyped
  <2>3. /\ DOMAIN m_sync_values' \subseteq Keys
        /\ \A k \in DOMAIN m_sync_values' : m_sync_values'[k] \in Ages
    <3>1. /\ DOMAIN m_sync_values' = DOMAIN m_sync_values \union {call[t].key}
          /\ \A j \in DOMAIN m_sync_values : m_sync_values'[j] = m_sync_values[j]
          /\ ~Has(call[t].key) => m_sync_values'[call[t].key] = call[t].local
      BY <2>1, AddedValue
    <3> QED
      BY <1>1, <2>1, <2>2, <3>1 DEF BlockTypeOK, Has
  <2>4. block' \in [Blocks -> {None} \union [key : Keys, lost : BOOLEAN]] /\ block'[Root] # None
    <3> DEFINE made == [key |-> call[t].key, lost |-> FALSE]
    <3>1. made \in [key : Keys, lost : BOOLEAN] /\ made # None
      BY <2>2, NoneIsNothing
    <3>2. block' = [block EXCEPT ![t] = made] \/ block' = block
      BY <2>1
    <3> HIDE DEF made
    <3> QED
      BY <1>1, <3>1, <3>2, RootIsNoThread DEF BlockTypeOK
  <2> QED
    BY <1>1, <2>1, <2>3, <2>4, ReturnTyped DEF BlockTypeOK
<1>9. ASSUME NEW t \in Threads, Clear(t)
      PROVE  BlockTypeOK'
  <2>1. /\ call[t] # None /\ call' = [call EXCEPT ![t].local = Default(call[t].on)]
        /\ m_sync_values' = <<>> /\ copies' = [k \in Keys |-> 0]
    BY <1>9 DEF Clear, Calls, Free
  <2>2. DOMAIN m_sync_values' = {}
    BY <2>1
  <2>3. block' \in [Blocks -> {None} \union [key : Keys, lost : BOOLEAN]] /\ block'[Root] # None
    BY <1>1, <1>9, BlockCleared, RootIsNoThread DEF BlockTypeOK
  <2>4. copies' \in [Keys -> Nat]
    BY <2>1
  <2> QED
    BY <1>1, <2>1, <2>2, <2>3, <2>4, DefaultTyped, LocalTyped DEF BlockTypeOK
<1>10. ASSUME NEW t \in Threads, Reinsert(t)
      PROVE  BlockTypeOK'
  <2>1. /\ call[t] # None /\ m_sync_values' = Inserted(call[t].key, call[t].local)
        /\ call[t].local # "none"
        /\ Return(t) /\ UNCHANGED copies
    BY <1>10 DEF Reinsert, Calls, Free
  <2>2. /\ call[t].key \in Keys /\ call[t].local \in Ages
        /\ call[t].on \in Blocks /\ block[call[t].on] # None
    BY <1>1, <2>1, CallTyped DEF CallsPlaced, Placed
  <2>3. /\ DOMAIN m_sync_values' \subseteq Keys
        /\ \A k \in DOMAIN m_sync_values' : m_sync_values'[k] \in Ages
    <3>1. /\ DOMAIN m_sync_values' = DOMAIN m_sync_values \union {call[t].key}
          /\ \A j \in DOMAIN m_sync_values : m_sync_values'[j] = m_sync_values[j]
          /\ ~Has(call[t].key) => m_sync_values'[call[t].key] = call[t].local
      BY <2>1, AddedValue
    <3> QED
      BY <1>1, <2>1, <2>2, <3>1 DEF BlockTypeOK, Has
  <2>4. block' \in [Blocks -> {None} \union [key : Keys, lost : BOOLEAN]] /\ block'[Root] # None
    BY <1>1, <1>10, BlockRenewed, RootIsNoThread DEF BlockTypeOK
  <2> QED
    BY <1>1, <2>1, <2>3, <2>4, ReturnTyped DEF BlockTypeOK
<1>11. CASE UNCHANGED blockVars
  BY <1>1, <1>11 DEF BlockTypeOK, blockVars
<1> QED
  BY <1>2, <1>3, <1>4, <1>5, <1>6, <1>7, <1>8, <1>9, <1>10, <1>11, BlockSteps

-----------------------------------------------------------------------------
(***************************************************************************)
(* Calls and the lock                                                      *)
(***************************************************************************)
\* A step of t leaves the calls of others where they are.
LEMMA OthersStayPlaced ==
    ASSUME CallsPlaced, TypeOK, NEW t \in Threads, Placed(t)', Undisturbed(t),
           \A u \in Threads : u # t => call'[u] = call[u],
           \A b \in Blocks : b # t /\ block[b] # None => block'[b] # None
    PROVE  CallsPlaced'
<1> SUFFICES ASSUME NEW u \in Threads, u # t  PROVE Placed(u)'
  BY DEF CallsPlaced
<1>1. call'[u] = call[u] /\ Placed(u)
  BY DEF CallsPlaced
<1>2. \/ pc'[u] = pc[u]
      \/ pc[u] = "waitingRead" /\ pc'[u] = "wokenRead"
      \/ pc[u] = "waitingWrite" /\ pc'[u] = "wokenWrite"
  BY DEF Undisturbed
<1>3. call[u] # None => /\ call[u].on \in {Root, u} /\ call[u].on \in Blocks
                        /\ block[call[u].on] # None => block'[call[u].on] # None
  BY <1>1, RootIsNoThread DEF Placed
<1> QED
  BY <1>1, <1>2, <1>3 DEF Placed

LEMMA CallsStayPlaced ==
    ASSUME BlockInductive, [BlockNext]_blockVars
    PROVE  CallsPlaced'
<1>1. BlockTypeOK /\ CallsPlaced /\ TypeOK
  BY DEF BlockInductive, Inductive
<1>2. ASSUME NEW t \in Threads, NEW b \in Usable(t), NEW k \in Keys,
             sync(t, b, k) \/ value(t, b)
      PROVE  CallsPlaced'
  <2>1. PICK op \in {"sync", "value"}, j \in Keys : Begin(t, op, b, j)
    BY <1>1, <1>2, UsableBlocks DEF sync, value
  <2>2. op \in Ops /\ lock_read(t) /\ UNCHANGED block
    BY <1>2, <2>1 DEF sync, value, Ops
  <2>3. pc'[t] \in {"reading", "waitingRead"} /\ Undisturbed(t)
    BY <1>1, <2>2, ReadAsked
  <2>4. /\ call'[t] = [op |-> op, on |-> b, key |-> j, local |-> "none"] /\ call'[t] # None
        /\ \A u \in Threads : u # t => call'[u] = call[u]
    BY <1>1, <2>1, <2>2, BeginTyped, UsableBlocks
  <2>5. Placed(t)'
    BY <1>1, <2>2, <2>3, <2>4, UsableBlocks DEF Placed
  <2> QED
    BY <1>1, <2>2, <2>3, <2>4, <2>5, OthersStayPlaced
<1>3. ASSUME NEW t \in Threads, NEW b \in Usable(t), NEW k \in Keys, view(t, b, k)
      PROVE  CallsPlaced'
  <2>1. Begin(t, "view", b, k) /\ "view" \in Ops /\ UNCHANGED block
    BY <1>3 DEF view, Ops
  <2>2. pc'[t] \in {"reading", "waitingRead", "writing", "waitingWrite"} /\ Undisturbed(t)
    BY <1>1, <1>3, ReadAsked, WriteAsked DEF view
  <2>3. /\ call'[t] = [op |-> "view", on |-> b, key |-> k, local |-> "none"] /\ call'[t] # None
        /\ \A u \in Threads : u # t => call'[u] = call[u]
    BY <1>1, <2>1, BeginTyped, UsableBlocks
  <2>4. Placed(t)'
    BY <1>1, <2>1, <2>2, <2>3, UsableBlocks DEF Placed
  <2> QED
    BY <1>1, <2>1, <2>2, <2>3, <2>4, OthersStayPlaced
<1>4. ASSUME NEW t \in Threads, NEW b \in Usable(t), broadcast(t, b)
      PROVE  CallsPlaced'
  <2>1. Begin(t, "broadcast", b, block[b].key) /\ "broadcast" \in Ops /\ UNCHANGED block
    BY <1>4 DEF broadcast, Ops
  <2>2. pc'[t] \in {"writing", "waitingWrite"} /\ Undisturbed(t)
    BY <1>1, <1>4, WriteAsked DEF broadcast
  <2>3. /\ call'[t] = [op |-> "broadcast", on |-> b, key |-> block[b].key, local |-> "none"]
        /\ call'[t] # None /\ \A u \in Threads : u # t => call'[u] = call[u]
    BY <1>1, <2>1, BeginTyped, UsableBlocks
  <2>4. Placed(t)'
    BY <1>1, <2>1, <2>2, <2>3, UsableBlocks DEF Placed
  <2> QED
    BY <1>1, <2>1, <2>2, <2>3, <2>4, OthersStayPlaced
<1>5. ASSUME NEW t \in Threads, Drop(t)
      PROVE  CallsPlaced'
  <2>1. call[t] = None /\ block' = [block EXCEPT ![t] = None] /\ UNCHANGED <<pc, call>>
    BY <1>5 DEF Drop, Free, vars
  <2>2. Undisturbed(t) /\ Placed(t)'
    BY <1>1, <2>1 DEF Undisturbed, CallsPlaced, Placed
  <2> QED
    BY <1>1, <2>1, <2>2, OthersStayPlaced DEF BlockTypeOK
<1>6. ASSUME NEW t \in Threads, Look(t)
      PROVE  CallsPlaced'
  <2>1. pc[t] = "reading" /\ pc'[t] = "idle" /\ Undisturbed(t)
    BY <1>1, <1>6, ReadReleased DEF Look
  <2>2. /\ call[t] # None /\ call[t].local = "none" /\ call[t].on \in {Root, t}
        /\ call[t].on \in Blocks /\ block[call[t].on] # None
    BY <1>1, <2>1, RootIsNoThread DEF CallsPlaced, Placed
  <2>3. \A b \in Blocks : block[b] # None => block'[b] # None
    <3>1. block' = [block EXCEPT ![t] = block[call[t].on]] \/ block' = block
      BY <1>6 DEF Look
    <3> QED
      BY <1>1, <2>2, <3>1, RootIsNoThread DEF BlockTypeOK
  <2>4. /\ \A u \in Threads : u # t => call'[u] = call[u]
        /\ \/ call'[t] = None
           \/ /\ call'[t] # None /\ call'[t].op = "insert" /\ call'[t].local = "none"
              /\ call'[t].on = call[t].on
    BY <1>1, <1>6, <2>2, InsertTyped, ReturnTyped DEF Look
  <2>5. Placed(t)'
    BY <2>1, <2>2, <2>3, <2>4 DEF Placed
  <2> QED
    BY <1>1, <2>1, <2>3, <2>4, <2>5, OthersStayPlaced
<1>7. ASSUME NEW t \in Threads, ComeAgain(t)
      PROVE  CallsPlaced'
  <2>1. pc[t] = "idle" /\ pc'[t] \in {"writing", "waitingWrite"} /\ Undisturbed(t)
    BY <1>1, <1>7, WriteAsked DEF ComeAgain
  <2>2. call[t] # None /\ call[t].op = "insert" /\ UNCHANGED <<call, block>>
    BY <1>7 DEF ComeAgain, Calls, Free
  <2>3. Placed(t)'
    BY <1>1, <2>1, <2>2 DEF CallsPlaced, Placed
  <2> QED
    BY <1>1, <2>1, <2>2, <2>3, OthersStayPlaced
<1>8. ASSUME NEW t \in Threads, Resume(t)
      PROVE  CallsPlaced'
  <2>1. /\ \/ pc[t] = "wokenRead" /\ pc'[t] \in {"reading", "waitingRead"}
           \/ pc[t] = "wokenWrite" /\ pc'[t] \in {"writing", "waitingWrite"}
        /\ Undisturbed(t) /\ UNCHANGED <<call, block>>
    BY <1>1, <1>8, Resumed DEF Resume
  <2>2. Placed(t)'
    BY <1>1, <2>1 DEF CallsPlaced, Placed
  <2> QED
    BY <1>1, <2>1, <2>2, OthersStayPlaced
<1>9. ASSUME NEW t \in Threads, Wake(t)
      PROVE  CallsPlaced'
  <2>1. /\ \/ pc[t] = "waitingRead" /\ pc'[t] = "wokenRead"
           \/ pc[t] = "waitingWrite" /\ pc'[t] = "wokenWrite"
        /\ Undisturbed(t) /\ UNCHANGED <<call, block>>
    BY <1>1, <1>9 DEF Wake, WokenForNothing, Undisturbed, TypeOK
  <2>2. Placed(t)'
    BY <1>1, <2>1 DEF CallsPlaced, Placed
  <2> QED
    BY <1>1, <2>1, <2>2, OthersStayPlaced
<1>10. ASSUME NEW t \in Threads, Copy(t)
      PROVE  CallsPlaced'
  <2>1. /\ pc[t] = "writing" /\ call[t] # None /\ UNCHANGED <<pc, block>>
        /\ call' = [call EXCEPT ![t].local = Default(call[t].on)]
    BY <1>10 DEF Copy, Inserts, Calls, Free, vars
  <2>2. /\ call'[t] # None /\ call'[t].op = call[t].op /\ call'[t].on = call[t].on
        /\ \A u \in Threads : u # t => call'[u] = call[u]
    BY <1>1, <2>1, LocalTyped, DefaultTyped
  <2>3. Placed(t)' /\ Undisturbed(t)
    BY <1>1, <2>1, <2>2 DEF CallsPlaced, Placed, Undisturbed
  <2> QED
    BY <1>1, <2>1, <2>2, <2>3, OthersStayPlaced
<1>11. ASSUME NEW t \in Threads, Insert(t)
      PROVE  CallsPlaced'
  <2>1. pc'[t] = "idle" /\ Undisturbed(t)
    BY <1>1, <1>11, WriteReleased DEF Insert
  <2>2. call'[t] = None /\ \A u \in Threads : u # t => call'[u] = call[u]
    BY <1>1, <1>11, ReturnTyped DEF Insert
  <2>3. \A b \in Blocks : b # t => block'[b] = block[b]
    BY <1>1, <1>11 DEF Insert, BlockTypeOK
  <2>4. Placed(t)'
    BY <2>1, <2>2 DEF Placed
  <2> QED
    BY <1>1, <2>1, <2>2, <2>3, <2>4, OthersStayPlaced
<1>12. ASSUME NEW t \in Threads, Clear(t)
      PROVE  CallsPlaced'
  <2>1. /\ pc[t] = "writing" /\ call[t] # None /\ UNCHANGED pc
        /\ call' = [call EXCEPT ![t].local = Default(call[t].on)]
    BY <1>12 DEF Clear, Calls, Free, vars
  <2>2. /\ call'[t] # None /\ call'[t].op = call[t].op /\ call'[t].on = call[t].on
        /\ \A u \in Threads : u # t => call'[u] = call[u]
    BY <1>1, <2>1, LocalTyped, DefaultTyped
  <2>3. \A b \in Blocks : block[b] # None => block'[b] # None
    BY <1>1, <1>12, BlockCleared
  <2>4. Placed(t)' /\ Undisturbed(t)
    BY <1>1, <2>1, <2>2, <2>3, RootIsNoThread DEF CallsPlaced, Placed, Undisturbed
  <2> QED
    BY <1>1, <2>2, <2>3, <2>4, OthersStayPlaced
<1>13. ASSUME NEW t \in Threads, Reinsert(t)
      PROVE  CallsPlaced'
  <2>1. pc'[t] = "idle" /\ Undisturbed(t)
    BY <1>1, <1>13, WriteReleased DEF Reinsert
  <2>2. call'[t] = None /\ \A u \in Threads : u # t => call'[u] = call[u]
    BY <1>1, <1>13, ReturnTyped DEF Reinsert
  <2>3. \A b \in Blocks : block[b] # None => block'[b] # None
    BY <1>1, <1>13, BlockRenewed
  <2>4. Placed(t)'
    BY <2>1, <2>2 DEF Placed
  <2> QED
    BY <1>1, <2>1, <2>2, <2>3, <2>4, OthersStayPlaced
<1>14. CASE UNCHANGED blockVars
  BY <1>1, <1>14 DEF blockVars, vars, CallsPlaced, Placed
<1> QED
  BY <1>2, <1>3, <1>4, <1>5, <1>6, <1>7, <1>8, <1>9, <1>10, <1>11, <1>12, <1>13, <1>14, BlockSteps

-----------------------------------------------------------------------------
(***************************************************************************)
(* Copies                                                                  *)
(***************************************************************************)
\* What a thread does that is not writing
LEMMA BesidesWriters ==
    ASSUME BlockInductive, NEW t \in Threads,
           \/ Drop(t) \/ Look(t) \/ ComeAgain(t) \/ Resume(t) \/ Wake(t)
           \/ \E b \in Usable(t) : broadcast(t, b)
           \/ \E b \in Usable(t), k \in Keys : sync(t, b, k) \/ value(t, b) \/ view(t, b, k)
    PROVE  /\ pc[t] # "writing" /\ Undisturbed(t) /\ copies' = copies
           /\ DOMAIN m_sync_values' = DOMAIN m_sync_values
           /\ \A u \in Threads : u # t => call'[u] = call[u]
<1>1. BlockTypeOK /\ CallsPlaced /\ TypeOK
  BY DEF BlockInductive, Inductive
<1>2. CASE \E b \in Usable(t), k \in Keys : sync(t, b, k) \/ value(t, b) \/ view(t, b, k)
  BY <1>1, <1>2, ReadAsked, WriteAsked DEF sync, value, view, Begin, BlockTypeOK
<1>3. CASE \E b \in Usable(t) : broadcast(t, b)
  BY <1>1, <1>3, WriteAsked DEF broadcast, Begin, BlockTypeOK
<1>4. CASE Drop(t)
  <2>1. call[t] = None /\ UNCHANGED <<pc, m_sync_values, call, copies>>
    BY <1>4 DEF Drop, Free, vars
  <2> QED
    BY <1>1, <2>1 DEF Undisturbed, CallsPlaced, Placed
<1>5. CASE Look(t)
  BY <1>1, <1>5, ReadReleased DEF Look, Return, BlockTypeOK
<1>6. CASE ComeAgain(t)
  BY <1>1, <1>6, WriteAsked DEF ComeAgain
<1>7. CASE Resume(t)
  BY <1>1, <1>7, Resumed DEF Resume
<1>8. CASE Wake(t)
  BY <1>1, <1>8 DEF Wake, WokenForNothing, Undisturbed, TypeOK
<1> QED
  BY <1>2, <1>3, <1>4, <1>5, <1>6, <1>7, <1>8

LEMMA CopiesStayAccounted ==
    ASSUME BlockInductive, [BlockNext]_blockVars
    PROVE  CopiesAccounted'
<1>1. BlockTypeOK /\ CallsPlaced /\ TypeOK /\ CopiesAccounted
  BY DEF BlockInductive, Inductive
<1>2. ASSUME NEW t \in Threads, pc[t] # "writing", Undisturbed(t), copies' = copies,
             DOMAIN m_sync_values' = DOMAIN m_sync_values,
             \A u \in Threads : u # t => call'[u] = call[u]
      PROVE  CopiesAccounted'
  BY <1>1, <1>2 DEF CopiesAccounted, Undisturbed, Has
<1>3. ASSUME NEW t \in Threads, Copy(t)
      PROVE  CopiesAccounted'
  <2> DEFINE k == call[t].key
  <2>1. /\ pc[t] = "writing" /\ call[t] # None /\ call[t].local = "none" /\ ~Has(k) /\ k \in Keys
        /\ copies' = [copies EXCEPT ![k] = @ + 1] /\ UNCHANGED <<pc, m_sync_values>>
        /\ call' = [call EXCEPT ![t].local = Default(call[t].on)]
    BY <1>1, <1>3, CallTyped DEF Copy, Inserts, Calls, Free, vars
  <2>2. /\ call'[t] # None /\ call'[t].local = Default(call[t].on) /\ call'[t].key = k
        /\ \A u \in Threads : u # t => call'[u] = call[u]
    BY <1>1, <2>1, LocalTyped, DefaultTyped
  <2>3. call'[t].local # "none"
    BY <1>1, <2>2, DefaultTyped DEF Ages
  <2>4. \A u \in Threads : pc[u] = "writing" => u = t
    BY <2>1 DEF BlockInductive, Inductive, Exclusion, At
  <2>5. copies[k] = 0
    <3>1. copies[k] \in Nat /\ copies[k] <= 1
      BY <1>1, <2>1 DEF CopiesAccounted, BlockTypeOK
    <3>2. copies[k] # 1
      BY <1>1, <2>1, <2>4 DEF CopiesAccounted
    <3> QED
      BY <3>1, <3>2
  <2> HIDE DEF k
  <2>6. \A j \in Keys : copies'[j] = IF j = k THEN 1 ELSE copies[j]
    BY <1>1, <2>1, <2>5 DEF BlockTypeOK
  <2> SUFFICES ASSUME NEW j \in Keys
               PROVE  /\ copies'[j] <= 1
                      /\ copies'[j] = 1 =>
                            \/ Has(j)'
                            \/ \E u \in Threads : /\ pc'[u] = "writing" /\ call'[u] # None
                                                  /\ call'[u].key = j /\ call'[u].local # "none"
    BY DEF CopiesAccounted
  <2>7. Has(j)' <=> Has(j)
    BY <2>1 DEF Has
  <2>8. CASE j = k
    BY <2>1, <2>2, <2>3, <2>6, <2>8
  <2>9. CASE j # k
    BY <1>1, <2>1, <2>2, <2>4, <2>6, <2>7, <2>9 DEF CopiesAccounted
  <2> QED
    BY <2>8, <2>9
<1>4. ASSUME NEW t \in Threads, Insert(t) \/ Reinsert(t)
      PROVE  CopiesAccounted'
  <2>1. m_sync_values' = Inserted(call[t].key, call[t].local) /\ copies' = copies
    BY <1>4 DEF Insert, Reinsert
  <2>2. DOMAIN m_sync_values' = DOMAIN m_sync_values \union {call[t].key}
    BY <2>1, AddedValue
  <2>3. pc[t] = "writing" /\ Undisturbed(t) /\ \A u \in Threads : u # t => call'[u] = call[u]
    BY <1>1, <1>4, WriteReleased DEF Insert, Reinsert, Return, BlockTypeOK
  <2>4. \A u \in Threads : pc[u] = "writing" => u = t
    BY <2>3 DEF BlockInductive, Inductive, Exclusion, At
  <2> QED
    BY <1>1, <2>1, <2>2, <2>4 DEF CopiesAccounted, Has
<1>5. ASSUME NEW t \in Threads, Clear(t)
      PROVE  CopiesAccounted'
  BY <1>5 DEF Clear, CopiesAccounted
<1>6. CASE UNCHANGED blockVars
  BY <1>1, <1>6 DEF blockVars, vars, CopiesAccounted, Has
<1> QED
  BY <1>2, <1>3, <1>4, <1>5, <1>6, BesidesWriters, BlockSteps

LEMMA BlockInductiveAlways == BlockSpec => []BlockInductive
<1>1. BlockInit => BlockTypeOK /\ CallsPlaced /\ CopiesAccounted
  <2> SUFFICES ASSUME BlockInit  PROVE BlockTypeOK /\ CallsPlaced /\ CopiesAccounted
    OBVIOUS
  <2>1. BlockTypeOK
    BY RootIsNoThread, NoneIsNothing DEF BlockInit, BlockTypeOK, Ages
  <2> QED
    BY <2>1 DEF BlockInit, Init, CallsPlaced, Placed, CopiesAccounted
<1>2. Inductive /\ Inductive' /\ BlockTypeOK /\ CallsPlaced /\ CopiesAccounted /\ [BlockNext]_blockVars
        => (BlockTypeOK /\ CallsPlaced /\ CopiesAccounted)'
  BY BlockTypesKept, CallsStayPlaced, CopiesStayAccounted DEF BlockInductive
<1>3. BlockSpec => []Inductive
  BY BlockIsLocked, PTL
<1>4. BlockInductive <=> Inductive /\ (BlockTypeOK /\ CallsPlaced /\ CopiesAccounted)
  BY DEF BlockInductive
<1> QED
  BY <1>1, <1>2, <1>3, <1>4, PTL DEF BlockSpec

(***************************************************************************)
(* CopiedOnce for any number of threads and keys, and for clients that do  *)
(* not take care as well: between two broadcasts the handler is called at  *)
(* most once for a key.                                                    *)
(***************************************************************************)
THEOREM OneCopyPerKey == BlockSpec => []CopiedOnce
<1>1. BlockInductive => CopiedOnce
  BY DEF BlockInductive, CopiesAccounted, CopiedOnce
<1> QED
  BY <1>1, BlockInductiveAlways, PTL

-----------------------------------------------------------------------------
(***************************************************************************)
(* The inductive invariant of a block whose clients take care              *)
(***************************************************************************)
Calling(op) == {t \in Threads : call[t] # None /\ call[t].op = op}

\* The one that is between the clear() and the insert of its broadcast
Cleared == {t \in Calling("broadcast") : call[t].local # "none"}

\* Who writes does so alone and where nobody has a view, or is to get one.
CarefulCalls ==
    /\ \A t \in Calling("view") : call[t].on = Root /\ block[t] = None
    /\ \A t \in Calling("broadcast") :
          /\ call[t].on = Root /\ call[t].key = RootKey
          /\ Calling("broadcast") = {t} /\ Calling("view") = {}
          /\ \A u \in Threads : block[u] = None
    /\ \A t \in Threads : call[t] # None => call[t].local \in {"none", "latest"}

\* The default values are there, and what is old is about to be cleared.
CarefulValues ==
    /\ block[Root].key = RootKey
    /\ block[Root].lost => Cleared # {} /\ DOMAIN m_sync_values = {}
    /\ ~block[Root].lost => Cleared = {} /\ Has(RootKey)
    /\ \A t \in Threads : block[t] # None => ~block[t].lost /\ Has(block[t].key)
    /\ \A k \in DOMAIN m_sync_values :
          \/ m_sync_values[k] = "latest"
          \/ k # RootKey /\ m_sync_values[k] = "old" /\ Calling("broadcast") # {}

CarefulInductive == BlockInductive /\ CarefulCalls /\ CarefulValues

LEMMA CallBegun ==
    ASSUME BlockTypeOK, NEW t \in Threads, NEW op \in Ops, NEW b \in Blocks, NEW k \in Keys,
           Begin(t, op, b, k)
    PROVE  /\ \A o : t \notin Calling(o) /\ (o # op => Calling(o)' = Calling(o))
           /\ Calling(op)' = Calling(op) \union {t} /\ Cleared' = Cleared
<1>1. /\ call[t] = None /\ call'[t] = [op |-> op, on |-> b, key |-> k, local |-> "none"]
      /\ call'[t] # None /\ \A u \in Threads : u # t => call'[u] = call[u]
  BY BeginTyped
<1>2. call'[t].op = op /\ call'[t].local = "none"
  BY <1>1
<1> QED
  BY <1>1, <1>2 DEF Calling, Cleared

LEMMA CallReturned ==
    ASSUME BlockTypeOK, NEW t \in Threads, Return(t)
    PROVE  (\A o : Calling(o)' = Calling(o) \ {t}) /\ Cleared' = Cleared \ {t}
BY ReturnTyped DEF Calling, Cleared

LEMMA CallCopied ==
    ASSUME BlockTypeOK, NEW t \in Threads, call[t] # None, NEW age \in Ages,
           call' = [call EXCEPT ![t].local = age]
    PROVE  /\ \A o : Calling(o)' = Calling(o)
           /\ Cleared' = IF t \in Calling("broadcast") THEN Cleared \union {t} ELSE Cleared
<1>1. /\ call'[t] # None /\ call'[t].local = age /\ call'[t].op = call[t].op
      /\ \A u \in Threads : u # t => call'[u] = call[u]
  BY LocalTyped
<1>2. age # "none"
  BY DEF Ages
<1> QED
  BY <1>1, <1>2 DEF Calling, Cleared

\* Who has cleared the values is alone under the write lock.
LEMMA ClearedWrites ==
    ASSUME BlockInductive, NEW t \in Threads, pc[t] \in {"reading", "writing"}
    PROVE  \A u \in Cleared : u = t /\ pc[t] = "writing"
<1>1. CallsPlaced /\ Exclusion
  BY DEF BlockInductive, Inductive
<1>2. \A u \in Cleared : pc[u] = "writing"
  BY <1>1 DEF CallsPlaced, Placed, Cleared, Calling
<1> QED
  BY <1>1, <1>2 DEF Exclusion, At, Cleared, Calling

\* What a careful caller copies from is the latest.
LEMMA DefaultIsLatest ==
    ASSUME CarefulInductive, NEW t \in Threads, pc[t] = "writing", call[t] # None, Cleared = {},
           call[t].op = "broadcast" \/ call[t].on = Root \/ Calling("broadcast") = {}
    PROVE  Default(call[t].on) = "latest"
<1>1. BlockTypeOK /\ CallsPlaced /\ CarefulCalls /\ CarefulValues
  BY DEF CarefulInductive, BlockInductive
<1>2. call[t].on \in {Root, t} /\ block[call[t].on] # None
  BY <1>1 DEF CallsPlaced, Placed
<1>3. ~block[Root].lost /\ Has(RootKey) /\ m_sync_values[RootKey] = "latest" /\ block[Root].key = RootKey
  BY <1>1 DEF CarefulValues, Has
<1>4. CASE call[t].on = Root
  BY <1>3, <1>4 DEF Default
<1>5. CASE call[t].on = t /\ Calling("broadcast") = {}
  BY <1>1, <1>2, <1>5 DEF CarefulValues, Default, Has
<1>6. call[t].op = "broadcast" => call[t].on = Root
  BY <1>1 DEF CarefulCalls, Calling
<1> QED
  BY <1>2, <1>4, <1>5, <1>6

LEMMA CarefulKept ==
    ASSUME CarefulClients, CarefulInductive, BlockInductive', [BlockNext]_blockVars
    PROVE  (CarefulCalls /\ CarefulValues)'
<1>1. BlockInductive /\ BlockTypeOK /\ CallsPlaced /\ CarefulCalls /\ CarefulValues
  BY DEF CarefulInductive, BlockInductive
<1>2. \A o : \A u \in Calling(o) : u \in Threads /\ call[u] # None /\ call[u].op = o
  BY DEF Calling
<1>3. ASSUME NEW t \in Threads, NEW b \in Usable(t), NEW k \in Keys,
             sync(t, b, k) \/ value(t, b)
      PROVE  (CarefulCalls /\ CarefulValues)'
  <2>1. PICK op \in {"sync", "value"}, j \in Keys : Begin(t, op, b, j)
    BY <1>1, <1>3, UsableBlocks DEF sync, value
  <2>2. op \in Ops /\ b \in Blocks /\ UNCHANGED <<m_sync_values, block>>
    BY <1>1, <1>3, UsableBlocks DEF sync, value, Ops
  <2>3. /\ Calling("view")' = Calling("view") /\ Calling("broadcast")' = Calling("broadcast")
        /\ Cleared' = Cleared /\ t \notin Calling("view") /\ t \notin Calling("broadcast")
    BY <1>1, <2>1, <2>2, CallBegun
  <2>4. /\ call'[t] = [op |-> op, on |-> b, key |-> j, local |-> "none"]
        /\ \A u \in Threads : u # t => call'[u] = call[u]
    BY <1>1, <2>1, <2>2, BeginTyped
  <2>5. CarefulCalls'
    BY <1>1, <1>2, <2>2, <2>3, <2>4 DEF CarefulCalls
  <2>6. CarefulValues'
    BY <1>1, <2>2, <2>3 DEF CarefulValues, Has
  <2> QED
    BY <2>5, <2>6
<1>4. ASSUME NEW t \in Threads, NEW b \in Usable(t), NEW k \in Keys, view(t, b, k)
      PROVE  (CarefulCalls /\ CarefulValues)'
  <2>1. Begin(t, "view", b, k) /\ "view" \in Ops /\ b \in Blocks /\ UNCHANGED <<m_sync_values, block>>
    BY <1>1, <1>4, UsableBlocks DEF view, Ops
  <2>2. block[t] = None /\ b = Root /\ Calling("broadcast") = {}
    BY <1>1, <1>4, UsableBlocks DEF view, NobodyWrites, Calls, Free, Calling
  <2>3. /\ Calling("view")' = Calling("view") \union {t} /\ Calling("broadcast")' = {}
        /\ Cleared' = Cleared
    BY <1>1, <2>1, <2>2, CallBegun
  <2>4. /\ call'[t] = [op |-> "view", on |-> b, key |-> k, local |-> "none"]
        /\ \A u \in Threads : u # t => call'[u] = call[u]
    BY <1>1, <2>1, BeginTyped
  <2>5. CarefulCalls'
    BY <1>1, <1>2, <2>1, <2>2, <2>3, <2>4 DEF CarefulCalls
  <2>6. CarefulValues'
    BY <1>1, <2>1, <2>2, <2>3 DEF CarefulValues, Has
  <2> QED
    BY <2>5, <2>6
<1>5. ASSUME NEW t \in Threads, NEW b \in Usable(t), broadcast(t, b)
      PROVE  (CarefulCalls /\ CarefulValues)'
  <2>1. /\ Begin(t, "broadcast", b, block[b].key) /\ "broadcast" \in Ops /\ b \in Blocks
        /\ block[b].key \in Keys /\ UNCHANGED block
        /\ m_sync_values' = [k \in DOMAIN m_sync_values |->
                               IF k = block[b].key THEN "latest" ELSE "old"]
    BY <1>1, <1>5, UsableBlocks DEF broadcast, Ops
  <2>2. /\ b = Root /\ Calling("broadcast") = {} /\ Calling("view") = {}
        /\ \A u \in Threads : block[u] = None
    BY <1>5 DEF broadcast, TakesCare, NobodyWrites, Calls, Free, Calling
  <2>3. /\ Calling("view")' = {} /\ Calling("broadcast")' = {t}
        /\ Cleared' = Cleared
    BY <1>1, <2>1, <2>2, CallBegun
  <2>4. /\ call'[t] = [op |-> "broadcast", on |-> Root, key |-> RootKey, local |-> "none"]
        /\ \A u \in Threads : u # t => call'[u] = call[u]
    BY <1>1, <2>1, <2>2, BeginTyped DEF CarefulValues
  <2>5. CarefulCalls'
    BY <1>1, <2>1, <2>2, <2>3, <2>4 DEF CarefulCalls
  <2>6. CarefulValues'
    BY <1>1, <2>1, <2>2, <2>3 DEF CarefulValues, Has
  <2> QED
    BY <2>5, <2>6
<1>6. ASSUME NEW t \in Threads, Drop(t)
      PROVE  (CarefulCalls /\ CarefulValues)'
  <2>1. call[t] = None /\ block' = [block EXCEPT ![t] = None] /\ UNCHANGED <<m_sync_values, call>>
    BY <1>6 DEF Drop, Free
  <2>2. block'[Root] = block[Root] /\ \A u \in Threads : block'[u] = IF u = t THEN None ELSE block[u]
    BY <1>1, <2>1, RootIsNoThread DEF BlockTypeOK
  <2>3. (\A o : Calling(o)' = Calling(o)) /\ Cleared' = Cleared
    BY <2>1 DEF Calling, Cleared
  <2>4. CarefulCalls'
    BY <1>1, <1>2, <2>1, <2>2, <2>3 DEF CarefulCalls
  <2>5. CarefulValues'
    BY <1>1, <2>1, <2>2, <2>3 DEF CarefulValues, Has
  <2> QED
    BY <2>4, <2>5
<1>7. ASSUME NEW t \in Threads, Look(t)
      PROVE  (CarefulCalls /\ CarefulValues)'
  <2>1. pc[t] = "reading" /\ call[t] # None /\ call[t].op \in {"sync", "value", "view"}
    BY <1>1, <1>7, ReadReleased DEF Look, CallsPlaced, Placed, BlockInductive, Inductive
  <2>2. Cleared = {} /\ ~block[Root].lost
    BY <1>1, <2>1, ClearedWrites DEF CarefulValues
  <2>3. /\ m_sync_values' = m_sync_values
        /\ \/ call' = [call EXCEPT ![t].op = "insert"] /\ call[t].op = "sync"
           \/ Return(t)
        /\ \/ call[t].op = "view" /\ block' = [block EXCEPT ![t] = block[call[t].on]]
           \/ call[t].op # "view" /\ block' = block
    BY <1>7 DEF Look
  <2>4. /\ \A u \in Threads : u # t => call'[u] = call[u]
        /\ \/ /\ call'[t] # None /\ call'[t].op = "insert" /\ call'[t].local = call[t].local
              /\ call[t].op = "sync"
           \/ call'[t] = None
    BY <1>1, <2>1, <2>3, InsertTyped, ReturnTyped
  <2>5. /\ Calling("view")' = Calling("view") \ {t} /\ Calling("broadcast")' = Calling("broadcast")
        /\ Cleared' = {}
    BY <2>1, <2>2, <2>4 DEF Calling, Cleared
  <2>6. /\ block'[Root] = block[Root] /\ \A u \in Threads : u # t => block'[u] = block[u]
        /\ \/ block'[t] = block[t]
           \/ block'[t] = block[Root] /\ Calling("broadcast") = {}
    <3>1. CASE call[t].op # "view"
      BY <2>3, <3>1
    <3>2. CASE call[t].op = "view"
      BY <1>1, <2>1, <2>3, <3>2, RootIsNoThread DEF BlockTypeOK, CarefulCalls, Calling
    <3> QED
      BY <3>1, <3>2
  <2>7. CarefulCalls'
    BY <1>1, <1>2, <2>1, <2>4, <2>5, <2>6 DEF CarefulCalls
  <2>8. CarefulValues'
    BY <1>1, <2>2, <2>3, <2>5, <2>6 DEF CarefulValues, Has
  <2> QED
    BY <2>7, <2>8
<1>8. ASSUME NEW t \in Threads, ComeAgain(t) \/ Resume(t) \/ Wake(t)
      PROVE  (CarefulCalls /\ CarefulValues)'
  <2>1. UNCHANGED <<m_sync_values, block, call>>
    BY <1>8 DEF ComeAgain, Resume, Wake
  <2>2. (\A o : Calling(o)' = Calling(o)) /\ Cleared' = Cleared
    BY <2>1 DEF Calling, Cleared
  <2> QED
    BY <1>1, <2>1, <2>2 DEF CarefulCalls, CarefulValues, Has
<1>9. ASSUME NEW t \in Threads, Copy(t)
      PROVE  (CarefulCalls /\ CarefulValues)'
  <2>1. /\ pc[t] = "writing" /\ call[t] # None /\ call[t].op \in {"insert", "view"}
        /\ call' = [call EXCEPT ![t].local = Default(call[t].on)]
        /\ UNCHANGED <<m_sync_values, block>>
    BY <1>9 DEF Copy, Inserts, Calls, Free
  <2>2. t \notin Calling("broadcast") /\ Cleared = {}
    BY <1>1, <2>1, ClearedWrites DEF Cleared, Calling
  <2>3. call[t].on = Root \/ Calling("broadcast") = {}
    BY <1>1, <2>1 DEF CarefulCalls, CallsPlaced, Placed
  <2>4. Default(call[t].on) = "latest"
    BY <2>1, <2>2, <2>3, DefaultIsLatest
  <2>5. /\ \A o : Calling(o)' = Calling(o)
        /\ Cleared' = {}
    BY <1>1, <2>1, <2>2, CallCopied, DefaultTyped
  <2>6. /\ call'[t].local = "latest" /\ call'[t].on = call[t].on /\ call'[t].key = call[t].key
        /\ \A u \in Threads : u # t => call'[u] = call[u]
    BY <1>1, <2>1, <2>4, LocalTyped, DefaultTyped
  <2>7. CarefulCalls'
    BY <1>1, <1>2, <2>1, <2>2, <2>5, <2>6 DEF CarefulCalls
  <2>8. CarefulValues'
    BY <1>1, <2>1, <2>2, <2>5 DEF CarefulValues, Has
  <2> QED
    BY <2>7, <2>8
<1>10. ASSUME NEW t \in Threads, Insert(t)
      PROVE  (CarefulCalls /\ CarefulValues)'
  <2>1. /\ pc[t] = "writing" /\ call[t] # None /\ call[t].op \in {"insert", "view"}
        /\ Has(call[t].key) \/ call[t].local # "none"
        /\ m_sync_values' = Inserted(call[t].key, call[t].local)
        /\ \/ block' = block
           \/ block' = [block EXCEPT ![t] = [key |-> call[t].key, lost |-> FALSE]] /\ call[t].op = "view"
        /\ Return(t)
    BY <1>10 DEF Insert, Inserts, Calls, Free
  <2>2. t \notin Calling("broadcast") /\ Cleared = {} /\ ~block[Root].lost
    BY <1>1, <2>1, ClearedWrites DEF Cleared, Calling, CarefulValues
  <2>3. /\ \A o : Calling(o)' = Calling(o) \ {t}
        /\ Cleared' = {}
    BY <1>1, <2>1, <2>2, CallReturned
  <2>4. Calling("broadcast")' = Calling("broadcast")
    BY <2>2, <2>3
  <2>5. call'[t] = None /\ \A u \in Threads : u # t => call'[u] = call[u]
    BY <1>1, <2>1, ReturnTyped
  <2>6. /\ DOMAIN m_sync_values' = DOMAIN m_sync_values \union {call[t].key}
        /\ \A j \in DOMAIN m_sync_values : m_sync_values'[j] = m_sync_values[j]
        /\ ~Has(call[t].key) => m_sync_values'[call[t].key] = "latest"
    BY <1>1, <2>1, AddedValue DEF CarefulCalls
  <2>7. block'[Root] = block[Root] /\ \A u \in Threads : u # t => block'[u] = block[u]
    BY <1>1, <2>1, RootIsNoThread DEF BlockTypeOK
  <2>8. \/ block'[t] = block[t]
        \/ /\ t \in Calling("view") /\ block'[t] # None /\ ~block'[t].lost /\ block'[t].key = call[t].key
    <3> DEFINE made == [key |-> call[t].key, lost |-> FALSE]
    <3>1. made # None /\ ~made.lost /\ made.key = call[t].key
      BY NoneIsNothing
    <3>2. \/ block' = block
          \/ block' = [block EXCEPT ![t] = made] /\ call[t].op = "view"
      BY <2>1
    <3> HIDE DEF made
    <3> QED
      BY <1>1, <2>1, <3>1, <3>2, RootIsNoThread DEF BlockTypeOK, Calling
  <2>9. CarefulCalls'
    BY <1>1, <1>2, <2>3, <2>4, <2>5, <2>7, <2>8 DEF CarefulCalls
  <2>10. CarefulValues'
    BY <1>1, <2>2, <2>3, <2>4, <2>6, <2>7, <2>8 DEF CarefulValues, Has
  <2> QED
    BY <2>9, <2>10
<1>11. ASSUME NEW t \in Threads, Clear(t)
      PROVE  (CarefulCalls /\ CarefulValues)'
  <2>1. /\ pc[t] = "writing" /\ call[t] # None /\ call[t].op = "broadcast" /\ call[t].local = "none"
        /\ call' = [call EXCEPT ![t].local = Default(call[t].on)] /\ m_sync_values' = <<>>
    BY <1>11 DEF Clear, Calls, Free
  <2>2. t \in Calling("broadcast") /\ Cleared = {}
    BY <1>1, <2>1, ClearedWrites DEF Cleared, Calling
  <2>3. Default(call[t].on) = "latest"
    BY <2>1, <2>2, DefaultIsLatest
  <2>4. /\ \A o : Calling(o)' = Calling(o)
        /\ Cleared' = {t}
    BY <1>1, <2>1, <2>2, CallCopied, DefaultTyped
  <2>5. /\ call'[t].local = "latest" /\ call'[t].on = call[t].on /\ call'[t].key = call[t].key
        /\ \A u \in Threads : u # t => call'[u] = call[u]
    BY <1>1, <2>1, <2>3, LocalTyped, DefaultTyped
  <2>6. /\ \A u \in Threads : block'[u] = None
        /\ block'[Root].lost /\ block'[Root].key = block[Root].key
    BY <1>1, <1>11, <2>2, BlockCleared, RootIsNoThread DEF CarefulCalls, BlockTypeOK
  <2>7. DOMAIN m_sync_values' = {}
    BY <2>1
  <2>8. CarefulCalls'
    BY <1>1, <1>2, <2>2, <2>4, <2>5, <2>6 DEF CarefulCalls
  <2>9. CarefulValues'
    BY <1>1, <2>4, <2>6, <2>7 DEF CarefulValues
  <2> QED
    BY <2>8, <2>9
<1>12. ASSUME NEW t \in Threads, Reinsert(t)
      PROVE  (CarefulCalls /\ CarefulValues)'
  <2>1. /\ pc[t] = "writing" /\ call[t] # None /\ call[t].op = "broadcast" /\ call[t].local # "none"
        /\ m_sync_values' = Inserted(call[t].key, call[t].local) /\ Return(t)
    BY <1>12 DEF Reinsert, Calls, Free
  <2>2. t \in Calling("broadcast") /\ t \in Cleared
    BY <2>1 DEF Cleared, Calling
  <2>3. /\ call[t].on = Root /\ call[t].key = RootKey /\ call[t].local = "latest"
        /\ Calling("broadcast") = {t} /\ Calling("view") = {} /\ \A u \in Threads : block[u] = None
    BY <1>1, <2>1, <2>2 DEF CarefulCalls
  <2>4. DOMAIN m_sync_values = {}
    BY <1>1, <2>2 DEF CarefulValues
  <2>5. /\ Calling("broadcast")' = {} /\ Calling("view")' = {} /\ Cleared' = {}
    <3>1. (\A o : Calling(o)' = Calling(o) \ {t}) /\ Cleared' = Cleared \ {t}
      BY <1>1, <2>1, CallReturned
    <3> QED
      BY <2>3, <3>1 DEF Cleared
  <2>6. call'[t] = None /\ \A u \in Threads : u # t => call'[u] = call[u]
    BY <1>1, <2>1, ReturnTyped
  <2>7. /\ DOMAIN m_sync_values' = {RootKey} /\ m_sync_values'[RootKey] = "latest"
    BY <2>1, <2>3, <2>4, AddedValue DEF Has
  <2>8. /\ \A u \in Threads : block'[u] = None
        /\ ~block'[Root].lost /\ block'[Root].key = block[Root].key
    BY <1>1, <1>12, <2>3, BlockRenewed, RootIsNoThread
  <2>9. CarefulCalls'
    BY <1>1, <2>5, <2>6 DEF CarefulCalls
  <2>10. CarefulValues'
    BY <1>1, <2>5, <2>7, <2>8 DEF CarefulValues, Has
  <2> QED
    BY <2>9, <2>10
<1>13. CASE UNCHANGED blockVars
  <2>1. UNCHANGED <<m_sync_values, block, call>>
    BY <1>13 DEF blockVars
  <2>2. (\A o : Calling(o)' = Calling(o)) /\ Cleared' = Cleared
    BY <2>1 DEF Calling, Cleared
  <2> QED
    BY <1>1, <2>1, <2>2 DEF CarefulCalls, CarefulValues, Has
<1> QED
  BY <1>3, <1>4, <1>5, <1>6, <1>7, <1>8, <1>9, <1>10, <1>11, <1>12, <1>13, BlockSteps

LEMMA CarefulAlways == ASSUME CarefulClients PROVE BlockSpec => []CarefulInductive
<1>1. BlockInit => CarefulCalls /\ CarefulValues
  <2> SUFFICES ASSUME BlockInit  PROVE CarefulCalls /\ CarefulValues
    OBVIOUS
  <2>1. (\A o : Calling(o) = {}) /\ Cleared = {}
    BY DEF BlockInit, Calling, Cleared
  <2>2. CarefulCalls
    BY <2>1 DEF BlockInit, CarefulCalls
  <2>3. block[Root] = [key |-> RootKey, lost |-> FALSE] /\ \A t \in Threads : block[t] = None
    BY RootIsNoThread DEF BlockInit
  <2>4. CarefulValues
    BY <2>1, <2>3 DEF BlockInit, CarefulValues, Has
  <2> QED
    BY <2>2, <2>4
<1>2. BlockInductive /\ BlockInductive' /\ CarefulCalls /\ CarefulValues /\ [BlockNext]_blockVars
        => (CarefulCalls /\ CarefulValues)'
  BY CarefulKept DEF CarefulInductive
<1>3. CarefulInductive <=> BlockInductive /\ (CarefulCalls /\ CarefulValues)
  BY DEF CarefulInductive
<1> QED
  BY <1>1, <1>2, <1>3, BlockInductiveAlways, PTL DEF BlockSpec

(***************************************************************************)
(* LatestSeen for any number of threads and keys: clients that write where *)
(* nobody has a view never find a default value that was destroyed, and    *)
(* between their writes only the latest values.                            *)
(***************************************************************************)
THEOREM CarefulClientsSeeLatest == CarefulClients => (BlockSpec => []LatestSeen)
<1> SUFFICES ASSUME CarefulClients  PROVE BlockSpec => []LatestSeen
  OBVIOUS
<1>1. CarefulInductive => LatestSeen
  <2> SUFFICES ASSUME CarefulInductive  PROVE LatestSeen
    OBVIOUS
  <2>1. BlockInductive /\ BlockTypeOK /\ CallsPlaced /\ CarefulCalls /\ CarefulValues
    BY DEF CarefulInductive, BlockInductive
  <2>2. ASSUME NEW t \in At("reading")
        PROVE  Default(call[t].on) # "garbage"
    <3>1. t \in Threads /\ pc[t] = "reading"
      BY DEF At
    <3>2. Cleared = {}
      BY <2>1, <3>1, ClearedWrites
    <3>3. call[t].on \in {Root, t} /\ block[call[t].on] # None
      BY <2>1, <3>1 DEF CallsPlaced, Placed
    <3>4. ~block[call[t].on].lost /\ Has(block[call[t].on].key)
      BY <2>1, <3>1, <3>2, <3>3 DEF CarefulValues
    <3> QED
      BY <2>1, <3>4 DEF Default, CarefulValues, Has
  <2>3. ASSUME NobodyWrites
        PROVE  /\ \A k \in DOMAIN m_sync_values : m_sync_values[k] = "latest"
               /\ \A b \in Blocks : block[b] # None => Default(b) = "latest"
    <3>1. Calling("broadcast") = {} /\ Cleared = {}
      BY <2>3 DEF NobodyWrites, Calls, Free, Calling, Cleared
    <3>2. \A k \in DOMAIN m_sync_values : m_sync_values[k] = "latest"
      BY <2>1, <3>1 DEF CarefulValues
    <3>3. \A b \in Blocks : block[b] # None => ~block[b].lost /\ Has(block[b].key)
      BY <2>1, <3>1, RootIsNoThread DEF CarefulValues
    <3> QED
      BY <3>2, <3>3 DEF Default, Has
  <2> QED
    BY <2>2, <2>3 DEF LatestSeen
<1> QED
  BY <1>1, CarefulAlways, PTL

=============================================================================
