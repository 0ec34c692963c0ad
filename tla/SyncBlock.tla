------------------------------- MODULE SyncBlock -------------------------------
(***************************************************************************)
(* SyncBlock of core/sync/sync_block.h: one value per key (memory per      *)
(* device), copied from the value of the block's own key when it is first  *)
(* asked for, behind an rwmutex.  Views share the values and have a key    *)
(* and a default value of their own.                                       *)
(*                                                                         *)
(* Clients write to a value and tell the others with broadcast, one client *)
(* at a time.  Of what a value holds only the age matters here.            *)
(***************************************************************************)
EXTENDS RWMutex

CONSTANTS
    Keys, RootKey,  \* devices, and the one on which the block is made
    CarefulClients  \* "this action may disable already exist view"

ASSUME KeysAssumption ==
    RootKey \in Keys /\ CarefulClients \in BOOLEAN /\ "root" \notin Threads

\* The block that all threads share; each may make a view and keep it.
Root == "root"
Blocks == {Root} \union Threads

None == [key |-> "none"]

VARIABLES
    m_sync_values,  \* of each key that has a value, its age: "latest" or "old"
    block,          \* [key, lost] of every block, or None; it is lost when what
                    \* m_default_value points to was destroyed
    call,           \* [op, on, key, local] of each thread, or None
    copies          \* how often the handler made the value of a key since the last broadcast

blockVars == <<vars, m_sync_values, block, call, copies>>

BlockInit ==
    /\ Init
    /\ m_sync_values = [k \in {RootKey} |-> "latest"]
    /\ block = [b \in Blocks |-> IF b = Root THEN [key |-> RootKey, lost |-> FALSE] ELSE None]
    /\ call = [t \in Threads |-> None]
    /\ copies = [k \in Keys |-> 0]

-----------------------------------------------------------------------------
Has(k) == k \in DOMAIN m_sync_values
Free(t) == call[t] = None

\* m_sync_values.insert leaves a value that is there.
Inserted(k, age) ==
    [j \in DOMAIN m_sync_values \union {k} |-> IF Has(j) THEN m_sync_values[j] ELSE age]

\* *m_default_value
Default(b) == IF block[b].lost \/ ~ Has(block[b].key) THEN "garbage"
              ELSE m_sync_values[block[b].key]

\* The blocks that thread t can call
Usable(t) == {b \in {Root, t} : block[b] # None}

Begin(t, op, b, k) ==
    /\ Free(t)
    /\ call' = [call EXCEPT ![t] = [op |-> op, on |-> b, key |-> k, local |-> "none"]]

Return(t) == call' = [call EXCEPT ![t] = None]

Calls(t, op) == ~ Free(t) /\ call[t].op = op
NobodyWrites == \A t \in Threads : ~ Calls(t, "broadcast")

(***************************************************************************)
(* A careful client changes the value of the block that is shared, while   *)
(* nobody has a view or is about to get one.                               *)
(***************************************************************************)
TakesCare(b) ==
    /\ b = Root
    /\ \A t \in Threads : block[t] = None /\ ~ Calls(t, "view")

-----------------------------------------------------------------------------
\* What a thread calls, up to its first lock
sync(t, b, k) ==
    /\ Begin(t, "sync", b, k)
    /\ lock_read(t)
    /\ UNCHANGED <<m_sync_values, block, copies>>

value(t, b) ==
    /\ Begin(t, "value", b, block[b].key)
    /\ lock_read(t)
    /\ UNCHANGED <<m_sync_values, block, copies>>

view(t, b, k) ==
    /\ Begin(t, "view", b, k)
    /\ block[t] = None
    /\ CarefulClients => NobodyWrites
    /\ IF k = block[b].key THEN lock_read(t) ELSE lock_write(t)
    /\ UNCHANGED <<m_sync_values, block, copies>>

\* The client writes to the value of the block, then calls broadcast.
broadcast(t, b) ==
    /\ NobodyWrites /\ ~ block[b].lost
    /\ CarefulClients => TakesCare(b)
    /\ Begin(t, "broadcast", b, block[b].key)
    /\ m_sync_values' = [k \in DOMAIN m_sync_values |->
                           IF k = block[b].key THEN "latest" ELSE "old"]
    /\ lock_write(t)
    /\ UNCHANGED <<block, copies>>

\* The client destroys its view.
Drop(t) ==
    /\ Free(t) /\ block[t] # None
    /\ block' = [block EXCEPT ![t] = None]
    /\ UNCHANGED <<vars, m_sync_values, call, copies>>

-----------------------------------------------------------------------------
\* Under the read lock: sync finds the value, or gives the lock back to come
\* again as a writer; value and view read m_default_value.
Look(t) ==
    /\ release_read(t)
    /\ IF call[t].op = "sync" /\ call[t].key # block[call[t].on].key /\ ~ Has(call[t].key)
       THEN call' = [call EXCEPT ![t].op = "insert"]
       ELSE Return(t)
    /\ block' = IF call[t].op = "view" THEN [block EXCEPT ![t] = block[call[t].on]] ELSE block
    /\ UNCHANGED <<m_sync_values, copies>>

ComeAgain(t) ==
    /\ Calls(t, "insert")
    /\ lock_write(t)
    /\ UNCHANGED <<m_sync_values, block, call, copies>>

Inserts(t) == pc[t] = "writing" /\ (Calls(t, "insert") \/ Calls(t, "view"))

\* Mistake: sync and view do not look again under the write lock.
CopyUnseen(t) ==
    /\ Inserts(t) /\ call[t].local = "none"
    /\ call' = [call EXCEPT ![t].local = Default(call[t].on)]
    /\ copies' = [copies EXCEPT ![call[t].key] = @ + 1]
    /\ UNCHANGED <<vars, m_sync_values, block>>

\* sync_insert: the handler is called for a key that has no value,
Copy(t) ==
    /\ Inserts(t) /\ call[t].local = "none" /\ ~ Has(call[t].key)
    /\ call' = [call EXCEPT ![t].local = Default(call[t].on)]
    /\ copies' = [copies EXCEPT ![call[t].key] = @ + 1]
    /\ UNCHANGED <<vars, m_sync_values, block>>

\* and what it returns is inserted.
Insert(t) ==
    /\ Inserts(t) /\ (Has(call[t].key) \/ call[t].local # "none")
    /\ m_sync_values' = Inserted(call[t].key, call[t].local)
    /\ block' = IF call[t].op = "view"
                THEN [block EXCEPT ![t] = [key |-> call[t].key, lost |-> FALSE]] ELSE block
    /\ Return(t)
    /\ release_write(t)
    /\ UNCHANGED copies

\* Mistake: only the value that was written is replaced.
ClearOwn(t) ==
    /\ pc[t] = "writing" /\ Calls(t, "broadcast") /\ call[t].local = "none"
    /\ call' = [call EXCEPT ![t].local = Default(call[t].on)]
    /\ m_sync_values' = [k \in DOMAIN m_sync_values \ {call[t].key} |-> m_sync_values[k]]
    /\ UNCHANGED <<vars, block, copies>>

\* m_sync_values.clear() destroys what all default values point to,
Clear(t) ==
    /\ pc[t] = "writing" /\ Calls(t, "broadcast") /\ call[t].local = "none"
    /\ call' = [call EXCEPT ![t].local = Default(call[t].on)]
    /\ m_sync_values' = <<>>
    /\ block' = [b \in Blocks |-> IF block[b] = None THEN None ELSE [block[b] EXCEPT !.lost = TRUE]]
    /\ copies' = [k \in Keys |-> 0]
    /\ UNCHANGED vars

\* and the block gets a new one.
Reinsert(t) ==
    /\ pc[t] = "writing" /\ Calls(t, "broadcast") /\ call[t].local # "none"
    /\ m_sync_values' = Inserted(call[t].key, call[t].local)
    /\ block' = [block EXCEPT ![call[t].on].lost = FALSE]
    /\ Return(t)
    /\ release_write(t)
    /\ UNCHANGED copies

\* A thread that was woken, or is for nothing
Resume(t) ==
    /\ ResumeRead(t) \/ ResumeWrite(t)
    /\ UNCHANGED <<m_sync_values, block, call, copies>>

Wake(t) == WokenForNothing(t) /\ UNCHANGED <<m_sync_values, block, call, copies>>

Continue(t) ==
    Resume(t) \/ Look(t) \/ ComeAgain(t) \/ Copy(t) \/ Insert(t) \/ Clear(t) \/ Reinsert(t)

BlockNext ==
    \E t \in Threads :
        \/ \E b \in Usable(t) : \/ \E k \in Keys : sync(t, b, k) \/ view(t, b, k)
                                \/ value(t, b) \/ broadcast(t, b)
        \/ Drop(t)
        \/ Continue(t) \/ Wake(t)

BlockSpec == BlockInit /\ [][BlockNext]_blockVars

\* The scheduler runs threads that can run; nobody has to begin a call.
BlockFairSpec == BlockSpec /\ \A t \in Threads : WF_blockVars(Continue(t))

-----------------------------------------------------------------------------
(***************************************************************************)
(* Threads that miss a value at the same time make one copy of it: two     *)
(* would be two memories, of which the caller of the first writes to one   *)
(* that nobody else sees.                                                  *)
(***************************************************************************)
CopiedOnce == \A k \in Keys : copies[k] <= 1

(***************************************************************************)
(* Whoever reads finds the default value, and when no write is under way,  *)
(* all values and all that blocks point to are the latest ones.            *)
(***************************************************************************)
LatestSeen ==
    /\ \A t \in At("reading") : Default(call[t].on) # "garbage"
    /\ NobodyWrites => /\ \A k \in DOMAIN m_sync_values : m_sync_values[k] = "latest"
                       /\ \A b \in Blocks : block[b] # None => Default(b) = "latest"
=============================================================================
