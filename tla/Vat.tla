--------------------------------- MODULE Vat ---------------------------------
(***************************************************************************)
(* The pool behind flow memory: VatMemoryController (memory/flow.cpp) over *)
(* Vat and Pot (memory/orz), one HardMemory per allocation.                *)
(*                                                                         *)
(* A Pot is a record of the address of its block and its capacity; `hard'  *)
(* is what the hard allocator has given out and not got back, that is the  *)
(* blocks whose shared pointer m_data lives in some Pot.  Addresses that   *)
(* were given back are given out again.                                    *)
(*                                                                         *)
(* `peak' is a history variable that the code does not have: the largest   *)
(* number of allocations alive at a time.                                  *)
(***************************************************************************)
EXTENDS Integers, Sequences, FiniteSets, Functions, SequencesExt

CONSTANTS
    Addresses,  \* what the hard allocator can return
    Sizes       \* sizes of allocations, in bytes

ASSUME VatAssumption == Sizes \subseteq Nat \ {0}

\* The hard allocator does not tell them apart.
AddressSymmetry == Permutations(Addresses)

VARIABLES
    m_heap,         \* the free pots
    m_dict,         \* from the addresses of live allocations to their pots
    m_deprecated,   \* the controller is destroyed
    hard,           \* the addresses of all blocks
    wanted,         \* from the addresses of live allocations to their sizes
    peak

vars == <<m_heap, m_dict, m_deprecated, hard, wanted, peak>>

-----------------------------------------------------------------------------
(***************************************************************************)
(* binary_find: 0-based, never compares the last pot of the heap           *)
(***************************************************************************)
Capacity(heap, i) == heap[i + 1].capacity

binary_find(heap, size) ==
    LET find[range \in (0 .. Len(heap)) \X (-1 .. Len(heap))] ==
            LET left == range[1]
                right == range[2]
                middle == (left + right) \div 2
            IN  IF right - left <= 0 THEN left
                ELSE IF Capacity(heap, middle) < size THEN find[<<middle + 1, right>>]
                ELSE IF middle > 0 /\ Capacity(heap, middle - 1) >= size
                     THEN find[<<left, middle - 1>>] ELSE middle
    IN  find[<<0, Len(heap) - 1>>]

Blocks(heap) == {heap[i].ptr : i \in DOMAIN heap}

-----------------------------------------------------------------------------
Init ==
    /\ m_heap = <<>>
    /\ m_dict = <<>>
    /\ m_deprecated = FALSE
    /\ hard = {}
    /\ wanted = <<>>
    /\ peak = 0

With(f, x, v) == [y \in DOMAIN f \union {x} |-> IF y = x THEN v ELSE f[y]]
Without(f, x) == [y \in DOMAIN f \ {x} |-> f[y]]

Position(size) == binary_find(m_heap, size) + 1

\* The pot is entered into m_dict under the address it returned.
Keep(pot, size) ==
    /\ m_dict' = With(m_dict, pot.ptr, pot)
    /\ wanted' = With(wanted, pot.ptr, size)
    /\ peak' = IF Cardinality(DOMAIN m_dict) = peak THEN peak + 1 ELSE peak
    /\ UNCHANGED m_deprecated

\* Vat::malloc finds a pot that is large enough.
Reuse(size) ==
    /\ ~m_deprecated
    /\ m_heap # <<>>
    /\ m_heap[Position(size)].capacity >= size
    /\ m_heap' = RemoveAt(m_heap, Position(size))
    /\ Keep(m_heap[Position(size)], size)
    /\ UNCHANGED hard

\* Mistake: the pot that is too small stays in the heap.
GrowAnother(size) ==
    /\ ~m_deprecated
    /\ m_heap # <<>> => m_heap[Position(size)].capacity < size
    /\ \E new \in Addresses \ hard :
        /\ Keep([ptr |-> new, capacity |-> size], size)
        /\ hard' = hard \union {new}
        /\ UNCHANGED m_heap

\* Vat::malloc with an empty heap, or with a pot that is too small: Pot::malloc
\* gets a new block and then releases the one the pot had.
Grow(size) ==
    /\ ~m_deprecated
    /\ m_heap # <<>> => m_heap[Position(size)].capacity < size
    /\ \E new \in Addresses \ hard :
        /\ Keep([ptr |-> new, capacity |-> size], size)
        /\ IF m_heap = <<>> THEN m_heap' = <<>> /\ hard' = hard \union {new}
           ELSE /\ m_heap' = RemoveAt(m_heap, Position(size))
                /\ hard' = (hard \ {m_heap[Position(size)].ptr}) \union {new}

\* The hard allocator throws: the pot was taken out of the heap and is lost.
OutOfMemory(size) ==
    /\ ~m_deprecated
    /\ m_heap # <<>> /\ m_heap[Position(size)].capacity < size
    /\ m_heap' = RemoveAt(m_heap, Position(size))
    /\ hard' = hard \ {m_heap[Position(size)].ptr}
    /\ UNCHANGED <<m_dict, m_deprecated, wanted, peak>>

\* VatMemoryController::alloc, called while the controller lives; nothing is
\* allocated for a size of zero.
alloc(size) == Reuse(size) \/ Grow(size) \/ OutOfMemory(size)

\* Mistake: m_deprecated is not tested.
FreeToHeap(ptr) ==
    /\ m_heap' = InsertAt(m_heap, Position(m_dict[ptr].capacity), m_dict[ptr])
    /\ m_dict' = Without(m_dict, ptr)
    /\ wanted' = Without(wanted, ptr)
    /\ UNCHANGED <<m_deprecated, peak, hard>>

\* Mistake: the pot is not inserted where it belongs.
FreeAtEnd(ptr) ==
    /\ IF m_deprecated THEN hard' = hard \ {ptr} /\ UNCHANGED m_heap
       ELSE m_heap' = Append(m_heap, m_dict[ptr]) /\ UNCHANGED hard
    /\ m_dict' = Without(m_dict, ptr)
    /\ wanted' = Without(wanted, ptr)
    /\ UNCHANGED <<m_deprecated, peak>>

\* ~HardMemory calls Vat::free, also after the controller is destroyed.
free(ptr) ==
    /\ IF m_deprecated THEN hard' = hard \ {ptr} /\ UNCHANGED m_heap
       ELSE /\ m_heap' = InsertAt(m_heap, Position(m_dict[ptr].capacity), m_dict[ptr])
            /\ UNCHANGED hard
    /\ m_dict' = Without(m_dict, ptr)
    /\ wanted' = Without(wanted, ptr)
    /\ UNCHANGED <<m_deprecated, peak>>

\* ~VatMemoryController: the free pots are dropped.
deprecated ==
    /\ ~m_deprecated
    /\ m_deprecated' = TRUE
    /\ m_heap' = <<>>
    /\ hard' = hard \ Blocks(m_heap)
    /\ UNCHANGED <<m_dict, wanted, peak>>

\* Everything is given back.
Stop == m_deprecated /\ DOMAIN m_dict = {} /\ UNCHANGED vars

Next ==
    \/ \E size \in Sizes : alloc(size)
    \/ \E ptr \in DOMAIN m_dict : free(ptr)
    \/ deprecated
    \/ Stop

Spec == Init /\ [][Next]_vars

-----------------------------------------------------------------------------
(***************************************************************************)
(* No two allocations share a block, nor an allocation and a free pot; a   *)
(* block is as large as was wanted; and every block the hard allocator has *)
(* given out is in a pot, and in no free one once the controller is        *)
(* destroyed, so that nothing leaks, whatever threw and in whatever order  *)
(* the allocations and the controller are destroyed.                       *)
(***************************************************************************)
Ownership ==
    /\ m_deprecated => m_heap = <<>>
    /\ \A i, j \in DOMAIN m_heap : m_heap[i].ptr = m_heap[j].ptr => i = j
    /\ Blocks(m_heap) \intersect DOMAIN m_dict = {}
    /\ hard = Blocks(m_heap) \union DOMAIN m_dict
    /\ \A ptr \in DOMAIN m_dict : /\ m_dict[ptr].ptr = ptr
                                  /\ m_dict[ptr].capacity >= wanted[ptr]

(***************************************************************************)
(* The pool never holds more blocks than were in use at a time: a block is *)
(* added only when none is free, otherwise a free one is replaced.         *)
(***************************************************************************)
BlocksWithinPeak == Cardinality(hard) <= peak

(***************************************************************************)
(* The hard allocator is asked only if no free block is large enough.      *)
(* This holds although the heap is not sorted (vat.h:69 says it is): a pot *)
(* that is larger than all others is inserted before the last, but the     *)
(* pots except the last are sorted, and the last is taken when none of     *)
(* these fits.                                                             *)
(***************************************************************************)
GrowsOnlyIfNoneFits ==
    [][\A new \in hard' \ hard : \A i \in DOMAIN m_heap :
        m_heap[i].capacity < m_dict'[new].capacity]_vars
=============================================================================
