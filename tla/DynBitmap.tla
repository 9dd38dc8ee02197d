------------------------------ MODULE DynBitmap ------------------------------
(***************************************************************************)
(* The growable bitmap of kernel/include/dynarr.h, from which inode        *)
(* numbers (tmpfs) and device numbers (drivers/base) are drawn.  Its       *)
(* callers serialise the operations with their own locks.                  *)
(*                                                                         *)
(* The bits live in a dynamic array whose current_count stays 0, because   *)
(* only dynarr_append and dynarr_set advance it; dynarr_expand_to copies   *)
(* current_count elements and clears the rest.                             *)
(***************************************************************************)
EXTENDS Integers

CONSTANTS Unit,        \* BITS_PER_UNIT
          InitUnits,   \* the initial capacity (16)
          Limits,      \* values of max_limit, 0 for none
          Hint,        \* where callers start looking
          Dirty,       \* bits that may be set in memory fresh from kheap_alloc
          GrowBound,   \* bound: no growth beyond this capacity
          HolderBound  \* bound: callers that are given one id

ASSUME DynBitmapAssumption ==
    /\ Unit \in Nat \ {0} /\ InitUnits \in Nat \ {0} /\ Limits \subseteq Nat
    /\ Hint \in Nat /\ GrowBound \in Nat /\ InitUnits <= GrowBound
    /\ Dirty \subseteq Nat /\ HolderBound \in Nat \ {0}

VARIABLES limit,    \* max_limit
          cap,      \* dynarr_count, in units
          bits,     \* the bits that are set
          holders   \* how many callers were given each id and still use it

vars == <<limit, cap, bits, holders>>
Ids == 0..(GrowBound * Unit - 1)

\* dynarr_create and dynarr_bitmap_create.
InitCap == IF limit # 0 /\ InitUnits > limit THEN limit ELSE InitUnits

\* The initial array is not cleared: dynarr_expand_to returns at once because
\* dynarr_create has allocated that much already.
Init ==
    /\ limit \in Limits /\ cap = InitCap
    /\ bits \in SUBSET (Dirty \cap 0..(cap * Unit - 1))
    /\ holders = [i \in Ids |-> 0]

\* i is what bitmap_find returns: the first clear bit of b from Hint on.
FirstClear(i, b) ==
    /\ Hint <= i /\ i \notin b
    /\ \A j \in Hint..(i - 1) : j \in b

Full == \A i \in Hint..(cap * Unit - 1) : i \in bits

Grant(i, b) ==
    /\ holders[i] < HolderBound
    /\ bits' = b \cup {i}
    /\ holders' = [holders EXCEPT ![i] = @ + 1]

\* dynarr_bitmap_alloc finds a clear bit within the capacity.
MAllocFound ==
    \E i \in 0..(cap * Unit - 1) :
        /\ FirstClear(i, bits)
        /\ holders[i] < HolderBound
        /\ bits' = bits
        /\ holders' = [holders EXCEPT ![i] = @ + 1]
        /\ UNCHANGED <<limit, cap>>
AllocFound ==
    \E i \in 0..(cap * Unit - 1) :
        /\ FirstClear(i, bits)
        /\ Grant(i, bits)
        /\ UNCHANGED <<limit, cap>>

\* The bits that survive dynarr_expand_to: those of the first current_count
\* units, of which there are none.
Copied(b) == {}

\* dynarr_bitmap_alloc on a full bitmap below its limit: double the capacity,
\* at most to the limit, and look again.
AllocGrow ==
    /\ Full
    /\ limit = 0 \/ cap < limit
    /\ cap' = IF limit # 0 /\ 2 * cap > limit THEN limit ELSE 2 * cap
    /\ cap' <= GrowBound /\ UNCHANGED limit
    /\ \E i \in 0..(cap' * Unit - 1) :
          FirstClear(i, Copied(bits)) /\ Grant(i, Copied(bits))

\* dynarr_bitmap_free, by a holder of i.
MFree(i) ==
    /\ holders[i] > 0
    /\ bits' = bits
    /\ holders' = [holders EXCEPT ![i] = @ - 1]
    /\ UNCHANGED <<limit, cap>>
Free(i) ==
    /\ holders[i] > 0
    /\ bits' = IF i < cap * Unit THEN bits \ {i} ELSE bits
    /\ holders' = [holders EXCEPT ![i] = @ - 1]
    /\ UNCHANGED <<limit, cap>>

Next == AllocFound \/ AllocGrow \/ \E i \in Ids : Free(i)

Spec == Init /\ [][Next]_vars

-----------------------------------------------------------------------------
TypeOK ==
    /\ limit \in Limits
    /\ cap \in 1..GrowBound /\ (limit # 0 => cap <= limit)
    /\ bits \in SUBSET (0..(cap * Unit - 1))
    /\ holders \in [Ids -> Nat]

Taken == {i \in Ids : holders[i] > 0}

\* The limit does not allow growth: max_bits fits the initial allocation.
Fixed == limit # 0 /\ limit <= InitUnits

\* dynarr_bitmap_alloc "allocates a free bit": no two callers hold one id,
\* whatever they allocate and free, as long as the bitmap need not grow.
UniqueIds == Fixed => \A i \in Ids : holders[i] <= 1

\* A bit that dynarr_bitmap_alloc set has a holder who will free it; only bits
\* that were set in the memory from the start have none.
NoLostIds == bits \subseteq Taken \cup Dirty

\* A bitmap that need not grow is a pool of ids; one that may grow takes no part.
PoolUsers == IF Fixed THEN holders ELSE [i \in Ids |-> 0]
Pool == INSTANCE IdPool WITH users <- PoolUsers
RefinesPool == Pool!PoolSpec
=============================================================================
