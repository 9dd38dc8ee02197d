------------------------------- MODULE Buddy --------------------------------
(***************************************************************************)
(* The physical page allocator: kernel/mm/buddy.c, called through the zone *)
(* fallback of _kheap_alloc (kernel/mm/heap.c).  Every operation holds the *)
(* mem_block lock and the zone lock from its first read to its last write, *)
(* so each is one action.  Zones, block sizes and the memory map are small *)
(* versions of the code's: as there, the largest block is bigger than the  *)
(* first zone and the second zone ends where memory ends.                  *)
(***************************************************************************)
EXTENDS Integers, Sequences, FiniteSets, FiniteSetsExt, SequencesExt

CONSTANTS MaxPfn,     \* max_pfn, the last page frame
          MAX_ORDER,
          Boundary,   \* where ZONE_DMA ends (4096)
          BootUsed,   \* the pages page_is_alloc reports when the lists are built
          MaxRef      \* bound: references to a block

ASSUME BuddyAssumption ==
    /\ MaxPfn \in Nat /\ MAX_ORDER \in Nat \ {0} /\ MaxRef \in Nat \ {0}
    /\ Boundary \in 1..MaxPfn
    /\ BootUsed \subseteq 0..MaxPfn

Pfns == 0..MaxPfn
Orders == 0..(MAX_ORDER - 1)
Zones == 0..2
Block(p, k) == p..(p + 2^k - 1)

\* zone_init on a machine below 4 GB: ZONE_NORMAL is empty.
ZoneOf(p) == IF p < Boundary THEN 0 ELSE 1
ZonePages(z) == {p \in Pfns : ZoneOf(p) = z}

VARIABLE mem   \* blk: mem_block->blocks; lists: zones[].free_areas[]

-----------------------------------------------------------------------------
\* list_add and list_del on the free lists.
Add(m, p, z, k) == [m EXCEPT !.lists[z][k] = <<p>> \o @]
Unlist(m, p) ==
    [m EXCEPT !.lists[ZoneOf(p)][m.blk[p].order] = SelectSeq(@, LAMBDA q : q # p)]

\* Write is_head, is_free, order and ref_count of a whole block.
Mark(m, p, k, free, ref) ==
    [m EXCEPT !.blk = [q \in Pfns |->
        IF q \in Block(p, k)
          THEN [head |-> q = p, free |-> free, order |-> k, ref |-> ref]
          ELSE @[q]]]

\* pfn ^ (1 << order)
BuddyOf(p, k) == IF (p \div 2^k) % 2 = 0 THEN p + 2^k ELSE p - 2^k

\* split_buddy_block of the block at p, of order k + 1, into two of order k.
Split(m, p, k) ==
    LET halves == Mark(Mark(Unlist(m, p), p, k, TRUE, 0), BuddyOf(p, k), k, TRUE, 0)
        z == ZoneOf(p)
    IN  Add(Add(halves, p, z, k), BuddyOf(p, k), z, k)

\* merge_buddy_block of two free buddies of order k, p the lower.
MMergeHalf(m, p, k) ==
    Mark(Add(Unlist(m, p), p, ZoneOf(p), k + 1), p, k + 1, TRUE, 0)
Merge(m, p, k) ==
    Mark(Add(Unlist(Unlist(m, p), p + 2^k), p, ZoneOf(p), k + 1), p, k + 1, TRUE, 0)

\* free_lists_init and mem_block_init: runs of free pages of a zone are cut,
\* from the left, into the largest aligned blocks that fit.
RunEnd(p) == Min({q \in (p + 1)..(MaxPfn + 1) :
                    q > MaxPfn \/ q \in BootUsed \/ ZoneOf(q) # ZoneOf(p)})
BestOrder(p) == Max({k \in Orders : 2^k <= RunEnd(p) - p /\ p % 2^k = 0})
Boot[p \in 0..(MaxPfn + 1)] ==
    IF p = 0
      THEN [at  |-> 0,
            mem |-> [blk |-> [q \in Pfns |->
                                [head |-> TRUE, free |-> FALSE, order |-> 0, ref |-> 0]],
                     lists |-> [z \in Zones |-> [k \in Orders |-> <<>>]]]]
      ELSE LET b == Boot[p - 1]
               k == BestOrder(p - 1)
           IN  IF b.at # p - 1 THEN b
               ELSE IF p - 1 \in BootUsed THEN [b EXCEPT !.at = p]
               ELSE [at  |-> p - 1 + 2^k,
                     mem |-> Mark(Add(b.mem, p - 1, ZoneOf(p - 1), k),
                                  p - 1, k, TRUE, 0)]

Init == mem = Boot[MaxPfn + 1].mem

-----------------------------------------------------------------------------
\* The orders from o up whose list in zone z starts with a usable block.
Usable(o, z) ==
    {k \in o..(MAX_ORDER - 1) :
        /\ mem.lists[z][k] # <<>>
        /\ LET b == mem.blk[Head(mem.lists[z][k])] IN b.free /\ b.order = k}

\* The pfn pmm_alloc_pages returns; 0 is also its failure value.
AllocResult(o, z) ==
    IF Usable(o, z) = {} THEN 0 ELSE Head(mem.lists[z][Min(Usable(o, z))])

\* pmm_alloc_pages: split the first block found down to order o and take its
\* left end; page frame 0 is split but never taken.
AllocFrom(o, z) ==
    IF Usable(o, z) = {} THEN mem
    ELSE LET f == Min(Usable(o, z))
             p == Head(mem.lists[z][f])
             down[k \in o..f] == IF k = f THEN mem ELSE Split(down[k + 1], p, k)
         IN  IF p = 0 THEN down[o] ELSE Mark(Unlist(down[o], p), p, o, FALSE, 1)

\* _kheap_alloc: the preferred zone, then the ones below it.
MKheapAlloc(o, zone) ==
    LET zs == {z \in 0..zone : AllocResult(o, z) # 0}
    IN  /\ zs # {}
        /\ mem' = LET p == AllocResult(o, Max(zs))
                  IN  Mark(mem, p, o, FALSE, 1)
KheapAlloc(o, zone) ==
    LET zs == {z \in 0..zone : AllocResult(o, z) # 0}
    IN  mem' = AllocFrom(o, IF zs = {} THEN 0 ELSE Max(zs))

\* pmm_add_ref_count, by a holder of the block at p.
AddRef(p) ==
    /\ mem.blk[p].head /\ mem.blk[p].ref \in 1..(MaxRef - 1)
    /\ mem' = Mark(mem, p, mem.blk[p].order, FALSE, mem.blk[p].ref + 1)

\* Merge the free block at p of order k as far up as it goes.
MMergeUpOnce(m, p, k) ==
    LET b == BuddyOf(p, k)
    IN  IF b \in Pfns /\ m.blk[b].free /\ m.blk[b].order = k /\ ZoneOf(b) = ZoneOf(p)
             /\ k < MAX_ORDER - 1
          THEN Merge(m, IF b < p THEN b ELSE p, k) ELSE m
MergeUp(m, p, k) ==
    LET up[j \in k..(MAX_ORDER - 1)] ==
          IF j = k THEN [mem |-> m, at |-> p, more |-> TRUE]
          ELSE LET u == up[j - 1]
                   b == BuddyOf(u.at, j - 1)
                   lo == IF b < u.at THEN b ELSE u.at
               IN  IF /\ u.more /\ b \in Pfns
                      /\ u.mem.blk[b].free /\ u.mem.blk[b].order = j - 1
                      /\ ZoneOf(b) = ZoneOf(p)
                     THEN [mem |-> Merge(u.mem, lo, j - 1), at |-> lo, more |-> TRUE]
                     ELSE [u EXCEPT !.more = FALSE]
    IN  up[MAX_ORDER - 1].mem

\* pmm_free_pages, by a holder of the block at p: drop a reference, and with
\* the last one put the block on its list and merge it with its buddies.
MFree(p) ==
    LET b == mem.blk[p]
    IN  /\ b.head /\ ~ b.free /\ b.ref > 0
        /\ mem' = MergeUp(Add(Mark(mem, p, b.order, TRUE, 0), p, ZoneOf(p), b.order),
                          p, b.order)
Free(p) ==
    LET b == mem.blk[p]
    IN  /\ b.head /\ ~ b.free /\ b.ref > 0
        /\ mem' = IF b.ref > 1
                    THEN Mark(mem, p, b.order, FALSE, b.ref - 1)
                    ELSE MergeUp(Add(Mark(mem, p, b.order, TRUE, 0), p, ZoneOf(p), b.order),
                                 p, b.order)

Next ==
    \/ \E o \in Orders, z \in Zones : KheapAlloc(o, z)
    \/ \E p \in Pfns : AddRef(p) \/ Free(p)

Spec == Init /\ [][Next]_mem

-----------------------------------------------------------------------------
TypeOK ==
    /\ mem.blk \in [Pfns -> [head : BOOLEAN, free : BOOLEAN, order : Orders,
                             ref : 0..MaxRef]]
    /\ mem.lists \in [Zones -> [Orders -> Seq(Pfns)]]

Heads == {p \in Pfns : mem.blk[p].head}

\* Splitting and merging keep the blocks a partition of memory: aligned, in
\* one zone, with the same order, state and count on every page, each page
\* in exactly one.
BlocksPartitionMemory ==
    /\ TypeOK
    /\ \A p \in Heads : LET k == mem.blk[p].order
                        IN  /\ p % 2^k = 0
                            /\ Block(p, k) \subseteq ZonePages(ZoneOf(p))
                            /\ \A q \in Block(p, k) :
                                 mem.blk[q] = [mem.blk[p] EXCEPT !.head = q = p]
    /\ \A q \in Pfns : \E p \in Heads : q \in Block(p, mem.blk[p].order)

\* free_areas[k] of a zone lists exactly its free blocks of order k, each
\* once: what pmm_alloc_pages takes from a list is free and of that order.
FreeListsExact == \A z \in Zones, k \in Orders :
    /\ IsInjective(mem.lists[z][k])
    /\ Range(mem.lists[z][k]) =
         {p \in Heads : mem.blk[p].free /\ mem.blk[p].order = k /\ ZoneOf(p) = z}

\* pmm_free_pages merges a block with its buddy whenever both are free, so an
\* allocation finds a block ("looks upwards all the way") exactly when some
\* aligned run of that many free pages is left in the zone.
FreeRun(o, z) == \E p \in Pfns :
    /\ p % 2^o = 0 /\ Block(p, o) \subseteq ZonePages(z)
    /\ \A q \in Block(p, o) : mem.blk[q].free
AllocFindsRun == \A o \in Orders, z \in Zones : FreeRun(o, z) <=> AllocResult(o, z) # 0

\* A page with references is never handed out again, and its block keeps its
\* size until the last reference is dropped.
HeldBlocksStay == [][\A p \in Heads :
    mem.blk[p].ref > 0 =>
      \/ mem'.blk[p].head /\ mem'.blk[p].order = mem.blk[p].order
         /\ mem'.blk[p].ref \in (mem.blk[p].ref - 1)..(mem.blk[p].ref + 1)
         /\ (mem'.blk[p].free <=> mem'.blk[p].ref = 0)
      \/ mem.blk[p].ref = 1 /\ mem'.blk[p].free]_mem
=============================================================================
