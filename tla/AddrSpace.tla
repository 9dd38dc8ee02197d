------------------------------ MODULE AddrSpace ------------------------------
(***************************************************************************)
(* Demand paging: the threads of some address spaces touch, map and unmap  *)
(* memory.  The model follows vmm_handle_fault, vmm_map_anon, vmm_map_file,*)
(* vmm_copy_as and vmm_destroy_as (kernel/mm/vmm_map.c) with vma_read_page,*)
(* as_unmap, vma_remove and as_cleanup (kernel/mm/vmm_as.c).               *)
(*                                                                         *)
(* The handler holds the lock of the address space twice and reads the     *)
(* page in between: FaultBegin, ReadPage and Install are its three steps;  *)
(* every other operation runs under the lock.  A page faulted on with no   *)
(* area, or without permission, changes no memory and is left out.         *)
(*                                                                         *)
(* Page tables are what module PageTable shows of them: mmu_remove_map     *)
(* takes away every translation under the same top-level entry (a slot).   *)
(***************************************************************************)
EXTENDS Integers, Sequences, FiniteSets

CONSTANTS Spaces, Threads, Frames, Objs, Pages, Values, None,
          Unaligned,  \* offsets of accesses in the page: TRUE is not 0
          Loads       \* what programs do in a behaviour

ASSUME AddrSpaceAssumption ==
    /\ Unaligned \subseteq BOOLEAN /\ 0 \in Values
    /\ \A l \in Loads :
          /\ l.threads \subseteq Threads      \* threads of the first address space
          /\ l.forks \subseteq Threads        \* threads that copies are made for
          /\ l.slot \in [Pages -> Nat]       \* top-level entry of each page
          /\ \A r \in l.requests :           \* mappings that callers ask for
                {r.start, r.end - 1} \subseteq Pages

VARIABLES vma,      \* the vm_area_t objects; None is free memory
          pt,       \* translation of each page: frame and permissions
          content,  \* what the frames hold
          free,     \* free frames
          th,       \* the threads and the locals of the fault handler
          mem,      \* what user code last wrote to each page (history)
          load      \* what programs do, fixed for a behaviour

vars == <<vma, pt, content, free, th, mem, load>>
Slot(p) == load.slot[p]

Out == [pc |-> "out", as |-> None]
Running(a) == [pc |-> "run", as |-> a]

Init ==
    /\ vma = [o \in Objs |-> None] /\ pt = [a \in Spaces |-> [p \in Pages |-> None]]
    /\ content \in [Frames -> {0}] /\ free = Frames /\ load \in Loads
    /\ \E a \in Spaces : th = [t \in Threads |-> IF t \in load.threads THEN Running(a) ELSE Out]
    /\ mem = [a \in Spaces |-> [p \in Pages |-> 0]]

-----------------------------------------------------------------------------
Live == {o \in Objs : vma[o] # None}
AreasOf(a) == {o \in Live : vma[o].as = a}

\* vma_find
Find(a, p) == {o \in AreasOf(a) : vma[o].start <= p /\ p < vma[o].end}

\* A user access that the processor lets pass.
Allowed(a, p, acc) == pt[a][p] # None /\ {acc, "u"} \subseteq pt[a][p].prot

Store(t, p, v) ==
    /\ th[t].pc = "run" /\ Allowed(th[t].as, p, "w")
    /\ content' = [content EXCEPT ![pt[th[t].as][p].frame] = v]
    /\ mem' = [mem EXCEPT ![th[t].as][p] = v]
    /\ UNCHANGED <<vma, pt, free, th, load>>

\* First locked section of vmm_handle_fault.
FaultBegin(t, p, acc, un) ==
    /\ th[t].pc = "run" /\ ~Allowed(th[t].as, p, acc)
    /\ \E o \in Find(th[t].as, p) :
          /\ acc \in vma[o].prot
          /\ th' = [th EXCEPT ![t] = [pc |-> "read", as |-> @.as, obj |-> o, page |-> p,
                       acc |-> acc, un |-> un, start |-> vma[o].start, end |-> vma[o].end,
                       prot |-> vma[o].prot, frame |-> None]]
    /\ UNCHANGED <<vma, pt, content, free, mem, load>>

Fails(t) == th' = [th EXCEPT ![t] = Running(@.as)]

\* vma_read_page of an anonymous area: zeros, or a copy that starts at the
\* faulting address in the block the area was last given.
MCopied(o, p, un, c) ==
    LET b == vma[o].linear
        i == p - vma[o].start + 1
    IN  b # <<>> /\ i <= Len(b) /\ ~un => c = content[b[i]]
Copied(o, p, un, c) ==
    LET b == vma[o].linear
        i == p - vma[o].start + 1
    IN  IF b = <<>> THEN c = 0
        ELSE i <= Len(b) /\ ~un => c = content[b[i]]

\* kheap_alloc and vma_read_page, without the lock.  vma_read_page refuses a
\* page that is not in the area the object holds by now.  A thread whose next
\* step has no defined result is lost.
ReadPage(t) ==
    LET l == th[t]
        o == l.obj
        lost(why) == th' = [th EXCEPT ![t].pc = why] /\ UNCHANGED <<content, free>>
    IN  /\ l.pc = "read" /\ free # {}
        /\ UNCHANGED <<vma, pt, mem, load>>
        /\ \/ vma[o] = None /\ lost("freed area")
           \/ /\ vma[o] # None /\ l.page \notin vma[o].start..(vma[o].end - 1)
              /\ Fails(t) /\ UNCHANGED <<content, free>>
           \/ /\ vma[o] # None /\ l.page \in vma[o].start..(vma[o].end - 1)
              /\ \/ vma[o].file /\ lost("no file")
                 \/ /\ ~vma[o].file
                    /\ \E f \in free, c \in Values :
                          /\ Copied(o, l.page, l.un, c)
                          /\ free' = free \ {f} /\ content' = [content EXCEPT ![f] = c]
                          /\ th' = [th EXCEPT ![t].pc = "map", ![t].frame = f]

NoMemory(t) ==
    /\ th[t].pc = "read" /\ free = {} /\ Fails(t)
    /\ UNCHANGED <<vma, pt, content, free, mem, load>>

Same(o, l) == vma[o].start = l.start /\ vma[o].end = l.end

\* Second locked section: mmu_add_map and vma_set_map.
MInstall(t) ==
    LET l == th[t]
    IN  /\ l.pc = "map"
        /\ pt' = [pt EXCEPT ![l.as][l.page] = [frame |-> l.frame, prot |-> l.prot]]
        /\ vma' = [vma EXCEPT ![l.obj] = IF @ = None THEN None ELSE
                                         [@ EXCEPT !.linear = <<l.frame>>, !.ptb = {Slot(l.page)}]]
        /\ Fails(t)
        /\ UNCHANGED <<content, free, mem, load>>
MInstallUnrecorded(t) ==
    LET l == th[t]
    IN  /\ l.pc = "map"
        /\ \E o \in Find(l.as, l.page) : Same(o, l)
        /\ pt' = [pt EXCEPT ![l.as][l.page] = [frame |-> l.frame, prot |-> l.prot]]
        /\ Fails(t)
        /\ UNCHANGED <<vma, content, free, mem, load>>
Install(t) ==
    LET l == th[t]
    IN  /\ l.pc = "map"
        /\ \E o \in Find(l.as, l.page) :
              /\ Same(o, l)
              /\ vma' = [vma EXCEPT ![o].linear = <<l.frame>>, ![o].ptb = {Slot(l.page)}]
        /\ pt' = [pt EXCEPT ![l.as][l.page] = [frame |-> l.frame, prot |-> l.prot]]
        /\ Fails(t)
        /\ UNCHANGED <<content, free, mem, load>>

\* The area changed, or there is no memory for page tables.
Abandon(t) ==
    /\ th[t].pc = "map" /\ free' = free \cup {th[t].frame} /\ Fails(t)
    /\ UNCHANGED <<vma, pt, content, mem, load>>

-----------------------------------------------------------------------------
\* vma_add with vma_set_anon or vma_set_file, which clears anon_vma last and
\* with it the pointer to the file that shares its place.
Area(a, r, b) == [as |-> a, start |-> r.start, end |-> r.end, prot |-> r.prot,
                  file |-> r.file, linear |-> b,
                  ptb |-> IF b = <<>> THEN {} ELSE {Slot(r.start)}]

\* What a new anonymous area holds: zeros, or what its block held.
Fresh(a, r, b) ==
    [mem EXCEPT ![a] = [p \in Pages |->
        IF p \in r.start..(r.end - 1)
        THEN IF b = <<>> THEN 0 ELSE content[b[p - r.start + 1]] ELSE @[p]]]

Blocks(r) == IF r.alloc THEN {b \in [1..(r.end - r.start) -> free] :
                                 \A i, j \in DOMAIN b : b[i] = b[j] => i = j}
             ELSE {<<>>}

\* vmm_map_anon, and vmm_map_file, which opens the file first.
Map(t, r) ==
    LET a == th[t].as
    IN  /\ th[t].pc = "run"
        /\ \A p \in r.start..(r.end - 1) : Find(a, p) = {}
        /\ \E o \in Objs \ Live, b \in Blocks(r) :
              /\ vma' = [vma EXCEPT ![o] = Area(a, r, b)]
              /\ free' = free \ {b[i] : i \in DOMAIN b}
              /\ pt' = IF b = <<>> THEN pt
                       ELSE [pt EXCEPT ![a] = [p \in Pages |->
                                IF p \in r.start..(r.end - 1)
                                THEN [frame |-> b[p - r.start + 1], prot |-> r.prot] ELSE @[p]]]
              /\ mem' = Fresh(a, r, b)
        /\ UNCHANGED <<content, th, load>>

FramesIn(O) == UNION {{vma[o].linear[i] : i \in 1..Len(vma[o].linear)} : o \in O}

\* mmu_remove_map of what the area recorded
Without(a, slots) == [pt EXCEPT ![a] = [p \in Pages |-> IF Slot(p) \in slots THEN None ELSE @[p]]]

\* as_unmap
MUnmap(t, p) ==
    /\ th[t].pc = "run"
    /\ \E o \in Find(th[t].as, p) :
          /\ free' = free \cup FramesIn({o})
          /\ vma' = [vma EXCEPT ![o] = None]
    /\ UNCHANGED <<pt, content, th, mem, load>>
Unmap(t, p) ==
    /\ th[t].pc = "run"
    /\ \E o \in Find(th[t].as, p) :
          /\ pt' = Without(th[t].as, vma[o].ptb)
          /\ free' = free \cup FramesIn({o})
          /\ vma' = [vma EXCEPT ![o] = None]
    /\ UNCHANGED <<content, th, mem, load>>

\* vmm_destroy_as by a task that ends; the last one cleans up.
MExit(t) ==
    LET a == th[t].as
        gone == AreasOf(a)
    IN  /\ th[t].pc = "run" /\ th' = [th EXCEPT ![t] = Out]
        /\ vma' = [o \in Objs |-> IF o \in gone THEN None ELSE vma[o]]
        /\ free' = free \cup FramesIn(gone)
        /\ UNCHANGED <<pt, content, mem, load>>
Exit(t) ==
    LET a == th[t].as
        gone == IF \E u \in Threads \ {t} : th[u].as = a THEN {} ELSE AreasOf(a)
    IN  /\ th[t].pc = "run" /\ th' = [th EXCEPT ![t] = Out]
        /\ vma' = [o \in Objs |-> IF o \in gone THEN None ELSE vma[o]]
        /\ free' = free \cup FramesIn(gone)
        /\ pt' = IF \E u \in Threads \ {t} : th[u].as = a THEN pt
                 ELSE [pt EXCEPT ![a] = [p \in Pages |-> None]]
        /\ UNCHANGED <<content, mem, load>>

\* vmm_copy_as for a new task: the areas are copied, the pages are not.
Copy(t, u, a) ==
    /\ th[t].pc = "run" /\ u \in load.forks /\ th[u] = Out /\ \A x \in Threads : th[x].as # a
    /\ \A o \in AreasOf(th[t].as) : ~vma[o].file
    /\ \E f \in [AreasOf(th[t].as) -> Objs \ Live] :
          /\ \A o, q \in DOMAIN f : f[o] = f[q] => o = q
          /\ vma' = [q \in Objs |->
                       IF \E o \in DOMAIN f : f[o] = q
                       THEN [vma[CHOOSE o \in DOMAIN f : f[o] = q]
                               EXCEPT !.as = a, !.linear = <<>>, !.ptb = {}]
                       ELSE vma[q]]
    /\ mem' = [mem EXCEPT ![a] = mem[th[t].as]]
    /\ th' = [th EXCEPT ![u] = Running(a)]
    /\ UNCHANGED <<pt, content, free, load>>

Next ==
    \E t \in Threads :
        \/ \E p \in Pages, v \in Values : Store(t, p, v)
        \/ \E p \in Pages, acc \in {"r", "w"}, un \in Unaligned : FaultBegin(t, p, acc, un)
        \/ ReadPage(t)
        \/ NoMemory(t)
        \/ Install(t)
        \/ Abandon(t)
        \/ \E r \in load.requests : Map(t, r)
        \/ \E p \in Pages : Unmap(t, p)
        \/ Exit(t)
        \/ \E u \in Threads, a \in Spaces : Copy(t, u, a)

Spec == Init /\ [][Next]_vars

-----------------------------------------------------------------------------
\* Frames that page tables lead to, counted once for each page.
Mapped == {x \in Spaces \X Pages : pt[x[1]][x[2]] # None}
FrameAt(x) == pt[x[1]][x[2]].frame

\* No page leads to a frame that was given back to the allocator.
FramesLive == \A x \in Mapped : FrameAt(x) \notin free

\* No frame belongs to two pages or to two areas: what one task writes no
\* other page shows.
FramesUnshared ==
    /\ \A x, y \in Mapped : FrameAt(x) = FrameAt(y) => x = y
    /\ \A o, q \in Live : o # q => FramesIn({o}) \cap FramesIn({q}) = {}

\* A single thread, and pages with top-level entries and areas of their own.
Apart ==
    /\ Cardinality(load.threads) = 1 /\ load.forks = {}
    /\ \A p, q \in Pages : Slot(p) = Slot(q) => p = q
    /\ \A r \in load.requests : r.end = r.start + 1

\* A page shows what was last written to it, whatever was faulted in, mapped
\* and unmapped since.
DataKept == Apart => \A x \in Mapped : content[FrameAt(x)] = mem[x[1]][x[2]]

\* Only pages of an area are mapped: a fault that was under way when its area
\* was unmapped leaves nothing behind.  A single thread's pages also have the
\* permissions of their area, not those of an earlier one at its place.
PagesMatchAreas == \A x \in Mapped :
    /\ Find(x[1], x[2]) # {}
    /\ Apart => \A o \in Find(x[1], x[2]) : pt[x[1]][x[2]].prot = vma[o].prot

\* Every frame in use is one that an area or a running fault will free.
FramesOwned ==
    Apart => Frames \ free
             = FramesIn(Live) \cup {th[t].frame : t \in {u \in Threads : th[u].pc = "map"}}
=============================================================================
