------------------------------ MODULE PageTable ------------------------------
(***************************************************************************)
(* The page tables of one address space: mmu_walk, mmu_add_map and         *)
(* mmu_remove_map of kernel/arch/x86_64/mm/vmm_mmu.c.  They run under the  *)
(* address space's lock.  There are Levels tables below the root (3 on     *)
(* x86_64); a virtual page is its sequence of indices.  Huge pages occur   *)
(* only in the kernel's half and are left out.                             *)
(*                                                                         *)
(* A table page counts its users in the page allocator's ref_count; each   *)
(* mapping records one use of each table for each of its pages.            *)
(***************************************************************************)
EXTENDS Integers, Sequences, FiniteSets, SequencesExt

CONSTANTS Levels, Idx, Tables, Root, None,
          Maps,       \* names of mappings, and of the frames they map
          Runs,       \* the runs of pages that callers map
          AllocFails  \* whether kheap_alloc may fail: a set of cases

ASSUME PageTableAssumption ==
    /\ Levels \in Nat \ {0} /\ IsFiniteSet(Tables) /\ Root \notin Tables
    /\ None \notin Tables \cup Maps /\ AllocFails \subseteq BOOLEAN
    /\ \A r \in Runs : \A i \in 1..Len(r) : r[i] \in [1..(Levels + 1) -> Idx]

VARIABLES ref,    \* ref_count of the table pages; 0 is a free page
          ent,    \* entries: the next table or the frame
          up,     \* on_pte_ptr: the entry that leads to a table
          map,    \* live mappings: their pages and the tables they recorded
          oom     \* kheap_alloc may fail in this behaviour

vars == <<ref, ent, up, map, oom>>

Absent == [pages |-> <<>>, blocks |-> <<>>]
NoEntries == [i \in Idx |-> None]

Init ==
    /\ ref = [t \in Tables |-> 0]
    /\ ent = [t \in Tables \cup {Root} |-> NoEntries]
    /\ up = [t \in Tables |-> None]
    /\ map = [m \in Maps |-> Absent]
    /\ oom \in AllocFails

-----------------------------------------------------------------------------
\* The operations below map a record of the variables to a new one.
State == [ref |-> ref, ent |-> ent, up |-> up, blocks |-> <<>>, cur |-> Root, left |-> 0, err |-> FALSE]

\* kheap_free of a table page; the model forgets what a free page holds.
Drop(s, t) ==
    IF s.ref[t] = 1
    THEN [s EXCEPT !.ref[t] = 0, !.ent[t] = NoEntries, !.up[t] = None]
    ELSE [s EXCEPT !.ref[t] = @ - 1]

\* mmu_clear_pte of the entry that leads to t.  Tables are given up from the
\* root down, so the entry may be in a page that is free by now.
Clear(s, t) ==
    LET p == s.up[t]
    IN  IF p[1] # Root /\ s.ref[p[1]] = 0 THEN s
        ELSE [s EXCEPT !.ent[p[1]][p[2]] = None]

\* alloc_page_table_page, with the entry and the back pointer set
NewTable(s, i) ==
    LET t == CHOOSE u \in Tables : s.ref[u] = 0
    IN  [s EXCEPT !.ref[t] = 1, !.ent[s.cur][i] = t, !.up[t] = <<s.cur, i>>,
                  !.blocks = Append(@, t), !.cur = t, !.left = @ - 1]

\* walk_pml4, walk_pdpt and walk_pd: go down one level, creating the table
\* if it is missing.
WalkLevel(s, i) ==
    LET t == s.ent[s.cur][i]
    IN  IF s.err THEN s
        ELSE IF t # None
        THEN [s EXCEPT !.ref[t] = @ + 1, !.blocks = Append(@, t), !.cur = t]
        ELSE IF s.left = 0 \/ \A u \in Tables : s.ref[u] > 0
        THEN [s EXCEPT !.err = TRUE]
        ELSE NewTable(s, i)

\* mmu_walk for one page; on failure walk_error gives up this page's tables.
MWalk(s, page) ==
    LET r == FoldLeft(LAMBDA x, l : WalkLevel(x, page[l]),
                      [s EXCEPT !.cur = Root, !.blocks = <<>>],
                      [l \in 1..Levels |-> l])
    IN  [r EXCEPT !.blocks = IF r.err THEN s.blocks ELSE s.blocks \o @]
Walk(s, page) ==
    LET r == FoldLeft(LAMBDA x, l : WalkLevel(x, page[l]),
                      [s EXCEPT !.cur = Root, !.blocks = <<>>],
                      [l \in 1..Levels |-> l])
    IN  IF r.err THEN [FoldLeft(Drop, r, r.blocks) EXCEPT !.blocks = s.blocks]
        ELSE [r EXCEPT !.blocks = s.blocks \o @]

\* One page of the loop in mmu_add_map.
MapPage(s, page, m) ==
    IF s.err THEN s
    ELSE LET r == Walk(s, page)
         IN  IF r.err THEN r
             ELSE [r EXCEPT !.ent[r.cur][page[Levels + 1]] = m]

\* The loop of mmu_remove_map, and of the rollback in mmu_add_map.
MRelease(s, blocks) == FoldLeft(LAMBDA x, t : Drop(x, t), s, blocks)
Release(s, blocks) == FoldLeft(LAMBDA x, t : Drop(Clear(x, t), t), s, blocks)

Become(s) == ref' = s.ref /\ ent' = s.ent /\ up' = s.up

Pages(m) == {map[m].pages[i] : i \in 1..Len(map[m].pages)}

\* The entries the processor meets when it translates a page.
Path(page) ==
    FoldLeft(LAMBDA p, l : IF p[Len(p)] = None THEN p
                           ELSE Append(p, ent[p[Len(p)]][page[l]]),
             <<ent[Root][page[1]]>>, [l \in 1..Levels |-> l + 1])

Translation(page) == LET p == Path(page) IN IF Len(p) = Levels + 1 THEN p[Len(p)] ELSE None

\* No page is reached through a table that was freed.
Sound ==
    \A r \in Runs : \A i \in 1..Len(r) :
        \A k \in 1..(Len(Path(r[i])) - 1) : ref[Path(r[i])[k]] > 0

\* The loop of mmu_add_map over pages that are in no other area; n
\* allocations succeed.  What a freed table holds is up to its next owner, so
\* the model ends where one could be walked.
MapLoop(m, run, n) ==
    FoldLeft(LAMBDA x, p : MapPage(x, p, m), [State EXCEPT !.left = n], run)

CanAdd(m, run) ==
    /\ map[m] = Absent /\ Sound
    /\ \A o \in Maps : Pages(o) \cap {run[i] : i \in 1..Len(run)} = {}

\* mmu_add_map
AddMap(m, run, n) ==
    /\ CanAdd(m, run)
    /\ LET s == MapLoop(m, run, n)
       IN  /\ ~s.err /\ Become(s)
           /\ map' = [map EXCEPT ![m] = [pages |-> run, blocks |-> s.blocks]]
    /\ UNCHANGED oom

\* mmu_add_map that runs out of memory and rolls back
AddMapFails(m, run, n) ==
    /\ CanAdd(m, run)
    /\ LET s == MapLoop(m, run, n) IN s.err /\ Become(Release(s, s.blocks))
    /\ UNCHANGED <<map, oom>>

\* mmu_remove_map
RemoveMap(m) ==
    /\ map[m] # Absent
    /\ Become(Release(State, map[m].blocks))
    /\ map' = [map EXCEPT ![m] = Absent]
    /\ UNCHANGED oom

\* A run of two pages needs at most 2 * Levels new tables.
Budgets == IF oom THEN 0..(2 * Levels) ELSE {2 * Levels}

Next ==
    \E m \in Maps :
        \/ \E run \in Runs, n \in Budgets :
            AddMap(m, run, n) \/ AddMapFails(m, run, n)
        \/ RemoveMap(m)

Spec == Init /\ [][Next]_vars

-----------------------------------------------------------------------------
TypeOK ==
    /\ ref \in [Tables -> Nat] /\ oom \in AllocFails
    /\ ent \in [Tables \cup {Root} -> [Idx -> Tables \cup Maps \cup {None}]]
    /\ up \in [Tables -> {None} \cup ((Tables \cup {Root}) \X Idx)]

Uses(t, m) == Cardinality({i \in 1..Len(map[m].blocks) : map[m].blocks[i] = t})

\* A table page's count is the number of uses that live mappings recorded: it
\* is freed with its last user and not before, also when mmu_add_map fails
\* half way and walk_error and the rollback give up what was counted.
RefsExact ==
    /\ TypeOK
    /\ \A t \in Tables : ref[t] = FoldLeft(LAMBDA n, m : n + Uses(t, m), 0, SetToSeq(Maps))

\* While memory lasts nothing is reached through an entry whose table was
\* freed: mmu_remove_map leaves no entry that leads to a table it gave up.
EntriesLive == ~oom => Sound

\* While memory lasts a page translates to the frame of the mapping it
\* belongs to or not at all: mmu_remove_map leaves nothing behind in shared
\* tables.
NoStrayTranslation ==
    ~oom => \A r \in Runs : \A i \in 1..Len(r) :
               Translation(r[i]) # None => r[i] \in Pages(Translation(r[i]))
=============================================================================
