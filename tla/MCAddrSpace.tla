---------------------------- MODULE MCAddrSpace ------------------------------
EXTENDS AddrSpace, TLC
CONSTANTS t1, t2, f1, f2, f3, o1, o2, a1, a2
MCSym == Permutations({f1, f2, f3}) \cup Permutations({o1, o2})
Rw == {"r", "w", "u"}
Ro == {"r", "u"}
Req(s, e, prot, alloc, file) ==
    [start |-> s, end |-> e, prot |-> prot, alloc |-> alloc, file |-> file]
\* Single pages with and without write permission, preallocated, or of a file.
Single == {Req(1, 2, Rw, FALSE, FALSE), Req(1, 2, Ro, FALSE, FALSE), Req(2, 3, Rw, TRUE, FALSE),
           Req(1, 2, Ro, FALSE, TRUE)}
\* An area of two pages, as the user stack, and single pages.
Mixed == {Req(1, 3, Rw, FALSE, FALSE), Req(2, 3, Ro, FALSE, FALSE), Req(1, 2, Rw, TRUE, FALSE)}
MCLoads == {[threads |-> {t1, t2}, forks |-> {t1, t2}, slot |-> [p \in Pages |-> 1], requests |-> Mixed],
            [threads |-> {t1}, forks |-> {}, slot |-> [p \in Pages |-> p], requests |-> Single]}
=============================================================================
