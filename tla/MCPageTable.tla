---------------------------- MODULE MCPageTable ------------------------------
EXTENDS PageTable, TLC
CONSTANTS t1, t2, t3, t4, t5, t6, t7, t8, m1, m2, m3
MCTables == {t1, t2, t3, t4, t5, t6, t7, t8}
MCMaps == {m1, m2, m3}
MCSym == Permutations(MCMaps)
\* Two tables below the root: pages with a common last table, with a common
\* upper table only, with neither, and a run over two last tables.
MCRuns == {<< <<1, 1, 1>> >>, << <<1, 2, 2>> >>, << <<2, 1, 1>> >>,
           << <<1, 1, 2>>, <<1, 2, 1>> >>}
=============================================================================
