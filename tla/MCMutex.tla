------------------------------ MODULE MCMutex -------------------------------
EXTENDS Mutex, TLC
CONSTANTS t1, t2, t3
MCTasks == {t1, t2, t3}
Symmetry == Permutations(MCTasks)
=============================================================================
