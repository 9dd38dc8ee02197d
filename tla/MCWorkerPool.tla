---------------------------- MODULE MCWorkerPool -----------------------------
EXTENDS WorkerPool
CONSTANTS w1, w2, s1, s2
MCWorkers == {w1, w2}
MCSubmitters == {s1, s2}
=============================================================================
