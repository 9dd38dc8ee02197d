------------------------------ MODULE MCSched -------------------------------
EXTENDS Sched, TLC
CONSTANTS t1, t2, t3, t4
MCTasks == {t1, t2, t3, t4}
MCCPUs == {0, 1, 2}
\* Two loaded CPUs and one that looks for work; everything on the boot CPU.
Spread == 0 :> <<t1, t2>> @@ 1 :> <<t3, t4>> @@ 2 :> <<>>
Boot == 0 :> <<t1, t2, t3>> @@ 1 :> <<>> @@ 2 :> <<>>
\* Tasks that compute and sleep; tasks that also exit and wake others.
MCLoads == {[online |-> {0, 1, 2}, sleepers |-> {t1}, exiters |-> {}, wakers |-> {},
             queue |-> Spread],
            [online |-> {0, 1}, sleepers |-> {t1}, exiters |-> {t3}, wakers |-> {t3},
             queue |-> Boot]}
=============================================================================
