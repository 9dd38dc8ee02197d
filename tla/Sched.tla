------------------------------- MODULE Sched --------------------------------
(***************************************************************************)
(* Round-robin scheduling, sleep and wake-up, task exit and load balancing *)
(* across CPUs: kernel/task/core.c and kernel/task/scheduler/rr.c.         *)
(*                                                                         *)
(* task_sched runs with interrupts off on its CPU and is split where       *)
(* another CPU can interfere: the pick, the reading of the other CPUs'     *)
(* loads, the compare-and-swap on the target's migration state, the wait   *)
(* for the target, and the switch.  need_sched is never cleared, so any    *)
(* interrupt may call task_sched.  The uint64_t nr_running is kept modulo  *)
(* Word, which stands for 2^64 and only has to exceed every queue length.  *)
(* A task resumes where it was interrupted, possibly on another CPU, so    *)
(* the progress of a wake-up belongs to the task that makes it.            *)
(***************************************************************************)
EXTENDS Integers, Sequences, FiniteSets, FiniteSetsExt, SequencesExt

CONSTANTS CPUs,          \* logical CPU ids
          Tasks,
          Idle,          \* stands for the idle task of each CPU
          Free,          \* MIG_STATE_PACK(0xFFFFFFFF, 0)
          Loads,         \* what the tasks do: see Load
          RacyWake,      \* a wake-up may reach a task not yet switched away
          MigrateAbove,  \* queues up to this length are left alone (2)
          Word           \* stands for 2^64

\* A workload: the CPUs that are up, the tasks that call task_sleep, task_exit
\* and, with interrupts on, task_wakeup, and the run queues at the start.
Load == [online : SUBSET CPUs, sleepers : SUBSET Tasks, exiters : SUBSET Tasks,
         wakers : SUBSET Tasks, queue : [CPUs -> Seq(Tasks)]]

ASSUME SchedAssumption ==
    /\ CPUs \subseteq Nat /\ Idle \notin Tasks /\ Free \notin CPUs
    /\ Cardinality(Tasks) < Word
    /\ Loads \subseteq Load

VARIABLES rq,     \* per-CPU run_queue
          nr,     \* per-CPU nr_running
          cur,    \* per-CPU current
          next,   \* the task task_sched has picked
          mig,    \* per-CPU migration list
          info,   \* migration_ptr->infos[c]: Free, or the sender
          ipi,    \* IRQ_MIGRATION is pending
          cpc,    \* where each CPU is in task_sched
          cand,   \* the best and second-best CPU still to be tried
          st,     \* task->state
          load,   \* the workload of this behaviour
          inc     \* the nr_running an interrupted rr_enqueue has read, or -1

cpuVars == <<cur, next, mig, info, ipi, cpc, cand>>
vars == <<rq, nr, st, inc, load, cpuVars>>

Init ==
    /\ load \in Loads
    /\ rq = load.queue
    /\ nr = [c \in CPUs |-> Len(rq[c])]
    /\ cur = [c \in CPUs |-> Idle]
    /\ next = [c \in CPUs |-> Idle]
    /\ mig = [c \in CPUs |-> <<>>]
    /\ info = [c \in CPUs |-> Free]
    /\ ipi = [c \in CPUs |-> FALSE]
    /\ cpc = [c \in CPUs |-> IF c \in load.online THEN "run" ELSE "off"]
    /\ cand = [c \in CPUs |-> <<>>]
    /\ st = [t \in Tasks |-> IF \E c \in CPUs : t \in Range(rq[c]) THEN "running" ELSE "none"]
    /\ inc = [t \in Tasks |-> -1]

\* rr_enqueue on the caller's own CPU.
Enqueue(c, t) ==
    /\ rq' = [rq EXCEPT ![c] = Append(@, t)]
    /\ nr' = [nr EXCEPT ![c] = (@ + 1) % Word]

-----------------------------------------------------------------------------
\* task_sched up to pick_next: a task that is still TASK_RUNNING goes to the
\* tail, the head is taken; with an empty queue idle is picked and the CPU
\* looks for work elsewhere.
MSchedPickForget(c) ==
    /\ cpc[c] = "run"
    /\ rq[c] # <<>>
    /\ cpc' = [cpc EXCEPT ![c] = "switch"]
    /\ next' = [next EXCEPT ![c] = Head(rq[c])]
    /\ rq' = [rq EXCEPT ![c] = Tail(@)]
    /\ nr' = [nr EXCEPT ![c] = (@ - 1) % Word]
    /\ UNCHANGED <<cur, mig, info, ipi, cand, st, inc, load>>
MSchedPickCount(c) ==
    /\ cpc[c] = "run"
    /\ LET q == IF cur[c] \in Tasks /\ st[cur[c]] = "running"
                  THEN Append(rq[c], cur[c]) ELSE rq[c]
       IN  /\ q # <<>>
           /\ next' = [next EXCEPT ![c] = Head(q)]
           /\ rq' = [rq EXCEPT ![c] = Tail(q)]
    /\ cpc' = [cpc EXCEPT ![c] = "switch"]
    /\ nr' = [nr EXCEPT ![c] = @ - 1]
    /\ UNCHANGED <<cur, mig, info, ipi, cand, st, inc, load>>
MSchedPickStack(c) ==
    /\ cpc[c] = "run"
    /\ LET again == cur[c] \in Tasks /\ st[cur[c]] = "running"
           q == IF again THEN <<cur[c]>> \o rq[c] ELSE rq[c]
       IN  /\ q # <<>>
           /\ cpc' = [cpc EXCEPT ![c] = "switch"]
           /\ next' = [next EXCEPT ![c] = Head(q)]
           /\ rq' = [rq EXCEPT ![c] = Tail(q)]
           /\ nr' = [nr EXCEPT ![c] = (@ + Len(q) - Len(rq[c]) - 1) % Word]
    /\ UNCHANGED <<cur, mig, info, ipi, cand, st, inc, load>>
MSchedPickEager(c) ==
    /\ cpc[c] = "run"
    /\ cpc' = [cpc EXCEPT ![c] = "look"]
    /\ UNCHANGED <<rq, nr, cur, next, mig, info, ipi, cand, st, inc, load>>
SchedPick(c) ==
    /\ cpc[c] = "run"
    /\ LET again == cur[c] \in Tasks /\ st[cur[c]] = "running"
           q == IF again THEN Append(rq[c], cur[c]) ELSE rq[c]
       IN  IF q = <<>>
             THEN /\ cpc' = [cpc EXCEPT ![c] = "look"]
                  /\ UNCHANGED <<rq, nr, next>>
             ELSE /\ cpc' = [cpc EXCEPT ![c] = "switch"]
                  /\ next' = [next EXCEPT ![c] = Head(q)]
                  /\ rq' = [rq EXCEPT ![c] = Tail(q)]
                  /\ nr' = [nr EXCEPT ![c] = (@ + Len(q) - Len(rq[c]) - 1) % Word]
    /\ UNCHANGED <<cur, mig, info, ipi, cand, st, inc, load>>

\* The lowest-numbered of the most loaded CPUs of S.
MostLoaded(S) == Min({i \in S : \A j \in S : nr[j] <= nr[i]})

\* task_try_migration reads the loads and keeps the best and the second best.
MigLook(c) ==
    /\ cpc[c] = "look"
    /\ LET busy == {i \in CPUs \ {c} : nr[i] > MigrateAbove}
           rest == busy \ {MostLoaded(busy)}
       IN  cand' = [cand EXCEPT ![c] =
                      IF busy = {} THEN <<>>
                      ELSE IF rest = {} THEN <<MostLoaded(busy)>>
                      ELSE <<MostLoaded(busy), MostLoaded(rest)>>]
    /\ cpc' = [cpc EXCEPT ![c] = "cas"]
    /\ UNCHANGED <<rq, nr, cur, next, mig, info, ipi, st, inc, load>>

\* The compare-and-swap that claims a target, and the interrupt sent to it.
MigClaim(c) ==
    /\ cpc[c] = "cas"
    /\ cand[c] # <<>>
    /\ info[Head(cand[c])] = Free
    /\ info' = [info EXCEPT ![Head(cand[c])] = c]
    /\ ipi' = [ipi EXCEPT ![Head(cand[c])] = TRUE]
    /\ cpc' = [cpc EXCEPT ![c] = "wait"]
    /\ UNCHANGED <<rq, nr, cur, next, mig, cand, st, inc, load>>

\* The target is paired already: try the second best, or give up.
MigMiss(c) ==
    /\ cpc[c] = "cas"
    /\ cand[c] # <<>> => info[Head(cand[c])] # Free
    /\ cand' = [cand EXCEPT ![c] = IF @ = <<>> THEN @ ELSE Tail(@)]
    /\ cpc' = [cpc EXCEPT ![c] = IF Len(cand[c]) < 2 THEN "switch" ELSE "cas"]
    /\ UNCHANGED <<rq, nr, cur, next, mig, info, ipi, st, inc, load>>

\* The target's state is seen inactive: enqueue what it pushed.
MMigDrain(c) ==
    /\ cpc[c] = "wait"
    /\ rq' = [rq EXCEPT ![c] = @ \o mig[c]]
    /\ nr' = [nr EXCEPT ![c] = (@ + Len(mig[c])) % Word]
    /\ mig' = [mig EXCEPT ![c] = <<>>]
    /\ cand' = [cand EXCEPT ![c] = <<>>]
    /\ cpc' = [cpc EXCEPT ![c] = "switch"]
    /\ UNCHANGED <<cur, next, info, ipi, st, inc, load>>
MigDrain(c) ==
    /\ cpc[c] = "wait"
    /\ info[Head(cand[c])] = Free
    /\ rq' = [rq EXCEPT ![c] = @ \o mig[c]]
    /\ nr' = [nr EXCEPT ![c] = (@ + Len(mig[c])) % Word]
    /\ mig' = [mig EXCEPT ![c] = <<>>]
    /\ cand' = [cand EXCEPT ![c] = <<>>]
    /\ cpc' = [cpc EXCEPT ![c] = "switch"]
    /\ UNCHANGED <<cur, next, info, ipi, st, inc, load>>

\* switch_to: from here on the CPU runs the picked task.
Switch(c) ==
    /\ cpc[c] = "switch"
    /\ cur' = [cur EXCEPT ![c] = next[c]]
    /\ next' = [next EXCEPT ![c] = Idle]
    /\ cpc' = [cpc EXCEPT ![c] = "run"]
    /\ UNCHANGED <<rq, nr, mig, info, ipi, cand, st, inc, load>>

\* task_do_migration, the handler of IRQ_MIGRATION: half of the queue, taken
\* from the tail, goes to the sender.  If nr_running exceeds what is queued,
\* rr_dequeue_tail returns NULL and the handler faults on it.
MMigIrq(c) ==
    /\ cpc[c] = "run"
    /\ ipi[c]
    /\ ipi' = [ipi EXCEPT ![c] = FALSE]
    /\ info' = [info EXCEPT ![c] = Free]
    /\ LET take == Len(rq[c]) \div 2
           keep == Len(rq[c]) - take
       IN  /\ rq' = [rq EXCEPT ![c] = SubSeq(@, 1, keep)]
           /\ nr' = [nr EXCEPT ![c] = @ - take]
           /\ mig' = IF info[c] = Free THEN mig
                     ELSE [mig EXCEPT ![info[c]] = @ \o SubSeq(rq[c], keep, Len(rq[c]))]
    /\ UNCHANGED <<cur, next, cpc, cand, st, inc, load>>
MigIrq(c) ==
    /\ cpc[c] = "run"
    /\ ipi[c]
    /\ ipi' = [ipi EXCEPT ![c] = FALSE]
    /\ LET take == nr[c] \div 2
           keep == Len(rq[c]) - take
       IN  \/ /\ info[c] = Free \/ nr[c] <= MigrateAbove
              /\ info' = [info EXCEPT ![c] = Free]
              /\ UNCHANGED <<rq, nr, mig, cpc>>
           \/ /\ info[c] # Free /\ nr[c] > MigrateAbove /\ keep >= 0
              /\ rq' = [rq EXCEPT ![c] = SubSeq(@, 1, keep)]
              /\ nr' = [nr EXCEPT ![c] = @ - take]
              /\ mig' = [mig EXCEPT ![info[c]] =
                           @ \o Reverse(SubSeq(rq[c], keep + 1, Len(rq[c])))]
              /\ info' = [info EXCEPT ![c] = Free]
              /\ UNCHANGED cpc
           \/ /\ info[c] # Free /\ nr[c] > MigrateAbove /\ keep < 0
              /\ cpc' = [cpc EXCEPT ![c] = "fault"]
              /\ UNCHANGED <<rq, nr, mig, info>>
    /\ UNCHANGED <<cur, next, cand, st, inc, load>>

-----------------------------------------------------------------------------
\* task_sleep: the task stays current until the next task_sched.
Sleep(c) ==
    /\ cpc[c] = "run"
    /\ cur[c] \in load.sleepers /\ st[cur[c]] = "running" /\ inc[cur[c]] = -1
    /\ st' = [st EXCEPT ![cur[c]] = "sleeping"]
    /\ UNCHANGED <<rq, nr, cpuVars, inc, load>>

MayWake(t) ==
    /\ st[t] = "sleeping"
    /\ RacyWake \/ \A c \in CPUs : cur[c] # t

\* task_wakeup from an interrupt handler on c.
WakeIrq(c, t) ==
    /\ cpc[c] = "run"
    /\ MayWake(t)
    /\ st' = [st EXCEPT ![t] = "running"]
    /\ Enqueue(c, t)
    /\ UNCHANGED <<cpuVars, inc, load>>

\* task_wakeup from a task: rr_enqueue links the node, reads nr_running ...
WakeLink(c, t) ==
    /\ cpc[c] = "run"
    /\ cur[c] \in load.wakers /\ st[cur[c]] = "running" /\ inc[cur[c]] = -1
    /\ MayWake(t)
    /\ st' = [st EXCEPT ![t] = "running"]
    /\ rq' = [rq EXCEPT ![c] = Append(@, t)]
    /\ inc' = [inc EXCEPT ![cur[c]] = nr[c]]
    /\ UNCHANGED <<nr, cpuVars, load>>

\* ... and stores the sum, on the CPU where the task runs by then.
WakeCount(c) ==
    /\ cpc[c] = "run"
    /\ cur[c] \in Tasks /\ inc[cur[c]] # -1
    /\ nr' = [nr EXCEPT ![c] = (inc[cur[c]] + 1) % Word]
    /\ inc' = [inc EXCEPT ![cur[c]] = -1]
    /\ UNCHANGED <<rq, st, cpuVars, load>>

\* task_exit: rr_dequeue of the current task, which is on no queue, unlinks
\* nothing and still decrements nr_running; then the task is a zombie.
Exit(c) ==
    /\ cpc[c] = "run"
    /\ cur[c] \in load.exiters /\ st[cur[c]] = "running" /\ inc[cur[c]] = -1
    /\ nr' = [nr EXCEPT ![c] = (@ - 1) % Word]
    /\ st' = [st EXCEPT ![cur[c]] = "zombie"]
    /\ UNCHANGED <<rq, cpuVars, inc, load>>

CpuStep(c) ==
    \/ SchedPick(c) \/ MigLook(c) \/ MigClaim(c) \/ MigMiss(c) \/ MigDrain(c)
    \/ Switch(c)

Next == \E c \in CPUs :
    \/ CpuStep(c) \/ MigIrq(c) \/ Sleep(c) \/ WakeCount(c) \/ Exit(c)
    \/ \E t \in Tasks : WakeIrq(c, t) \/ WakeLink(c, t)

Spec == Init /\ [][Next]_vars

\* The slice timer keeps interrupting every CPU (rr_set_next_timer arms it on
\* each switch), task_sched runs to its end, and a pending interrupt is taken.
FairSpec == Spec /\ \A c \in CPUs : WF_vars(CpuStep(c)) /\ SF_vars(MigIrq(c))

-----------------------------------------------------------------------------
TypeOK ==
    /\ rq \in [CPUs -> Seq(Tasks)] /\ mig \in [CPUs -> Seq(Tasks)]
    /\ nr \in [CPUs -> 0..(Word - 1)]
    /\ cur \in [CPUs -> Tasks \cup {Idle}] /\ next \in [CPUs -> Tasks \cup {Idle}]
    /\ info \in [CPUs -> CPUs \cup {Free}]
    /\ ipi \in [CPUs -> BOOLEAN]
    /\ cpc \in [CPUs -> {"off", "run", "look", "cas", "wait", "switch", "fault"}]
    /\ cand \in [CPUs -> Seq(CPUs)]
    /\ st \in [Tasks -> {"none", "running", "sleeping", "zombie"}]
    /\ inc \in [Tasks -> -1..(Word - 1)]

\* The CPUs that hold a task: on a queue, on a stack, or about to run it.
Home(t) == {c \in CPUs : t \in {cur[c], next[c]} \cup Range(rq[c]) \cup Range(mig[c])}

\* switch_to saves a task's registers on its own stack: no task may be queued
\* on or run by two CPUs, or be linked twice through its one sched.list node.
TaskOnOneCpu ==
    /\ \A t \in Tasks : Cardinality(Home(t)) <= 1
    /\ \A c \in CPUs : IsInjective(rq[c] \o mig[c])

\* A task in state TASK_RUNNING is never lost: some CPU runs it or has it on
\* a list it will look at again.
RunnableIsSomewhere == TypeOK /\ \A t \in Tasks : st[t] = "running" => Home(t) # {}

\* A migration list is only filled while its CPU is still waiting in
\* task_try_migration, so the tasks on it are always picked up.
MigListIsAwaited == \A c \in CPUs : mig[c] # <<>> => cpc[c] = "wait"

\* Workloads in which nr_running is exact: task_exit decrements it for a task
\* that is on no queue, and a task-level rr_enqueue can be interrupted between
\* the load and the store of the counter.
Exact == load.exiters \cup load.wakers = {}

\* CPUs wait for each other with interrupts off: no ring of waiting CPUs.
NoWaitCycle ==
    Exact => ~ \E S \in SUBSET CPUs \ {{}} :
        \A c \in S : cpc[c] = "wait" /\ Head(cand[c]) \in S

\* smp.h: nr_running counts the queued tasks, without idle and the running
\* one, across sleep, wake-up from interrupts and migration.
NrCountsQueue == Exact => \A c \in CPUs : nr[c] = Len(rq[c])

\* Round robin with migration starves nobody: a task that stays runnable runs
\* again and again.
RunnableRuns == \A t \in Tasks :
    Exact /\ [](st[t] = "running") => []<>(\E c \in CPUs : cur[c] = t /\ cpc[c] = "run")
=============================================================================
