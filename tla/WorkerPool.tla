----------------------------- MODULE WorkerPool ------------------------------
(***************************************************************************)
(* The kernel's worker threads and task_submit_work: kernel/task/core.c,   *)
(* with the wait queue of kernel/include/wait.h.  shutdown is never set.   *)
(*                                                                         *)
(* A worker's or submitter's critical sections are its steps.  Inside      *)
(* waitqueue_event the queue's lock is held from the test of the condition *)
(* to the sleep, so that part is one step; a popped worker is asleep, so   *)
(* popping it and waking it are one step too.                              *)
(***************************************************************************)
EXTENDS Integers, Sequences, FiniteSets, SequencesExt, FiniteSetsExt

CONSTANTS Workers, Submitters,
          MaxSubmits,   \* bound: work items per submitter
          Registered    \* whether a scheduler class is registered when workers are created

ASSUME WorkerPoolAssumption ==
    /\ IsFiniteSet(Workers) /\ MaxSubmits \in Nat /\ Registered \subseteq BOOLEAN

VARIABLES q,         \* items in work_queue
          pending, active, idle,   \* worker_pool's counters
          wq,        \* worker_pool.waitq
          asleep,    \* workers in TASK_INTERRUPTIBLE
          wpc, spc,  \* where workers and submitters are
          need,      \* wake-ups a submitter still has to make
          ran, left  \* items executed; items each submitter still submits

workerVars == <<wq, asleep, wpc>>
vars == <<q, pending, active, idle, workerVars, spc, need, ran, left>>

\* task_worker_init: without a registered class, as in the order of
\* task_data_init, a worker is not enqueued, and no later code enqueues it.
Init ==
    /\ q = 0 /\ pending = 0 /\ active = 0 /\ idle = 0 /\ ran = 0
    /\ wq = <<>> /\ asleep = {}
    /\ \E r \in Registered : wpc = [w \in Workers |-> IF r THEN "enter" ELSE "unqueued"]
    /\ spc = [s \in Submitters |-> "submit"]
    /\ need = [s \in Submitters |-> 0]
    /\ left = [s \in Submitters |-> MaxSubmits]

WGoto(w, l) == wpc' = [wpc EXCEPT ![w] = l]

-----------------------------------------------------------------------------
EnterIdle(w) ==
    /\ wpc[w] = "enter"
    /\ idle' = idle + 1
    /\ WGoto(w, "event")
    /\ UNCHANGED <<q, pending, active, wq, asleep, spc, need, ran, left>>

\* waitqueue_event: queue the entry, and sleep unless there is work.
MWaitEvent(w) ==
    /\ wpc[w] = "event"
    /\ asleep' = asleep \cup {w}
    /\ wq' = Append(wq, w)
    /\ WGoto(w, "wait")
    /\ UNCHANGED <<q, pending, active, idle, spc, need, ran, left>>
WaitEvent(w) ==
    /\ wpc[w] = "event"
    /\ \/ pending > 0 /\ WGoto(w, "leave") /\ UNCHANGED <<wq, asleep>>
       \/ /\ pending <= 0
          /\ wq' = Append(wq, w)
          /\ asleep' = asleep \cup {w}
          /\ WGoto(w, "wait")
    /\ UNCHANGED <<q, pending, active, idle, spc, need, ran, left>>

\* A woken worker tests the condition again; its entry was unlinked by the
\* waker and is not queued a second time.
WaitAgain(w) ==
    /\ wpc[w] = "wait" /\ w \notin asleep
    /\ \/ pending > 0 /\ WGoto(w, "leave") /\ UNCHANGED asleep
       \/ pending <= 0 /\ asleep' = asleep \cup {w} /\ UNCHANGED wpc
    /\ UNCHANGED <<q, pending, active, idle, wq, spc, need, ran, left>>

LeaveIdle(w) ==
    /\ wpc[w] = "leave"
    /\ idle' = idle - 1
    /\ active' = active + 1
    /\ WGoto(w, "work")
    /\ UNCHANGED <<q, pending, wq, asleep, spc, need, ran, left>>

\* work_dequeue
MDequeue(w) ==
    /\ wpc[w] = "work"
    /\ IF q = 0 THEN WGoto(w, "done") /\ UNCHANGED q
       ELSE WGoto(w, "run") /\ q' = q - 1
    /\ UNCHANGED <<pending, active, idle, wq, asleep, spc, need, ran, left>>
MDequeuePeek(w) ==
    /\ wpc[w] = "work"
    /\ WGoto(w, IF q = 0 THEN "done" ELSE "uncount")
    /\ UNCHANGED <<q, pending, active, idle, wq, asleep, spc, need, ran, left>>
Dequeue(w) ==
    /\ wpc[w] = "work"
    /\ \/ q = 0 /\ WGoto(w, "done") /\ UNCHANGED q
       \/ q > 0 /\ WGoto(w, "uncount") /\ q' = q - 1
    /\ UNCHANGED <<pending, active, idle, wq, asleep, spc, need, ran, left>>

Uncount(w) ==
    /\ wpc[w] = "uncount"
    /\ pending' = pending - 1
    /\ WGoto(w, "run")
    /\ UNCHANGED <<q, active, idle, wq, asleep, spc, need, ran, left>>

RunItem(w) ==
    /\ wpc[w] = "run"
    /\ ran' = ran + 1
    /\ WGoto(w, "work")
    /\ UNCHANGED <<q, pending, active, idle, wq, asleep, spc, need, left>>

LeaveActive(w) ==
    /\ wpc[w] = "done"
    /\ active' = active - 1
    /\ WGoto(w, "enter")
    /\ UNCHANGED <<q, pending, idle, wq, asleep, spc, need, ran, left>>

-----------------------------------------------------------------------------
Submit(s) ==
    /\ spc[s] = "submit" /\ left[s] > 0
    /\ left' = [left EXCEPT ![s] = @ - 1]
    /\ q' = q + 1
    /\ spc' = [spc EXCEPT ![s] = "count"]
    /\ UNCHANGED <<pending, active, idle, workerVars, need, ran>>

\* worker_calc_expected on its uint32_t argument; a negative count is large.
\* Up to WORKER_THREAD_COUNT = 2 the base-2 logarithm is 1.
Expected(x) ==
    IF x = 0 THEN -1
    ELSE IF x < 0 \/ x > Cardinality(Workers) THEN Cardinality(Workers)
    ELSE 1

\* Count the item and decide how many workers to wake.
Count(s) ==
    /\ spc[s] = "count"
    /\ pending' = pending + 1
    /\ LET e == Expected(pending + 1)
           n == IF e - active > idle THEN idle ELSE e - active
       IN  /\ need' = [need EXCEPT ![s] = IF e < 0 \/ n <= 0 THEN 0 ELSE n]
           /\ spc' = [spc EXCEPT ![s] = IF e < 0 \/ n <= 0 THEN "submit" ELSE "wake"]
    /\ UNCHANGED <<q, active, idle, workerVars, ran, left>>

\* waitqueue_wake_up
WakeUp(s) ==
    /\ spc[s] = "wake"
    /\ \/ wq = <<>> /\ UNCHANGED <<wq, asleep>>
       \/ wq # <<>> /\ wq' = Tail(wq) /\ asleep' = asleep \ {Head(wq)}
    /\ need' = [need EXCEPT ![s] = @ - 1]
    /\ spc' = [spc EXCEPT ![s] = IF need[s] = 1 THEN "submit" ELSE "wake"]
    /\ UNCHANGED <<q, pending, active, idle, wpc, ran, left>>

WorkerStep(w) ==
    \/ EnterIdle(w) \/ WaitEvent(w) \/ WaitAgain(w) \/ LeaveIdle(w)
    \/ Dequeue(w) \/ Uncount(w) \/ RunItem(w) \/ LeaveActive(w)
Finish(s) == Count(s) \/ WakeUp(s)

Next ==
    \/ \E w \in Workers : WorkerStep(w)
    \/ \E s \in Submitters : Submit(s) \/ Finish(s)

Spec == Init /\ [][Next]_vars

-----------------------------------------------------------------------------
At(l) == Cardinality({w \in Workers : wpc[w] = l})
Total == Cardinality(Submitters) * MaxSubmits
Submitted == Total - FoldFunction(+, 0, left)

TypeOK ==
    /\ q \in 0..Total /\ ran \in 0..Total
    /\ pending \in -Cardinality(Workers)..Total
    /\ active \in 0..Cardinality(Workers) /\ idle \in 0..Cardinality(Workers)
    /\ wq \in Seq(Workers) /\ asleep \subseteq Workers
    /\ wpc \in [Workers -> {"unqueued", "enter", "event", "wait", "leave", "work",
                            "uncount", "run", "done"}]
    /\ spc \in [Submitters -> {"submit", "count", "wake"}]
    /\ need \in [Submitters -> 0..Cardinality(Workers)]

\* The counter lags behind the queue by exactly the items whose submitter
\* has not counted them and whose worker has not uncounted them.
PendingTracksQueue ==
    pending = q + At("uncount") - Cardinality({s \in Submitters : spc[s] = "count"})

\* No item is lost or run twice.
ItemsConserved == TypeOK /\ Submitted = q + ran + At("uncount") + At("run")

\* A worker that can be found on the wait queue never sleeps through counted
\* work: someone is awake to take it, or a submitter is still about to wake.
NoMissedWake ==
    pending > 0 /\ wq # <<>> =>
        \/ asleep # Workers
        \/ \E s \in Submitters : spc[s] \in {"count", "wake"}
=============================================================================
