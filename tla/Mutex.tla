------------------------------- MODULE Mutex --------------------------------
(***************************************************************************)
(* The sleeping mutex of kernel/include/mutex.h over the wait queue of     *)
(* kernel/include/wait.h.                                                  *)
(*                                                                         *)
(* Each atomic access to m->state, each critical section of the wait       *)
(* queue's spinlock that another task can tell apart, and each access to   *)
(* task->state or m->owner outside a lock is one step.  The scheduler is   *)
(* taken as a task that runs exactly while its state is TASK_RUNNING.      *)
(* mutex_lock sleeps interruptibly, so task_send_signal may wake a waiter  *)
(* at any moment; this also covers a waker whose store of TASK_RUNNING     *)
(* comes long after its check in task_wakeup.                              *)
(***************************************************************************)
EXTENDS Integers, Sequences

CONSTANTS Tasks, NULL

ASSUME NullAssumption == NULL \notin Tasks

VARIABLES state,    \* m->state
          owner,    \* m->owner
          wq,       \* m->wait_queue.head: the tasks of the queued entries
          wqlock,   \* m->wait_queue.lock: the task that holds it
          sleeping, \* the tasks whose state is TASK_INTERRUPTIBLE
          pc,
          entry     \* the task of the entry a waker has popped

vars == <<state, owner, wq, wqlock, sleeping, pc, entry>>

\* Inside waitqueue_event, the frame that holds the queue entry.
InEvent == {"cond", "sleep", "unlock", "sched", "relock", "del"}
PCs == InEvent \cup
       {"idle", "fast", "try", "add", "cas", "own", "held", "clear", "wake", "kick"}

Init ==
    /\ state = 0
    /\ owner = NULL
    /\ wq = <<>>
    /\ wqlock = NULL
    /\ sleeping = {}
    /\ pc = [t \in Tasks |-> "idle"]
    /\ entry = [t \in Tasks |-> NULL]

\* list_del_init of the i-th entry of a list.
Unlink(q, i) == SubSeq(q, 1, i - 1) \o SubSeq(q, i + 1, Len(q))

Goto(t, l) == pc' = [pc EXCEPT ![t] = l]

-----------------------------------------------------------------------------
Call(t) ==
    /\ pc[t] = "idle"
    /\ \E l \in {"fast", "try"} : Goto(t, l)
    /\ UNCHANGED <<state, owner, wq, wqlock, sleeping, entry>>

\* The compare-and-swap of the fast path, of the slow path and of
\* mutex_trylock: state 0 becomes 1, or the task goes on to `otherwise'.
MCas(t, from, otherwise) ==
    /\ pc[t] = from
    /\ state' = 1
    /\ Goto(t, IF state = 0 \/ from = "cas" THEN "own" ELSE otherwise)
    /\ UNCHANGED <<owner, wq, wqlock, sleeping, entry>>
Cas(t, from, otherwise) ==
    /\ pc[t] = from
    /\ state' = 1
    /\ Goto(t, IF state = 0 THEN "own" ELSE otherwise)
    /\ UNCHANGED <<owner, wq, wqlock, sleeping, entry>>

SetOwner(t) ==
    /\ pc[t] = "own"
    /\ owner' = t
    /\ Goto(t, "held")
    /\ UNCHANGED <<state, wq, wqlock, sleeping, entry>>

\* waitqueue_event takes the queue's lock and adds its entry, once.
WaitAdd(t) ==
    /\ pc[t] = "add"
    /\ wqlock = NULL
    /\ wqlock' = t
    /\ wq' = Append(wq, t)
    /\ Goto(t, "cond")
    /\ UNCHANGED <<state, owner, sleeping, entry>>

WaitCondition(t) ==
    /\ pc[t] = "cond"
    /\ Goto(t, IF state = 0 THEN "del" ELSE "sleep")
    /\ UNCHANGED <<state, owner, wq, wqlock, sleeping, entry>>

TaskSleep(t) ==
    /\ pc[t] = "sleep"
    /\ sleeping' = sleeping \cup {t}
    /\ Goto(t, "unlock")
    /\ UNCHANGED <<state, owner, wq, wqlock, entry>>

WaitUnlock(t) ==
    /\ pc[t] = "unlock"
    /\ wqlock' = NULL
    /\ Goto(t, "sched")
    /\ UNCHANGED <<state, owner, wq, sleeping, entry>>

\* task_sched returns once the task has been woken.
TaskSched(t) ==
    /\ pc[t] = "sched"
    /\ t \notin sleeping
    /\ Goto(t, "relock")
    /\ UNCHANGED <<state, owner, wq, wqlock, sleeping, entry>>

WaitRelock(t) ==
    /\ pc[t] = "relock"
    /\ wqlock = NULL
    /\ wqlock' = t
    /\ Goto(t, "cond")
    /\ UNCHANGED <<state, owner, wq, sleeping, entry>>

\* waitqueue_del and the final unlock.  list_del_init of an entry that a
\* waker has already unlinked changes nothing.
MWaitDel(t) ==
    /\ pc[t] = "del"
    /\ wqlock' = NULL
    /\ Goto(t, "cas")
    /\ UNCHANGED <<state, owner, wq, sleeping, entry>>
WaitDel(t) ==
    /\ pc[t] = "del"
    /\ \/ \E i \in 1..Len(wq) : wq[i] = t /\ wq' = Unlink(wq, i)
       \/ (\A i \in 1..Len(wq) : wq[i] # t) /\ wq' = wq
    /\ wqlock' = NULL
    /\ Goto(t, "cas")
    /\ UNCHANGED <<state, owner, sleeping, entry>>

-----------------------------------------------------------------------------
\* mutex_unlock: state, then owner, then the wake-up of one waiter.
MUnlockState(t) ==
    /\ pc[t] = "held"
    /\ state' = 0
    /\ Goto(t, IF wq = <<>> THEN "clear" ELSE "idle")
    /\ UNCHANGED <<owner, wq, wqlock, sleeping, entry>>
UnlockState(t) ==
    /\ pc[t] = "held"
    /\ state' = 0
    /\ Goto(t, "clear")
    /\ UNCHANGED <<owner, wq, wqlock, sleeping, entry>>

UnlockOwner(t) ==
    /\ pc[t] = "clear"
    /\ owner' = NULL
    /\ Goto(t, "wake")
    /\ UNCHANGED <<state, wq, wqlock, sleeping, entry>>

\* waitqueue_wake_up unlinks the first entry under the queue's lock ...
WakeUpPop(t) ==
    /\ pc[t] = "wake"
    /\ wqlock = NULL
    /\ \/ /\ wq = <<>>
          /\ Goto(t, "idle")
          /\ UNCHANGED <<wq, entry>>
       \/ /\ wq # <<>>
          /\ entry' = [entry EXCEPT ![t] = Head(wq)]
          /\ wq' = Tail(wq)
          /\ Goto(t, "kick")
    /\ UNCHANGED <<state, owner, wqlock, sleeping>>

\* ... and calls task_wakeup(entry->task) after releasing it.
WakeUpTask(t) ==
    /\ pc[t] = "kick"
    /\ sleeping' = sleeping \ {entry[t]}
    /\ entry' = [entry EXCEPT ![t] = NULL]
    /\ Goto(t, "idle")
    /\ UNCHANGED <<state, owner, wq, wqlock>>

\* task_send_signal wakes a task that sleeps interruptibly.
Signal(t) ==
    /\ t \in sleeping
    /\ sleeping' = sleeping \ {t}
    /\ UNCHANGED <<state, owner, wq, wqlock, pc, entry>>

Next == \E t \in Tasks :
    \/ Call(t) \/ Signal(t)
    \/ Cas(t, "fast", "add") \/ Cas(t, "try", "idle") \/ Cas(t, "cas", "add")
    \/ SetOwner(t) \/ WaitAdd(t) \/ WaitCondition(t) \/ TaskSleep(t)
    \/ WaitUnlock(t) \/ TaskSched(t) \/ WaitRelock(t) \/ WaitDel(t)
    \/ UnlockState(t) \/ UnlockOwner(t) \/ WakeUpPop(t) \/ WakeUpTask(t)

Spec == Init /\ [][Next]_vars

-----------------------------------------------------------------------------
TypeOK ==
    /\ state \in {0, 1}
    /\ owner \in Tasks \cup {NULL}
    /\ wq \in Seq(Tasks)
    /\ wqlock \in Tasks \cup {NULL}
    /\ sleeping \subseteq Tasks
    /\ pc \in [Tasks -> PCs]
    /\ entry \in [Tasks -> Tasks \cup {NULL}]

Holders == {t \in Tasks : pc[t] \in {"own", "held"}}

\* mutex_lock and mutex_trylock let one task at a time through, and the state
\* word is 1 exactly while that task has not stored 0 in mutex_unlock.
MutualExclusion ==
    /\ \A t, u \in Holders : t = u
    /\ state = 1 <=> Holders # {}

\* The mutex implements the abstract lock, used by writers only.
RW == INSTANCE ReadersWriters WITH Threads <- Tasks, reading <- {}, writing <- Holders
RefinesLock == RW!RWSpec

\* A queued entry belongs to a task that is still inside waitqueue_event, and
\* no entry is linked twice: waitqueue_wake_up never pops a dead stack frame.
QueuedEntriesAlive ==
    /\ \A i \in 1..Len(wq) : pc[wq[i]] \in InEvent
    /\ \A i, j \in 1..Len(wq) : wq[i] = wq[j] => i = j

\* Tasks on their way to the compare-and-swap of the slow path.
Retrying == {t \in Tasks : \/ pc[t] \in {"add", "cond", "relock", "del", "cas"}
                           \/ pc[t] = "sched" /\ t \notin sleeping}

\* While the mutex is free and entries are queued, somebody is about to serve
\* the queue: an unlocker that has not reached waitqueue_wake_up, a waker with
\* a sleeping task in hand, or an awake waiter that will try again.
QueueIsServed ==
    (state = 0 /\ wq # <<>>) =>
        \/ \E t \in Tasks : pc[t] \in {"clear", "wake"}
        \/ \E t \in Tasks : pc[t] = "kick" /\ pc[entry[t]] = "sched"
        \/ Retrying # {}
=============================================================================
