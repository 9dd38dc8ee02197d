------------------------------ MODULE TaskLife -------------------------------
(***************************************************************************)
(* Creation, exit and reaping of tasks: task_create_new, task_exit,        *)
(* task_wait and zombie_reclaim of kernel/task/core.c, running on several  *)
(* CPUs.  Each loop over a list and each locked section is one step.       *)
(*                                                                         *)
(* A task_struct is an object of the set Tasks that is allocated and freed *)
(* and may be used again.  InitTask is what id_get_init returns: it has    *)
(* lists, but it never runs and never waits.  No creator passes            *)
(* TASK_WAIT_PARENT.                                                       *)
(***************************************************************************)
EXTENDS Integers, Sequences, FiniteSets, SequencesExt, FiniteSetsExt

CONSTANTS Tasks, InitTask, NoTask,
          Boot,          \* the kernel thread that creates the first process
          MaxPid,        \* bound: TASK_ID_MAX
          MaxCreate,     \* bound: tasks created after Boot
          WakeOnExit,    \* values of TASK_WAKE_ON_EXIT that creators pass
          Modes          \* what tasks do in a behaviour

ASSUME TaskLifeAssumption ==
    /\ IsFiniteSet(Tasks) /\ Boot \in Tasks
    /\ InitTask \notin Tasks /\ NoTask \notin Tasks \cup {InitTask}
    /\ MaxPid \in Nat \ {0} /\ MaxCreate \in Nat /\ WakeOnExit \subseteq BOOLEAN
    /\ Modes \subseteq [kinds : SUBSET BOOLEAN, \* values of TASK_IS_THREAD that creators pass
                       orphans : BOOLEAN,     \* a task exits although it has created others
                       fails : BOOLEAN,       \* task_create_new may fail after it has a pid
                       early : BOOLEAN]       \* a task may be reaped before it has left its CPU

Owners == Tasks \cup {InitTask}
Pids == 1..MaxPid

VARIABLES mem,     \* allocated task_structs
          task,    \* their fields: pid, tgid, father, group_leader, sigchld, state
          kids,    \* children lists
          group,   \* thread_group lists of the leaders
          zom,     \* zombie lists: the exited children to be waited for
          gz,      \* the global zombie_queue
          ids,     \* id_bitmap
          pc,      \* what a task is executing; "gone" once it is switched away
          created, \* counts creations, for the bound
          mode     \* what tasks do, fixed for a behaviour

lists == <<kids, group, zom, gz>>
vars == <<mem, task, lists, ids, pc, created, mode>>

Thread(t) == task[t].pid # task[t].tgid

Init ==
    /\ mem = {Boot}
    /\ task = [t \in Tasks |-> [pid |-> 1, tgid |-> 1, father |-> NoTask,
                                sigchld |-> FALSE, state |-> "running", leader |-> t]]
    /\ kids = [t \in Owners |-> {}]
    /\ group = [t \in Tasks |-> {}]
    /\ zom = [t \in Owners |-> <<>>]
    /\ gz = {}
    /\ ids = {1}
    /\ pc = [t \in Tasks |-> IF t = Boot THEN "run" ELSE "gone"]
    /\ created = 0
    /\ mode \in Modes

Goto(t, l) == pc' = [pc EXCEPT ![t] = l]

-----------------------------------------------------------------------------
\* task_create_new, up to the pid: c is the new task_struct and i its pid.
\* id_alloc takes the first free id.  The memory of a task that still runs is
\* not used again in the model.
MBegins(p, c, i) ==
    /\ pc[p] = "run" /\ created < MaxCreate
    /\ c \notin mem /\ pc[c] = "gone"
    /\ i \in Pids /\ \A j \in 1..(i - 1) : j \in ids
Begins(p, c, i) ==
    /\ pc[p] = "run" /\ created < MaxCreate
    /\ c \notin mem /\ pc[c] = "gone"
    /\ i \in Pids \ ids /\ \A j \in 1..(i - 1) : j \in ids

\* The rest of task_create_new: the new task is p's child, in p's thread
\* group when it is a thread, and is enqueued.
Create(p, c, i, thread, wake) ==
    /\ Begins(p, c, i)
    /\ thread => task[p].father # NoTask
    /\ created' = created + 1
    /\ mem' = mem \cup {c}
    /\ ids' = ids \cup {i}
    /\ task' = [task EXCEPT ![c] =
                  [pid |-> i, tgid |-> IF thread THEN task[p].tgid ELSE i,
                   father |-> p, sigchld |-> wake, state |-> "running",
                   leader |-> IF thread THEN task[p].leader ELSE c]]
    /\ kids' = [kids EXCEPT ![p] = @ \cup {c}, ![c] = {}]
    /\ zom' = [zom EXCEPT ![c] = <<>>]
    /\ group' = [group EXCEPT ![c] = {},
                              ![task[p].leader] = IF thread THEN @ \cup {c} ELSE @]
    /\ Goto(c, "run")
    /\ UNCHANGED <<gz, mode>>

\* An error after id_alloc: the new pid is freed, and for a thread its tgid,
\* which is the parent's.
CreateFails(p, c, i, thread) ==
    /\ mode.fails
    /\ Begins(p, c, i)
    /\ thread => task[p].father # NoTask
    /\ created' = created + 1
    /\ ids' = IF thread THEN ids \ {task[p].tgid} ELSE ids
    /\ UNCHANGED <<mem, task, lists, pc, mode>>

-----------------------------------------------------------------------------
SetState(t, s) == task' = [task EXCEPT ![t].state = s]
SetFather(cs) == [t \in Tasks |-> IF t \in cs THEN [task[t] EXCEPT !.father = InitTask]
                                  ELSE task[t]]

\* task_exit: from here on the task is a zombie.
ExitBegin(t) ==
    /\ t # Boot /\ pc[t] = "run"
    /\ mode.orphans \/ kids[t] \cup group[t] = {}
    /\ SetState(t, "zombie")
    /\ Goto(t, IF task[t].father = NoTask \/ Thread(t) THEN "enqueue" ELSE "zombies")
    /\ UNCHANGED <<mem, lists, ids, created, mode>>

\* zombie_enqueue, for kernel threads and for threads of a process.
ExitEnqueue(t) ==
    /\ pc[t] = "enqueue"
    /\ gz' = gz \cup {t}
    /\ Goto(t, "switch")
    /\ UNCHANGED <<mem, task, kids, group, zom, ids, created, mode>>

\* The exited children move to init's zombie list,
ExitZombies(t) ==
    /\ pc[t] = "zombies"
    /\ zom' = [zom EXCEPT ![InitTask] = @ \o zom[t], ![t] = <<>>]
    /\ task' = SetFather(Range(zom[t]))
    /\ Goto(t, "children")
    /\ UNCHANGED <<mem, kids, group, gz, ids, created, mode>>

\* the others to init's children; one that has exited meanwhile also to
\* init's zombie list.
MExitChildren(t) ==
    /\ pc[t] = "children"
    /\ kids' = [kids EXCEPT ![InitTask] = @ \cup kids[t], ![t] = {}]
    /\ Goto(t, "threads")
    /\ UNCHANGED <<mem, task, group, zom, gz, ids, created, mode>>
ExitChildren(t) ==
    /\ pc[t] = "children"
    /\ LET dead == {c \in kids[t] : task[c].state = "zombie"}
       IN  zom' = [zom EXCEPT ![InitTask] = @ \o SetToSeq(dead)]
    /\ kids' = [kids EXCEPT ![InitTask] = @ \cup kids[t], ![t] = {}]
    /\ task' = SetFather(kids[t])
    /\ Goto(t, "threads")
    /\ UNCHANGED <<mem, group, gz, ids, created, mode>>

\* The other threads of the process leave the group; sleeping ones are woken.
ExitThreads(t) ==
    /\ pc[t] = "threads"
    /\ task' = [c \in Tasks |->
                  IF c \in group[t] /\ task[c].state = "asleep"
                  THEN [task[c] EXCEPT !.state = "running"] ELSE task[c]]
    /\ group' = [group EXCEPT ![t] = {}]
    /\ Goto(t, "report")
    /\ UNCHANGED <<mem, kids, zom, gz, ids, created, mode>>

\* The task joins its father's zombie list,
MExitReport(t) ==
    /\ pc[t] = "report"
    /\ zom' = zom
    /\ Goto(t, "notify")
    /\ UNCHANGED <<mem, task, kids, group, gz, ids, created, mode>>
ExitReport(t) ==
    /\ pc[t] = "report"
    /\ zom' = [zom EXCEPT ![task[t].father] = Append(@, t)]
    /\ Goto(t, "notify")
    /\ UNCHANGED <<mem, task, kids, group, gz, ids, created, mode>>

\* and wakes the father if the father's own sigchld flag is set.
ExitNotify(t) ==
    LET f == task[t].father
    IN  /\ pc[t] = "notify"
        /\ IF f # InitTask /\ task[f].sigchld /\ task[f].state = "asleep"
           THEN SetState(f, "running") ELSE UNCHANGED task
        /\ Goto(t, "switch")
        /\ UNCHANGED <<mem, lists, ids, created, mode>>

\* task_sched: the task's stack is in use up to here.
ExitSwitch(t) ==
    /\ pc[t] = "switch"
    /\ Goto(t, "gone")
    /\ UNCHANGED <<mem, task, lists, ids, created, mode>>

-----------------------------------------------------------------------------
\* task_release, id_free and kheap_free of a zombie.
Reap(c) ==
    /\ mode.early \/ pc[c] = "gone"
    /\ mem' = mem \ {c}
    /\ ids' = ids \ {task[c].pid}

\* task_wait: take one zombie child, of a given pid or any,
WaitReap(t) ==
    /\ pc[t] \in {"run", "wait"} /\ task[t].state = "running"
    /\ \E i \in 1..Len(zom[t]) :
          /\ Reap(zom[t][i])
          /\ zom' = [zom EXCEPT ![t] = RemoveAt(@, i)]
    /\ Goto(t, "run")
    /\ UNCHANGED <<task, kids, group, gz, created, mode>>

\* or, having found none, go to sleep.  Callers have created a child before.
WaitScan(t) ==
    /\ pc[t] \in {"run", "wait"} /\ task[t].state = "running"
    /\ zom[t] = <<>> /\ kids[t] # {}
    /\ Goto(t, "sleep")
    /\ UNCHANGED <<mem, task, lists, ids, created, mode>>

WaitSleep(t) ==
    /\ pc[t] = "sleep"
    /\ SetState(t, "asleep")
    /\ Goto(t, "wait")
    /\ UNCHANGED <<mem, lists, ids, created, mode>>

\* zombie_reclaim, run by a worker.
ZombieReclaim ==
    \E c \in gz :
        /\ Reap(c)
        /\ gz' = gz \ {c}
        /\ UNCHANGED <<task, kids, group, zom, pc, created, mode>>

Exiting(t) ==
    \/ ExitEnqueue(t) \/ ExitZombies(t) \/ ExitChildren(t) \/ ExitThreads(t)
    \/ ExitReport(t) \/ ExitNotify(t) \/ ExitSwitch(t)
Next ==
    \/ \E p, c \in Tasks, i \in Pids, thread \in mode.kinds :
          \/ \E wake \in WakeOnExit : Create(p, c, i, thread, wake)
          \/ CreateFails(p, c, i, thread)
    \/ \E t \in Tasks : ExitBegin(t) \/ Exiting(t) \/ WaitReap(t) \/ WaitScan(t) \/ WaitSleep(t)
    \/ ZombieReclaim

Spec == Init /\ [][Next]_vars

-----------------------------------------------------------------------------
TypeOK ==
    /\ mem \subseteq Tasks /\ ids \subseteq Pids /\ gz \subseteq Tasks
    /\ task \in [Tasks -> [pid : Pids, tgid : Pids, father : Owners \cup {NoTask},
                           sigchld : BOOLEAN, leader : Tasks,
                           state : {"running", "asleep", "zombie"}]]
    /\ kids \in [Owners -> SUBSET Tasks] /\ group \in [Tasks -> SUBSET Tasks]
    /\ \A t \in Owners : zom[t] \in Seq(Tasks)
    /\ pc \in [Tasks -> {"run", "wait", "sleep", "enqueue", "zombies", "children",
                         "threads", "report", "notify", "switch", "gone"}]

\* types.h: "thread id, one per thread".  An id stays reserved as long as the
\* task_struct exists, and no two of them share one.
PidsUnique ==
    /\ TypeOK
    /\ \A t \in mem : task[t].pid \in ids
    /\ \A s, t \in mem : task[s].pid = task[t].pid => s = t

\* A father pointer leads to a task_struct that still exists: task_exit
\* follows it.
FatherLives == \A t \in mem : task[t].father \in mem \cup {InitTask, NoTask}

Times(t, s) == Cardinality({i \in 1..Len(s) : s[i] = t})
Listed(t) == (IF t \in gz THEN 1 ELSE 0)
             + FoldSet(LAMBDA o, n : n + Times(t, zom[o]), 0, Owners)

\* Where parents outlive their children, a task that has finished exiting
\* waits for exactly one reaper until it is freed, and a freed one for none.
OneReaper ==
    ~mode.orphans =>
    \A t \in Tasks :
        /\ t \in mem /\ pc[t] \in {"notify", "switch", "gone"} => Listed(t) = 1
        /\ t \notin mem => Listed(t) = 0
=============================================================================
