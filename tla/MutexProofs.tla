---------------------------- MODULE MutexProofs -----------------------------
(***************************************************************************)
(* Proofs about the mutex and wait queue of kernel/include/mutex.h and     *)
(* kernel/include/wait.h, for any set of tasks.                            *)
(***************************************************************************)
EXTENDS Mutex, SequenceTheorems, TLAPS

\* The wait queue's spinlock is held exactly by the task between its
\* spin_lock and spin_unlock, and only a task about to call, or inside,
\* task_sched sleeps.
LockInv ==
    /\ \A t \in Tasks : wqlock = t <=> pc[t] \in {"cond", "sleep", "unlock", "del"}
    /\ \A t \in sleeping : pc[t] \in {"unlock", "sched"}
    /\ \A t \in Tasks : pc[t] = "kick" => entry[t] \in Tasks

\* QueueIsServed needs LockInv: what waitqueue_wake_up pops has no task in a
\* critical section of the queue, so it is asleep or on its way back.
IInv == TypeOK /\ MutualExclusion /\ LockInv /\ QueuedEntriesAlive /\ QueueIsServed

\* What list_del_init of the i-th entry leaves of the queue.
LEMMA UnlinkElements ==
  ASSUME NEW S, NEW q \in Seq(S), NEW i \in 1..Len(q)
  PROVE  /\ Unlink(q, i) \in Seq(S)
         /\ Len(Unlink(q, i)) = Len(q) - 1
         /\ \A j \in 1..(Len(q) - 1) :
               Unlink(q, i)[j] = IF j < i THEN q[j] ELSE q[j + 1]
<1>1. \A k \in 1..(i - 1) : q[k] \in S
  BY ElementOfSeq
<1>2. \A k \in (i + 1)..Len(q) : q[k] \in S
  BY ElementOfSeq
<1> DEFINE a == SubSeq(q, 1, i - 1)
           b == SubSeq(q, i + 1, Len(q))
<1>3. Len(q) \in Nat /\ i \in Int
  BY LenProperties
<1>4. a \in Seq(S) /\ Len(a) = i - 1 /\ \A k \in 1..(i - 1) : a[k] = q[k]
  <2>1. /\ a \in Seq(S)
        /\ Len(a) = IF 1 <= i - 1 THEN i - 1 - 1 + 1 ELSE 0
        /\ \A k \in 1..(i - 1 - 1 + 1) : a[k] = q[1 + k - 1]
    BY <1>1, <1>3, SubSeqProperties
  <2> HIDE DEF a
  <2> QED
    BY <2>1, <1>3
<1>5. /\ b \in Seq(S) /\ Len(b) = Len(q) - i
      /\ \A k \in 1..(Len(q) - i) : b[k] = q[i + k]
  <2>1. /\ b \in Seq(S)
        /\ Len(b) = IF i + 1 <= Len(q) THEN Len(q) - (i + 1) + 1 ELSE 0
        /\ \A k \in 1..(Len(q) - (i + 1) + 1) : b[k] = q[i + 1 + k - 1]
    BY <1>2, <1>3, SubSeqProperties
  <2> HIDE DEF b
  <2> QED
    BY <2>1, <1>3
<1>6. Unlink(q, i) = a \o b
  BY DEF Unlink
<1> HIDE DEF a, b
<1>7. /\ a \o b \in Seq(S)
      /\ Len(a \o b) = Len(a) + Len(b)
      /\ \A k \in 1..(Len(a) + Len(b)) : (a \o b)[k] =
             IF k <= Len(a) THEN a[k] ELSE b[k - Len(a)]
  BY <1>4, <1>5, ConcatProperties
<1>8. ASSUME NEW j \in 1..(Len(q) - 1)
      PROVE  Unlink(q, i)[j] = IF j < i THEN q[j] ELSE q[j + 1]
  <2>1. (a \o b)[j] = IF j < i THEN a[j] ELSE b[j - (i - 1)]
    BY <1>3, <1>4, <1>5, <1>7
  <2>2. CASE j < i
    BY <2>1, <2>2, <1>3, <1>4, <1>6
  <2>3. CASE ~(j < i)
    <3>1. j - (i - 1) \in 1..(Len(q) - i) /\ i + (j - (i - 1)) = j + 1
      BY <2>3, <1>3
    <3>2. b[j - (i - 1)] = q[i + (j - (i - 1))]
      BY <3>1, <1>5
    <3> QED
      BY <2>1, <2>3, <3>1, <3>2, <1>6
  <2> QED
    BY <2>2, <2>3
<1> QED
  BY <1>3, <1>4, <1>5, <1>6, <1>7, <1>8

\* What taking the first entry leaves of the queue.
LEMMA TailElements ==
  ASSUME NEW S, NEW q \in Seq(S), q # <<>>
  PROVE  /\ Head(q) = q[1] /\ Len(q) >= 1 /\ Head(q) \in S
         /\ Tail(q) \in Seq(S) /\ Len(Tail(q)) = Len(q) - 1
         /\ \A j \in 1..Len(Tail(q)) : Tail(q)[j] = q[j + 1]
BY HeadTailProperties, EmptySeq, LenProperties

\* The initial state: nobody holds, waits or sleeps.
LEMMA InitIInv == Init => IInv
BY NullAssumption DEF Init, IInv, TypeOK, MutualExclusion, LockInv,
   QueuedEntriesAlive, QueueIsServed, Holders, PCs, InEvent

\* Moving t between labels where it holds nothing leaves the holders alone.
LEMMA HoldersStay ==
  ASSUME TypeOK, NEW t \in Tasks, NEW l \in PCs, Goto(t, l),
         pc[t] \in {"own", "held"} <=> l \in {"own", "held"}
  PROVE  Holders' = Holders
BY DEF TypeOK, Goto, Holders

\* Every step keeps the strengthened invariant.
LEMMA StepIInv == IInv /\ [Next]_vars => IInv'
<1> SUFFICES ASSUME IInv, [Next]_vars PROVE IInv'
  OBVIOUS
<1> USE NullAssumption DEF IInv
<1>1. ASSUME NEW t \in Tasks, Call(t) PROVE IInv'
  <2>1. TypeOK'
    BY <1>1 DEF Call, TypeOK, PCs, InEvent, Goto
  <2>2. MutualExclusion'
    BY <1>1 DEF Call, TypeOK, PCs, InEvent, Goto, MutualExclusion, Holders
  <2>3. LockInv'
    BY <1>1 DEF Call, TypeOK, PCs, InEvent, Goto, LockInv
  <2>4. QueuedEntriesAlive'
    BY <1>1 DEF Call, TypeOK, PCs, InEvent, Goto, LockInv, QueuedEntriesAlive
  <2>5. QueueIsServed'
    BY <1>1 DEF Call, TypeOK, PCs, InEvent, Goto, LockInv, MutualExclusion, Holders, QueuedEntriesAlive, QueueIsServed, Retrying
  <2> QED
    BY <2>1, <2>2, <2>3, <2>4, <2>5
<1>2. ASSUME NEW t \in Tasks, Signal(t) PROVE IInv'
  <2>1. TypeOK'
    BY <1>2 DEF Signal, TypeOK, PCs, InEvent, Goto
  <2>2. MutualExclusion'
    BY <1>2 DEF Signal, TypeOK, PCs, InEvent, Goto, MutualExclusion, Holders
  <2>3. LockInv'
    BY <1>2 DEF Signal, TypeOK, PCs, InEvent, Goto, LockInv
  <2>4. QueuedEntriesAlive'
    BY <1>2 DEF Signal, TypeOK, PCs, InEvent, Goto, LockInv, QueuedEntriesAlive
  <2>5. QueueIsServed'
    BY <1>2 DEF Signal, TypeOK, PCs, InEvent, Goto, LockInv, MutualExclusion, Holders, QueuedEntriesAlive, QueueIsServed, Retrying
  <2> QED
    BY <2>1, <2>2, <2>3, <2>4, <2>5
<1>3. ASSUME NEW t \in Tasks, SetOwner(t) PROVE IInv'
  <2>1. TypeOK'
    BY <1>3 DEF SetOwner, TypeOK, PCs, InEvent, Goto
  <2>2. MutualExclusion'
    BY <1>3 DEF SetOwner, TypeOK, PCs, InEvent, Goto, MutualExclusion, Holders
  <2>3. LockInv'
    BY <1>3 DEF SetOwner, TypeOK, PCs, InEvent, Goto, LockInv
  <2>4. QueuedEntriesAlive'
    BY <1>3 DEF SetOwner, TypeOK, PCs, InEvent, Goto, LockInv, QueuedEntriesAlive
  <2>5. QueueIsServed'
    BY <1>3 DEF SetOwner, TypeOK, PCs, InEvent, Goto, LockInv, MutualExclusion, Holders, QueuedEntriesAlive, QueueIsServed, Retrying
  <2> QED
    BY <2>1, <2>2, <2>3, <2>4, <2>5
<1>4. ASSUME NEW t \in Tasks, WaitAdd(t) PROVE IInv'
  <2>1. TypeOK'
    BY <1>4 DEF WaitAdd, TypeOK, PCs, InEvent, Goto
  <2>2. MutualExclusion'
    BY <1>4 DEF WaitAdd, TypeOK, PCs, InEvent, Goto, MutualExclusion, Holders
  <2>3. LockInv'
    BY <1>4 DEF WaitAdd, TypeOK, PCs, InEvent, Goto, LockInv
  <2>4. QueuedEntriesAlive'
    BY <1>4 DEF WaitAdd, TypeOK, PCs, InEvent, Goto, LockInv, QueuedEntriesAlive
  <2>5. QueueIsServed'
    BY <1>4 DEF WaitAdd, TypeOK, PCs, InEvent, Goto, LockInv, MutualExclusion, Holders, QueuedEntriesAlive, QueueIsServed, Retrying
  <2> QED
    BY <2>1, <2>2, <2>3, <2>4, <2>5
<1>5. ASSUME NEW t \in Tasks, WaitCondition(t) PROVE IInv'
  <2>1. TypeOK'
    BY <1>5 DEF WaitCondition, TypeOK, PCs, InEvent, Goto
  <2>2. MutualExclusion'
    BY <1>5 DEF WaitCondition, TypeOK, PCs, InEvent, Goto, MutualExclusion, Holders
  <2>3. LockInv'
    BY <1>5 DEF WaitCondition, TypeOK, PCs, InEvent, Goto, LockInv
  <2>4. QueuedEntriesAlive'
    BY <1>5 DEF WaitCondition, TypeOK, PCs, InEvent, Goto, LockInv, QueuedEntriesAlive
  <2>5. QueueIsServed'
    BY <1>5 DEF WaitCondition, TypeOK, PCs, InEvent, Goto, LockInv, MutualExclusion, Holders, QueuedEntriesAlive, QueueIsServed, Retrying
  <2> QED
    BY <2>1, <2>2, <2>3, <2>4, <2>5
<1>6. ASSUME NEW t \in Tasks, TaskSleep(t) PROVE IInv'
  <2>1. TypeOK'
    BY <1>6 DEF TaskSleep, TypeOK, PCs, InEvent, Goto
  <2>2. MutualExclusion'
    BY <1>6 DEF TaskSleep, TypeOK, PCs, InEvent, Goto, MutualExclusion, Holders
  <2>3. LockInv'
    BY <1>6 DEF TaskSleep, TypeOK, PCs, InEvent, Goto, LockInv
  <2>4. QueuedEntriesAlive'
    BY <1>6 DEF TaskSleep, TypeOK, PCs, InEvent, Goto, LockInv, QueuedEntriesAlive
  <2>5. QueueIsServed'
    BY <1>6 DEF TaskSleep, TypeOK, PCs, InEvent, Goto, LockInv, MutualExclusion, Holders, QueuedEntriesAlive, QueueIsServed, Retrying
  <2> QED
    BY <2>1, <2>2, <2>3, <2>4, <2>5
<1>7. ASSUME NEW t \in Tasks, WaitUnlock(t) PROVE IInv'
  <2>1. TypeOK'
    BY <1>7 DEF WaitUnlock, TypeOK, PCs, InEvent, Goto
  <2>2. MutualExclusion'
    BY <1>7 DEF WaitUnlock, TypeOK, PCs, InEvent, Goto, MutualExclusion, Holders
  <2>3. LockInv'
    BY <1>7 DEF WaitUnlock, TypeOK, PCs, InEvent, Goto, LockInv
  <2>4. QueuedEntriesAlive'
    BY <1>7 DEF WaitUnlock, TypeOK, PCs, InEvent, Goto, LockInv, QueuedEntriesAlive
  <2>5. QueueIsServed'
    BY <1>7 DEF WaitUnlock, TypeOK, PCs, InEvent, Goto, LockInv, MutualExclusion, Holders, QueuedEntriesAlive, QueueIsServed, Retrying
  <2> QED
    BY <2>1, <2>2, <2>3, <2>4, <2>5
<1>8. ASSUME NEW t \in Tasks, TaskSched(t) PROVE IInv'
  <2>1. TypeOK'
    BY <1>8 DEF TaskSched, TypeOK, PCs, InEvent, Goto
  <2>2. MutualExclusion'
    BY <1>8 DEF TaskSched, TypeOK, PCs, InEvent, Goto, MutualExclusion, Holders
  <2>3. LockInv'
    BY <1>8 DEF TaskSched, TypeOK, PCs, InEvent, Goto, LockInv
  <2>4. QueuedEntriesAlive'
    BY <1>8 DEF TaskSched, TypeOK, PCs, InEvent, Goto, LockInv, QueuedEntriesAlive
  <2>5. QueueIsServed'
    BY <1>8 DEF TaskSched, TypeOK, PCs, InEvent, Goto, LockInv, MutualExclusion, Holders, QueuedEntriesAlive, QueueIsServed, Retrying
  <2> QED
    BY <2>1, <2>2, <2>3, <2>4, <2>5
<1>9. ASSUME NEW t \in Tasks, WaitRelock(t) PROVE IInv'
  <2>1. TypeOK'
    BY <1>9 DEF WaitRelock, TypeOK, PCs, InEvent, Goto
  <2>2. MutualExclusion'
    BY <1>9 DEF WaitRelock, TypeOK, PCs, InEvent, Goto, MutualExclusion, Holders
  <2>3. LockInv'
    BY <1>9 DEF WaitRelock, TypeOK, PCs, InEvent, Goto, LockInv
  <2>4. QueuedEntriesAlive'
    BY <1>9 DEF WaitRelock, TypeOK, PCs, InEvent, Goto, LockInv, QueuedEntriesAlive
  <2>5. QueueIsServed'
    BY <1>9 DEF WaitRelock, TypeOK, PCs, InEvent, Goto, LockInv, MutualExclusion, Holders, QueuedEntriesAlive, QueueIsServed, Retrying
  <2> QED
    BY <2>1, <2>2, <2>3, <2>4, <2>5
<1>10. ASSUME NEW t \in Tasks, WaitDel(t) PROVE IInv'
  <2> DEFINE Unlinked ==
        /\ wq' \in Seq(Tasks)
        /\ \A j \in 1..Len(wq') : wq'[j] # t /\ \E k \in 1..Len(wq) : wq'[j] = wq[k]
        /\ \A j, m \in 1..Len(wq') : wq'[j] = wq'[m] => j = m
        /\ wq' # <<>> => wq # <<>>
  <2>1. Unlinked
    <3>1. CASE \A i \in 1..Len(wq) : wq[i] # t
      BY <1>10, <3>1 DEF WaitDel, TypeOK, QueuedEntriesAlive
    <3>2. ASSUME NEW i \in 1..Len(wq), wq[i] = t, wq' = Unlink(wq, i)
          PROVE  Unlinked
      <4>1. wq \in Seq(Tasks) /\ Len(wq) \in Nat
        BY LenProperties DEF TypeOK
      <4>2. /\ wq' \in Seq(Tasks) /\ Len(wq') = Len(wq) - 1
            /\ \A j \in 1..(Len(wq) - 1) : wq'[j] = IF j < i THEN wq[j] ELSE wq[j + 1]
        BY <3>2, <4>1, UnlinkElements
      <4>3. \A j, m \in 1..Len(wq) : wq[j] = wq[m] => j = m
        BY DEF QueuedEntriesAlive
      <4>4. \A j \in 1..Len(wq') : \E k \in 1..Len(wq) :
               wq'[j] = wq[k] /\ k # i /\ k = IF j < i THEN j ELSE j + 1
        <5> TAKE j \in 1..Len(wq')
        <5>1. (IF j < i THEN j ELSE j + 1) \in 1..Len(wq)
          BY <4>1, <4>2
        <5> WITNESS (IF j < i THEN j ELSE j + 1) \in 1..Len(wq)
        <5>2. CASE j < i
          BY <4>1, <4>2, <5>2
        <5>3. CASE ~(j < i)
          BY <4>1, <4>2, <5>3
        <5> QED
          BY <5>2, <5>3
      <4>5. \A j \in 1..Len(wq') : wq'[j] # t /\ \E k \in 1..Len(wq) : wq'[j] = wq[k]
        BY <3>2, <4>3, <4>4
      <4>6. \A j, m \in 1..Len(wq') : wq'[j] = wq'[m] => j = m
        <5> SUFFICES ASSUME NEW j \in 1..Len(wq'), NEW m \in 1..Len(wq'), wq'[j] = wq'[m]
                     PROVE  j = m
          OBVIOUS
        <5>1. (IF j < i THEN j ELSE j + 1) = (IF m < i THEN m ELSE m + 1)
          BY <4>3, <4>4
        <5> QED
          BY <5>1, <4>1, <4>2
      <4>7. wq # <<>>
        BY <4>1, EmptySeq
      <4> QED
        BY <4>2, <4>5, <4>6, <4>7
    <3> QED
      BY <1>10, <3>1, <3>2 DEF WaitDel
  <2>2. TypeOK'
    BY <1>10, <2>1 DEF WaitDel, TypeOK, PCs, InEvent, Goto
  <2>3. MutualExclusion'
    BY <1>10 DEF WaitDel, TypeOK, Goto, MutualExclusion, Holders
  <2>4. LockInv'
    BY <1>10 DEF WaitDel, TypeOK, Goto, LockInv
  <2>5. QueuedEntriesAlive'
    <3>1. \A j \in 1..Len(wq') : wq'[j] \in Tasks /\ pc'[wq'[j]] = pc[wq'[j]]
      BY <1>10, <2>1, ElementOfSeq DEF WaitDel, TypeOK, Goto
    <3> QED
      BY <2>1, <3>1 DEF QueuedEntriesAlive
  <2>6. QueueIsServed'
    BY <1>10, <2>1 DEF WaitDel, TypeOK, Goto, QueueIsServed, Retrying
  <2> QED
    BY <2>2, <2>3, <2>4, <2>5, <2>6
<1>11. ASSUME NEW t \in Tasks, UnlockState(t) PROVE IInv'
  <2>1. TypeOK'
    BY <1>11 DEF UnlockState, TypeOK, PCs, InEvent, Goto
  <2>2. MutualExclusion'
    BY <1>11 DEF UnlockState, TypeOK, PCs, InEvent, Goto, MutualExclusion, Holders
  <2>3. LockInv'
    BY <1>11 DEF UnlockState, TypeOK, PCs, InEvent, Goto, LockInv
  <2>4. QueuedEntriesAlive'
    BY <1>11 DEF UnlockState, TypeOK, PCs, InEvent, Goto, LockInv, QueuedEntriesAlive
  <2>5. QueueIsServed'
    BY <1>11 DEF UnlockState, TypeOK, PCs, InEvent, Goto, LockInv, MutualExclusion, Holders, QueuedEntriesAlive, QueueIsServed, Retrying
  <2> QED
    BY <2>1, <2>2, <2>3, <2>4, <2>5
<1>12. ASSUME NEW t \in Tasks, UnlockOwner(t) PROVE IInv'
  <2>1. TypeOK'
    BY <1>12 DEF UnlockOwner, TypeOK, PCs, InEvent, Goto
  <2>2. MutualExclusion'
    BY <1>12 DEF UnlockOwner, TypeOK, PCs, InEvent, Goto, MutualExclusion, Holders
  <2>3. LockInv'
    BY <1>12 DEF UnlockOwner, TypeOK, PCs, InEvent, Goto, LockInv
  <2>4. QueuedEntriesAlive'
    BY <1>12 DEF UnlockOwner, TypeOK, PCs, InEvent, Goto, LockInv, QueuedEntriesAlive
  <2>5. QueueIsServed'
    BY <1>12 DEF UnlockOwner, TypeOK, PCs, InEvent, Goto, LockInv, MutualExclusion, Holders, QueuedEntriesAlive, QueueIsServed, Retrying
  <2> QED
    BY <2>1, <2>2, <2>3, <2>4, <2>5
<1>13. ASSUME NEW t \in Tasks, WakeUpPop(t) PROVE IInv'
  <2>1. CASE wq = <<>>
    <3>1. TypeOK'
      BY <1>13, <2>1 DEF WakeUpPop, TypeOK, PCs, Goto
    <3>2. MutualExclusion'
      BY <1>13, <2>1 DEF WakeUpPop, TypeOK, Goto, MutualExclusion, Holders
    <3>3. LockInv'
      BY <1>13, <2>1 DEF WakeUpPop, TypeOK, Goto, LockInv
    <3>4. QueuedEntriesAlive' /\ QueueIsServed'
      BY <1>13, <2>1 DEF WakeUpPop, QueuedEntriesAlive, QueueIsServed
    <3> QED
      BY <3>1, <3>2, <3>3, <3>4
  <2>2. CASE wq # <<>>
    <3>1. /\ Head(wq) = wq[1] /\ Len(wq) \in Nat \ {0} /\ Head(wq) \in Tasks
          /\ Tail(wq) \in Seq(Tasks) /\ Len(Tail(wq)) = Len(wq) - 1
          /\ \A j \in 1..Len(Tail(wq)) : Tail(wq)[j] = wq[j + 1]
      BY <2>2, TailElements, LenProperties DEF TypeOK
    <3>2. /\ pc[t] = "wake" /\ wqlock = NULL /\ Goto(t, "kick")
          /\ entry' = [entry EXCEPT ![t] = Head(wq)] /\ wq' = Tail(wq)
          /\ UNCHANGED <<state, owner, wqlock, sleeping>>
      BY <1>13, <2>2 DEF WakeUpPop
    <3>3. TypeOK'
      BY <3>1, <3>2 DEF TypeOK, PCs, Goto
    <3>4. MutualExclusion'
      BY <3>2 DEF TypeOK, Goto, MutualExclusion, Holders
    <3>5. LockInv'
      BY <3>1, <3>2 DEF TypeOK, Goto, LockInv
    <3>6. QueuedEntriesAlive'
      <4>1. \A j \in 1..Len(Tail(wq)) : j + 1 \in 1..Len(wq)
        BY <3>1
      <4>2. \A j \in 1..Len(Tail(wq)) : Tail(wq)[j] \in Tasks \ {t}
        BY <3>1, <3>2, <4>1, ElementOfSeq DEF TypeOK, QueuedEntriesAlive, InEvent
      <4> QED
        BY <3>1, <3>2, <4>1, <4>2 DEF TypeOK, Goto, QueuedEntriesAlive
    <3>7. QueueIsServed'
      <4>1. pc[Head(wq)] \in {"sched", "relock"}
        BY <3>1, <3>2 DEF LockInv, QueuedEntriesAlive, InEvent
      <4>2. /\ pc'[Head(wq)] \in {"sched", "relock"}
            /\ pc'[t] = "kick" /\ entry'[t] = Head(wq)
        BY <3>2, <4>1 DEF TypeOK, Goto
      <4> QED
        BY <3>1, <4>2 DEF QueueIsServed, Retrying
    <3> QED
      BY <3>3, <3>4, <3>5, <3>6, <3>7
  <2> QED
    BY <2>1, <2>2
<1>14. ASSUME NEW t \in Tasks, WakeUpTask(t) PROVE IInv'
  <2>1. TypeOK'
    BY <1>14 DEF WakeUpTask, TypeOK, PCs, InEvent, Goto
  <2>2. MutualExclusion'
    BY <1>14 DEF WakeUpTask, TypeOK, PCs, InEvent, Goto, MutualExclusion, Holders
  <2>3. LockInv'
    BY <1>14 DEF WakeUpTask, TypeOK, PCs, InEvent, Goto, LockInv
  <2>4. QueuedEntriesAlive'
    BY <1>14 DEF WakeUpTask, TypeOK, PCs, InEvent, Goto, LockInv, QueuedEntriesAlive
  <2>5. QueueIsServed'
    BY <1>14 DEF WakeUpTask, TypeOK, PCs, InEvent, Goto, LockInv, MutualExclusion, Holders, QueuedEntriesAlive, QueueIsServed, Retrying
  <2> QED
    BY <2>1, <2>2, <2>3, <2>4, <2>5
<1>15. ASSUME NEW t \in Tasks, NEW from \in {"fast", "try", "cas"},
              NEW otherwise \in {"add", "idle"}, Cas(t, from, otherwise)
       PROVE  IInv'
  <2>1. TypeOK'
    BY <1>15 DEF Cas, TypeOK, PCs, InEvent, Goto
  <2>2. MutualExclusion'
    BY <1>15 DEF Cas, TypeOK, Goto, MutualExclusion, Holders
  <2>3. LockInv'
    BY <1>15 DEF Cas, TypeOK, Goto, LockInv
  <2>4. QueuedEntriesAlive'
    BY <1>15, ElementOfSeq DEF Cas, TypeOK, InEvent, Goto, QueuedEntriesAlive
  <2>5. QueueIsServed'
    BY <1>15 DEF Cas, QueueIsServed
  <2> QED
    BY <2>1, <2>2, <2>3, <2>4, <2>5
<1>16. CASE UNCHANGED vars
  BY <1>16 DEF vars, TypeOK, MutualExclusion, Holders, LockInv, QueuedEntriesAlive,
     QueueIsServed, Retrying
<1> QED
  BY <1>1, <1>2, <1>3, <1>4, <1>5, <1>6, <1>7, <1>8, <1>9, <1>10, <1>11, <1>12,
     <1>13, <1>14, <1>15, <1>16 DEF Next

\* The strengthened invariant holds in every reachable state.
LEMMA InvariantHolds == Spec => []IInv
<1> QED
  BY InitIInv, StepIInv, PTL DEF Spec

\* The words, the wait queue and the entries of mutex.h and wait.h keep their
\* type: a task only ever sleeps, waits and is woken as a task.
THEOREM MutexTyped == Spec => []TypeOK
<1>1. IInv => TypeOK
  BY DEF IInv
<1> QED
  BY <1>1, InvariantHolds, PTL

\* For any set of tasks, mutex_lock and mutex_trylock let one task at a time
\* through and m->state is 1 exactly while one is inside.
THEOREM MutexMutualExclusion == Spec => []MutualExclusion
<1>1. IInv => MutualExclusion
  BY DEF IInv
<1> QED
  BY <1>1, InvariantHolds, PTL

\* For any set of tasks, an entry on the wait queue is linked once and lives
\* in a frame of waitqueue_event that has not returned.
THEOREM MutexQueueAlive == Spec => []QueuedEntriesAlive
<1>1. IInv => QueuedEntriesAlive
  BY DEF IInv
<1> QED
  BY <1>1, InvariantHolds, PTL

\* For any set of tasks, a free mutex with queued entries has somebody about
\* to serve the queue: no wake-up is lost for a task that is still queued.
THEOREM MutexQueueServed == Spec => []QueueIsServed
<1>1. IInv => QueueIsServed
  BY DEF IInv
<1> QED
  BY <1>1, InvariantHolds, PTL

\* The mutex implements the abstract lock: a successful compare-and-swap is
\* StartWrite, the store of 0 is EndWrite, every other step stutters.
THEOREM MutexRefinesLock == Spec => RefinesLock
<1> USE DEF RW!RWInit, RW!RWNext, RW!StartWrite, RW!EndWrite, RW!rwVars
<1>1. Init => RW!RWInit
  BY DEF Init, Holders
<1>2. IInv /\ [Next]_vars => [RW!RWNext]_(RW!rwVars)
  <2> SUFFICES ASSUME IInv, [Next]_vars PROVE [RW!RWNext]_(RW!rwVars)
    OBVIOUS
  <2>1. ASSUME NEW t \in Tasks, NEW from \in {"fast", "try", "cas"},
               NEW otherwise \in {"add", "idle"}, Cas(t, from, otherwise)
        PROVE  [RW!RWNext]_(RW!rwVars)
    <3>1. CASE state = 0
      <4>1. Holders = {} /\ Holders' = {t}
        BY <2>1, <3>1 DEF IInv, TypeOK, Cas, Goto, MutualExclusion, Holders
      <4> QED
        BY <4>1
    <3>2. CASE state # 0
      BY <2>1, <3>2 DEF IInv, TypeOK, Cas, Goto, Holders
    <3> QED
      BY <3>1, <3>2
  <2>2. ASSUME NEW t \in Tasks, UnlockState(t) PROVE [RW!RWNext]_(RW!rwVars)
    <3>1. Holders = {t} /\ Holders' = {}
      BY <2>2 DEF IInv, TypeOK, UnlockState, Goto, MutualExclusion, Holders
    <3> QED
      BY <3>1
  <2>3. ASSUME NEW t \in Tasks,
               \/ Call(t) \/ Signal(t) \/ SetOwner(t) \/ WaitAdd(t) \/ WaitCondition(t)
               \/ TaskSleep(t) \/ WaitUnlock(t) \/ TaskSched(t) \/ WaitRelock(t)
               \/ WaitDel(t) \/ UnlockOwner(t) \/ WakeUpPop(t) \/ WakeUpTask(t)
        PROVE  Holders' = Holders
    BY <2>3 DEF IInv, TypeOK, Goto, Holders, Call, Signal, SetOwner, WaitAdd,
       WaitCondition, TaskSleep, WaitUnlock, TaskSched, WaitRelock, WaitDel,
       UnlockOwner, WakeUpPop, WakeUpTask
  <2>4. CASE UNCHANGED vars
    BY <2>4 DEF vars, Holders
  <2> QED
    BY <2>1, <2>2, <2>3, <2>4 DEF Next
<1> QED
  BY <1>1, <1>2, InvariantHolds, PTL DEF Spec, RefinesLock, RW!RWSpec
=============================================================================
