---------------------------- MODULE RwLockProofs ----------------------------
(***************************************************************************)
(* Proofs about the reader-writer lock of kernel/include/rwlock.h, for any *)
(* finite set of threads.                                                  *)
(***************************************************************************)
EXTENDS RwLock, FiniteSetTheorems, TLAPS

\* Exclusion is not inductive: the compare-and-swap of rwlock_read_lock only
\* keeps it because the copy it compares with has no writer bit, and the one
\* of rwlock_write_lock because its copy is 0 and the word counts readers.
IInv ==
    /\ TypeOK
    /\ Exclusion
    /\ WordCountsHolders
    /\ \A t \in Threads : pc[t] = "rd_cas" => ~s[t].wl /\ ~s[t].ww
    /\ \A t \in Threads : pc[t] = "wr_cas" => s[t] = Zero

\* Initially nobody holds the lock and the word is 0.
LEMMA InitIInv == Init => IInv
<1> SUFFICES ASSUME Init PROVE IInv
  OBVIOUS
<1>1. Readers = {} /\ Writers = {}
  BY DEF Init, Readers, Writers
<1>2. Cardinality({}) = 0
  BY FS_EmptySet
<1> QED
  BY <1>1, <1>2 DEF Init, IInv, TypeOK, Exclusion, WordCountsHolders, Zero, Word, PCs

\* A step that moves t from a label other than "reading" to "reading" adds
\* t to the readers, and their number grows by one.
LEMMA ReadersGrow ==
  ASSUME TypeOK, NEW t \in Threads, pc[t] # "reading", Goto(t, "reading")
  PROVE  /\ Readers' = Readers \cup {t}
         /\ Writers' = Writers \ {t}
         /\ Cardinality(Readers') = Cardinality(Readers) + 1
         /\ Cardinality(Readers) \in Nat
<1>1. Readers' = Readers \cup {t} /\ Writers' = Writers \ {t}
  BY DEF TypeOK, Goto, Readers, Writers
<1>2. IsFiniteSet(Readers)
  BY ThreadsAssumption, FS_Subset DEF Readers
<1>3. t \notin Readers
  BY DEF Readers
<1> QED
  BY <1>1, <1>2, <1>3, FS_AddElement, FS_CardinalityType

\* A step that moves t away from "reading" removes it, and their number
\* drops by one from a positive value.
LEMMA ReadersShrink ==
  ASSUME TypeOK, NEW t \in Threads, pc[t] = "reading", Goto(t, "idle")
  PROVE  /\ Readers' = Readers \ {t}
         /\ Writers' = Writers
         /\ Cardinality(Readers') = Cardinality(Readers) - 1
         /\ Cardinality(Readers') \in Nat
<1>1. Readers' = Readers \ {t} /\ Writers' = Writers
  BY DEF TypeOK, Goto, Readers, Writers
<1>2. IsFiniteSet(Readers)
  BY ThreadsAssumption, FS_Subset DEF Readers
<1>3. t \in Readers
  BY DEF Readers
<1>4. IsFiniteSet(Readers')
  BY <1>1, <1>2, FS_Subset
<1> QED
  BY <1>1, <1>2, <1>3, <1>4, FS_RemoveElement, FS_CardinalityType

\* A step between labels where t holds nothing leaves the holders alone.
LEMMA HoldersStay ==
  ASSUME TypeOK, NEW t \in Threads, pc[t] \notin {"reading", "writing"},
         NEW l \in PCs \ {"reading", "writing"}, Goto(t, l)
  PROVE  Readers' = Readers /\ Writers' = Writers
BY DEF TypeOK, Goto, Readers, Writers, PCs

\* Every step keeps the strengthened invariant.
LEMMA StepIInv == IInv /\ [Next]_vars => IInv'
<1> SUFFICES ASSUME IInv, [Next]_vars PROVE IInv'
  OBVIOUS
<1> USE DEF IInv
<1>1. ASSUME NEW t \in Threads, Call(t) PROVE IInv'
  <2>1. PICK l \in {"rd", "wr"} : Goto(t, l)
    BY <1>1 DEF Call
  <2>2. Readers' = Readers /\ Writers' = Writers
    BY <1>1, <2>1, HoldersStay DEF Call, PCs
  <2> QED
    BY <1>1, <2>1, <2>2 DEF Call, Goto, TypeOK, PCs, Exclusion, WordCountsHolders
<1>2. ASSUME NEW t \in Threads, ReadLoad(t) PROVE IInv'
  <2>1. Readers' = Readers /\ Writers' = Writers
    BY <1>2, HoldersStay DEF ReadLoad, PCs
  <2> QED
    BY <1>2, <2>1 DEF ReadLoad, Goto, TypeOK, PCs, Exclusion, WordCountsHolders
<1>3. ASSUME NEW t \in Threads, ReadCas(t) PROVE IInv'
  <2>1. CASE state = s[t]
    <3>1. state.wl = FALSE /\ state \in Word /\ Writers = {}
      BY <1>3, <2>1 DEF ReadCas, TypeOK, Word, WordCountsHolders
    <3>2. Goto(t, "reading") /\ state' = [state EXCEPT !.rd = @ + 1]
      BY <1>3, <2>1 DEF ReadCas
    <3>3. /\ Readers' = Readers \cup {t} /\ Writers' = {}
          /\ Cardinality(Readers') = Cardinality(Readers) + 1
      BY <1>3, <3>1, <3>2, ReadersGrow DEF ReadCas
    <3>4. TypeOK'
      BY <1>3, <3>1, <3>2 DEF ReadCas, Goto, TypeOK, PCs, Word, Zero
    <3>5. Exclusion'
      BY <3>3 DEF Exclusion
    <3>6. WordCountsHolders'
      BY <3>1, <3>2, <3>3 DEF WordCountsHolders, Word
    <3> QED
      BY <1>3, <3>2, <3>4, <3>5, <3>6 DEF ReadCas, Goto, TypeOK, Zero
  <2>2. CASE state # s[t]
    <3>1. Readers' = Readers /\ Writers' = Writers
      BY <1>3, <2>2, HoldersStay DEF ReadCas, PCs
    <3>2. TypeOK'
      BY <1>3, <2>2 DEF ReadCas, Goto, TypeOK, PCs, Word, Zero
    <3>3. Exclusion' /\ WordCountsHolders'
      BY <1>3, <2>2, <3>1 DEF ReadCas, Exclusion, WordCountsHolders
    <3> QED
      BY <1>3, <2>2, <3>2, <3>3 DEF ReadCas, Goto, TypeOK, Zero
  <2> QED
    BY <2>1, <2>2
<1>4. ASSUME NEW t \in Threads, ReadUnlock(t) PROVE IInv'
  <2>1. /\ Readers' = Readers \ {t} /\ Writers' = Writers
        /\ Cardinality(Readers') = Cardinality(Readers) - 1
        /\ Cardinality(Readers') \in Nat
    BY <1>4, ReadersShrink DEF ReadUnlock
  <2>2. TypeOK'
    BY <1>4, <2>1 DEF ReadUnlock, Goto, TypeOK, PCs, Word, WordCountsHolders
  <2>3. Exclusion'
    BY <2>1 DEF Exclusion
  <2>4. WordCountsHolders'
    BY <1>4, <2>1 DEF ReadUnlock, TypeOK, Word, WordCountsHolders
  <2> QED
    BY <1>4, <2>2, <2>3, <2>4 DEF ReadUnlock, Goto, TypeOK
<1>5. ASSUME NEW t \in Threads, WriteLoad(t) PROVE IInv'
  <2>1. Readers' = Readers /\ Writers' = Writers
    BY <1>5, HoldersStay DEF WriteLoad, PCs
  <2> QED
    BY <1>5, <2>1 DEF WriteLoad, Goto, TypeOK, PCs, Exclusion, WordCountsHolders
<1>6. ASSUME NEW t \in Threads, WriteCas(t) PROVE IInv'
  <2>1. CASE state = s[t]
    <3>1. state = Zero
      BY <1>6, <2>1 DEF WriteCas
    <3>2. IsFiniteSet(Readers)
      BY ThreadsAssumption, FS_Subset DEF Readers
    <3>3. Readers = {} /\ Writers = {}
      BY <3>1, <3>2, FS_EmptySet DEF WordCountsHolders, Zero
    <3>4. Readers' = {} /\ Writers' = {t}
      BY <1>6, <2>1, <3>3 DEF WriteCas, Goto, TypeOK, Readers, Writers
    <3>5. WordCountsHolders'
      BY <1>6, <2>1, <3>4, FS_EmptySet DEF WriteCas, WordCountsHolders, WriteLocked
    <3>6. TypeOK'
      <4>1. Zero \in Word /\ WriteLocked \in Word
        BY DEF Zero, WriteLocked, Word
      <4>2. pc' = [pc EXCEPT ![t] = "writing"] /\ s' = [s EXCEPT ![t] = Zero]
        BY <1>6, <2>1 DEF WriteCas, Goto
      <4> QED
        BY <1>6, <2>1, <4>1, <4>2 DEF WriteCas, TypeOK, PCs
    <3>7. Exclusion'
      BY <3>4 DEF Exclusion
    <3>8. \A u \in Threads : u # t => pc'[u] = pc[u] /\ s'[u] = s[u]
      BY <1>6, <2>1 DEF WriteCas, Goto, TypeOK
    <3>9. pc'[t] = "writing"
      BY <1>6, <2>1 DEF WriteCas, Goto, TypeOK
    <3> QED
      BY <3>5, <3>6, <3>7, <3>8, <3>9
  <2>2. CASE state # s[t]
    <3>1. Readers' = Readers /\ Writers' = Writers
      BY <1>6, <2>2, HoldersStay DEF WriteCas, PCs
    <3>2. TypeOK'
      BY <1>6, <2>2 DEF WriteCas, Goto, TypeOK, PCs, Word, Zero
    <3>3. Exclusion' /\ WordCountsHolders'
      BY <1>6, <2>2, <3>1 DEF WriteCas, Exclusion, WordCountsHolders
    <3> QED
      BY <1>6, <2>2, <3>2, <3>3 DEF WriteCas, Goto, TypeOK, Zero
  <2> QED
    BY <2>1, <2>2
<1>7. ASSUME NEW t \in Threads, WriteMarkWaiting(t) PROVE IInv'
  <2>1. Readers' = Readers /\ Writers' = Writers
    BY <1>7, HoldersStay DEF WriteMarkWaiting, PCs
  <2>2. state'.rd = state.rd /\ state'.wl = state.wl /\ state' \in Word
    BY <1>7 DEF WriteMarkWaiting, TypeOK, Word
  <2>3. TypeOK'
    BY <1>7, <2>2 DEF WriteMarkWaiting, Goto, TypeOK, PCs, Word, Zero
  <2>4. Exclusion' /\ WordCountsHolders'
    BY <2>1, <2>2 DEF Exclusion, WordCountsHolders
  <2> QED
    BY <1>7, <2>3, <2>4 DEF WriteMarkWaiting, Goto, TypeOK, Zero
<1>8. ASSUME NEW t \in Threads, WriteUnlock(t) PROVE IInv'
  <2>1. t \in Writers
    BY <1>8 DEF WriteUnlock, Writers
  <2>2. Readers = {} /\ Writers = {t}
    BY <2>1 DEF Exclusion
  <2>3. Readers' = {} /\ Writers' = {}
    BY <1>8, <2>2 DEF WriteUnlock, Goto, TypeOK, Readers, Writers
  <2>4. WordCountsHolders'
    BY <1>8, <2>3, FS_EmptySet DEF WriteUnlock, WordCountsHolders, Zero
  <2> QED
    BY <1>8, <2>3, <2>4 DEF WriteUnlock, Goto, TypeOK, PCs, Word, Zero, Exclusion
<1>9. CASE UNCHANGED vars
  BY <1>9 DEF vars, TypeOK, Exclusion, WordCountsHolders, Readers, Writers
<1> QED
  BY <1>1, <1>2, <1>3, <1>4, <1>5, <1>6, <1>7, <1>8, <1>9 DEF Next, Step, Spin

\* The strengthened invariant holds in every reachable state.
LEMMA InvariantHolds == Spec => []IInv
BY InitIInv, StepIInv, PTL DEF Spec

\* The fields of rw->state and of every loaded copy keep their type: the reader
\* count never goes below 0 in rwlock_read_unlock.
THEOREM RwLockTyped == Spec => []TypeOK
<1>1. IInv => TypeOK
  BY DEF IInv
<1> QED
  BY <1>1, InvariantHolds, PTL

\* A thread inside rwlock_write_lock's critical section excludes every other
\* holder of the rwlock.
THEOREM RwLockExclusion == Spec => []Exclusion
<1>1. IInv => Exclusion
  BY DEF IInv
<1> QED
  BY <1>1, InvariantHolds, PTL

\* The word rw->state counts the holders exactly, so rwlock_read_unlock never
\* borrows and rwlock_write_unlock never loses a reader.
THEOREM RwLockWord == Spec => []WordCountsHolders
<1>1. IInv => WordCountsHolders
  BY DEF IInv
<1> QED
  BY <1>1, InvariantHolds, PTL

\* Seen through its sets of readers and writers, the lock only ever takes
\* steps of the abstract reader-writer lock: what rwlock_read_lock,
\* rwlock_read_unlock, rwlock_write_lock and rwlock_write_unlock promise.
THEOREM RwLockRefines == Spec => RefinesReadersWriters
<1>1. Init => RW!RWInit
  BY DEF Init, RW!RWInit, Readers, Writers
<1>2. IInv /\ [Next]_vars => [RW!RWNext]_(RW!rwVars)
  <2> SUFFICES ASSUME IInv, [Next]_vars PROVE [RW!RWNext]_(RW!rwVars)
    OBVIOUS
  <2> USE DEF RW!rwVars, RW!RWNext
  <2>1. ASSUME NEW t \in Threads, Call(t) \/ ReadLoad(t) \/ WriteLoad(t) \/ WriteMarkWaiting(t)
        PROVE  Readers' = Readers /\ Writers' = Writers
    BY <2>1, HoldersStay DEF IInv, Call, ReadLoad, WriteLoad, WriteMarkWaiting, PCs
  <2>2. ASSUME NEW t \in Threads, ReadCas(t) PROVE [RW!RWNext]_(RW!rwVars)
    <3>1. CASE state = s[t]
      <4>1. Writers = {}
        BY <2>2, <3>1 DEF ReadCas, IInv, WordCountsHolders
      <4>2. Readers' = Readers \cup {t} /\ Writers' = {} /\ t \notin Readers
        BY <2>2, <3>1, <4>1, ReadersGrow DEF IInv, ReadCas, Readers
      <4> QED
        BY <4>1, <4>2 DEF RW!StartRead
    <3>2. CASE state # s[t]
      BY <2>2, <3>2, HoldersStay DEF IInv, ReadCas, PCs
    <3> QED
      BY <3>1, <3>2
  <2>3. ASSUME NEW t \in Threads, ReadUnlock(t) PROVE [RW!RWNext]_(RW!rwVars)
    <3>1. Readers' = Readers \ {t} /\ Writers' = Writers /\ t \in Readers
      BY <2>3, ReadersShrink DEF IInv, ReadUnlock, Readers
    <3> QED
      BY <3>1 DEF RW!EndRead
  <2>4. ASSUME NEW t \in Threads, WriteCas(t) PROVE [RW!RWNext]_(RW!rwVars)
    <3>1. CASE state = s[t]
      <4>1. IsFiniteSet(Readers)
        BY ThreadsAssumption, FS_Subset DEF Readers
      <4>2. Readers = {} /\ Writers = {}
        BY <2>4, <3>1, <4>1, FS_EmptySet DEF IInv, WriteCas, WordCountsHolders, Zero
      <4>3. Readers' = {} /\ Writers' = {t}
        BY <2>4, <3>1, <4>2 DEF IInv, WriteCas, Goto, TypeOK, Readers, Writers
      <4> QED
        BY <4>2, <4>3 DEF RW!StartWrite
    <3>2. CASE state # s[t]
      BY <2>4, <3>2, HoldersStay DEF IInv, WriteCas, PCs
    <3> QED
      BY <3>1, <3>2
  <2>5. ASSUME NEW t \in Threads, WriteUnlock(t) PROVE [RW!RWNext]_(RW!rwVars)
    <3>1. Readers' = Readers /\ Writers' = Writers \ {t} /\ t \in Writers
      BY <2>5 DEF IInv, TypeOK, WriteUnlock, Goto, Readers, Writers
    <3> QED
      BY <3>1 DEF RW!EndWrite
  <2>6. CASE UNCHANGED vars
    BY <2>6 DEF vars, Readers, Writers
  <2> QED
    BY <2>1, <2>2, <2>3, <2>4, <2>5, <2>6 DEF Next, Step, Spin
<1> QED
  BY <1>1, <1>2, InvariantHolds, PTL DEF Spec, RefinesReadersWriters, RW!RWSpec
=============================================================================
