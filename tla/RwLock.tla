------------------------------- MODULE RwLock -------------------------------
(***************************************************************************)
(* The spinning reader-writer lock of kernel/include/rwlock.h.             *)
(*                                                                         *)
(* The 32-bit word rw->state is kept as its three fields: the reader count *)
(* (bits 0..29), RWLOCK_WRITE_LOCKED (bit 30) and RWLOCK_WRITE_WAITING     *)
(* (bit 31).  A compare-and-swap compares all three.  Each atomic access   *)
(* to the word is one step, so a thread's loaded copy may be stale when it *)
(* acts on it.  x86 compare-and-swap does not fail spuriously.             *)
(***************************************************************************)
EXTENDS Integers, FiniteSets

CONSTANT Threads

\* The reader count has 30 bits, and every thread spins with its own CPU.
ASSUME ThreadsAssumption ==
    IsFiniteSet(Threads) /\ Cardinality(Threads) < 1073741824

VARIABLES state,   \* rw->state
          pc,      \* where each thread is
          s        \* each thread's local copy of the word

vars == <<state, pc, s>>

Word == [rd : Nat, wl : BOOLEAN, ww : BOOLEAN]

Zero == [rd |-> 0, wl |-> FALSE, ww |-> FALSE]
WriteLocked == [rd |-> 0, wl |-> TRUE, ww |-> FALSE]

PCs == {"idle", "rd", "rd_cas", "reading", "wr", "wr_cas", "wr_or", "writing"}

Init ==
    /\ state = Zero
    /\ pc = [t \in Threads |-> "idle"]
    /\ s = [t \in Threads |-> Zero]

Goto(t, l) == pc' = [pc EXCEPT ![t] = l]

-----------------------------------------------------------------------------
\* A thread calls rwlock_read_lock or rwlock_write_lock.
Call(t) ==
    /\ pc[t] = "idle"
    /\ \E l \in {"rd", "wr"} : Goto(t, l)
    /\ UNCHANGED <<state, s>>

\* The load of rwlock_read_lock; with a writer in the word it spins.
ReadLoad(t) ==
    /\ pc[t] = "rd"
    /\ ~state.wl /\ ~state.ww
    /\ s' = [s EXCEPT ![t] = state]
    /\ Goto(t, "rd_cas")
    /\ UNCHANGED state

\* The compare-and-swap of rwlock_read_lock: s becomes s + 1, or loop again.
MReadCas(t) ==
    /\ pc[t] = "rd_cas"
    /\ IF state.rd = s[t].rd
         THEN state' = [state EXCEPT !.rd = @ + 1] /\ Goto(t, "reading")
         ELSE state' = state /\ Goto(t, "rd")
    /\ s' = [s EXCEPT ![t] = Zero]
ReadCas(t) ==
    /\ pc[t] = "rd_cas"
    /\ IF state = s[t]
         THEN state' = [s[t] EXCEPT !.rd = @ + 1] /\ Goto(t, "reading")
         ELSE state' = state /\ Goto(t, "rd")
    /\ s' = [s EXCEPT ![t] = Zero]

\* rwlock_read_unlock: a fetch_sub that leaves the two writer bits alone.
ReadUnlock(t) ==
    /\ pc[t] = "reading"
    /\ state' = [state EXCEPT !.rd = @ - 1]
    /\ Goto(t, "idle")
    /\ UNCHANGED s

\* The load of rwlock_write_lock picks one of its three branches.
MWriteLoad(t) ==
    /\ pc[t] = "wr"
    /\ s' = [s EXCEPT ![t] = state]
    /\ \/ ~state.wl /\ Goto(t, "wr_cas")
       \/ state # Zero /\ ~state.ww /\ Goto(t, "wr_or")
    /\ UNCHANGED state
WriteLoad(t) ==
    /\ pc[t] = "wr"
    /\ s' = [s EXCEPT ![t] = state]
    /\ \/ state = Zero /\ Goto(t, "wr_cas")
       \/ state # Zero /\ ~state.ww /\ Goto(t, "wr_or")
    /\ UNCHANGED state

\* The compare-and-swap of rwlock_write_lock.
MWriteCas(t) ==
    /\ pc[t] = "wr_cas"
    /\ state' = IF state.rd = 0 /\ ~state.wl THEN [state EXCEPT !.ww = TRUE] ELSE state
    /\ Goto(t, IF state.rd = 0 /\ ~state.wl THEN "writing" ELSE "wr")
    /\ s' = [s EXCEPT ![t] = Zero]
WriteCas(t) ==
    /\ pc[t] = "wr_cas"
    /\ IF state = s[t]
         THEN state' = WriteLocked /\ Goto(t, "writing")
         ELSE state' = state /\ Goto(t, "wr")
    /\ s' = [s EXCEPT ![t] = Zero]

\* The fetch_or of RWLOCK_WRITE_WAITING, whatever the word holds by now.
WriteMarkWaiting(t) ==
    /\ pc[t] = "wr_or"
    /\ state' = [state EXCEPT !.ww = TRUE]
    /\ Goto(t, "wr")
    /\ s' = [s EXCEPT ![t] = Zero]

\* rwlock_write_unlock stores 0.
WriteUnlock(t) ==
    /\ pc[t] = "writing"
    /\ state' = Zero
    /\ Goto(t, "idle")
    /\ UNCHANGED s

\* An iteration of either loop that reads a word it can only wait on.
Spin(t) ==
    /\ \/ pc[t] = "rd" /\ (state.wl \/ state.ww)
       \/ pc[t] = "wr" /\ state # Zero /\ state.ww
    /\ UNCHANGED vars

Step(t) ==
    \/ ReadLoad(t) \/ ReadCas(t) \/ ReadUnlock(t)
    \/ WriteLoad(t) \/ WriteCas(t) \/ WriteMarkWaiting(t) \/ WriteUnlock(t)

Next == \E t \in Threads : Call(t) \/ Step(t) \/ Spin(t)

Spec == Init /\ [][Next]_vars

\* Spinning threads keep running, and a holder leaves its critical section.
FairSpec == Spec /\ \A t \in Threads : WF_vars(Step(t))

-----------------------------------------------------------------------------
Readers == {t \in Threads : pc[t] = "reading"}
Writers == {t \in Threads : pc[t] = "writing"}

TypeOK ==
    /\ state \in Word
    /\ pc \in [Threads -> PCs]
    /\ s \in [Threads -> Word]

\* rwlock_read_lock and rwlock_write_lock return only when no writer, or
\* nobody at all, holds the lock: a writer excludes readers and writers.
Exclusion ==
    /\ Writers = {} \/ Readers = {}
    /\ \A t, u \in Writers : t = u

\* The word counts the holders exactly, so that the fetch_sub of
\* rwlock_read_unlock never borrows from the writer bits and the store of
\* rwlock_write_unlock never wipes out a reader.
WordCountsHolders ==
    /\ state.rd = Cardinality(Readers)
    /\ state.wl <=> Writers # {}

\* The lock implements the abstract reader-writer lock.
RW == INSTANCE ReadersWriters WITH reading <- Readers, writing <- Writers
RefinesReadersWriters == RW!RWSpec

\* rwlock_write_lock goes for the lock directly when nobody holds it: a free
\* lock that threads want is eventually held by one of them.
FreeLockIsTaken ==
    (Readers \cup Writers = {} /\ \E t \in Threads : pc[t] \in {"rd", "wr"})
        ~> (Readers \cup Writers # {})
=============================================================================
