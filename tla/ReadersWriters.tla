--------------------------- MODULE ReadersWriters ---------------------------
(***************************************************************************)
(* What a reader-writer lock promises, with no word about how: a set of    *)
(* threads reading and a set of threads writing.  The rwlock_t of          *)
(* kernel/include/rwlock.h is shown to implement this specification        *)
(* (RwLock.tla, RwLockProofs.tla).                                         *)
(***************************************************************************)
CONSTANT Threads

VARIABLES reading,   \* the threads between read_lock and read_unlock
          writing    \* the threads between write_lock and write_unlock

rwVars == <<reading, writing>>

RWInit == reading = {} /\ writing = {}

StartRead(t) ==
    /\ t \notin reading
    /\ writing = {}
    /\ reading' = reading \cup {t}
    /\ UNCHANGED writing

EndRead(t) ==
    /\ t \in reading
    /\ reading' = reading \ {t}
    /\ UNCHANGED writing

StartWrite(t) ==
    /\ writing = {}
    /\ reading = {}
    /\ writing' = {t}
    /\ UNCHANGED reading

EndWrite(t) ==
    /\ t \in writing
    /\ writing' = writing \ {t}
    /\ UNCHANGED reading

RWNext == \E t \in Threads :
    StartRead(t) \/ EndRead(t) \/ StartWrite(t) \/ EndWrite(t)

RWSpec == RWInit /\ [][RWNext]_rwVars
=============================================================================
