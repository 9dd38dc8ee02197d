--------------------------- MODULE DynBitmapProofs ---------------------------
(***************************************************************************)
(* A bitmap that is never grown is a pool of ids, for every size.  With    *)
(* growth it is not (run dynbitmap_reuse); that no id is lost holds with   *)
(* and without growth.                                                     *)
(***************************************************************************)
EXTENDS DynBitmap, TLAPS

LEMMA MulMono ==
    ASSUME NEW a \in Nat, NEW b \in Nat, NEW u \in Nat, a <= b
    PROVE  a * u <= b * u
  OBVIOUS

\* The bits within the capacity are ids of the model.
LEMMA BitsAreIds ==
    ASSUME TypeOK, NEW i \in 0..(cap * Unit - 1)
    PROVE  i \in Ids
  <1>1. cap * Unit <= GrowBound * Unit
    BY MulMono, DynBitmapAssumption DEF TypeOK
  <1>2. cap * Unit \in Int /\ GrowBound * Unit \in Int
    BY DynBitmapAssumption DEF TypeOK
  <1> QED BY <1>1, <1>2 DEF Ids

LEMMA InitTypeOK == Init => TypeOK /\ NoLostIds
  BY DynBitmapAssumption DEF Init, InitCap, TypeOK, NoLostIds, Taken

\* What a grant does to the ids in use.
LEMMA GrantTypes ==
    ASSUME TypeOK, NEW i \in Ids, NEW b, b \subseteq Taken \cup Dirty, Grant(i, b)
    PROVE  /\ holders' \in [Ids -> Nat]
           /\ bits' \subseteq Taken' \cup Dirty
           /\ Taken' = Taken \cup {i}
  <1>1. holders' \in [Ids -> Nat]
    BY DEF Grant, TypeOK
  <1>2. Taken' = Taken \cup {i}
    BY DEF Grant, TypeOK, Taken
  <1> QED BY <1>1, <1>2 DEF Grant

LEMMA FreeTypes ==
    ASSUME TypeOK, NoLostIds, NEW i \in Ids, Free(i)
    PROVE  /\ TypeOK' /\ NoLostIds'
           /\ Taken' = IF holders[i] = 1 THEN Taken \ {i} ELSE Taken
  <1>1. TypeOK'
    <2>1. holders' \in [Ids -> Nat]
      BY DEF Free, TypeOK
    <2>2. bits' \subseteq bits /\ cap' = cap /\ limit' = limit
      BY DEF Free
    <2> QED BY <2>1, <2>2 DEF TypeOK
  <1>2. Taken' = IF holders[i] = 1 THEN Taken \ {i} ELSE Taken
    BY DEF Free, TypeOK, Taken
  <1>3. bits' = bits \ {i}
    BY DynBitmapAssumption DEF Free, TypeOK, Ids
  <1> QED BY <1>1, <1>2, <1>3 DEF NoLostIds

LEMMA FoundTypes ==
    ASSUME TypeOK, NoLostIds, AllocFound
    PROVE  TypeOK' /\ NoLostIds'
  <1> PICK i \in 0..(cap * Unit - 1) : Grant(i, bits) /\ UNCHANGED <<limit, cap>>
    BY DEF AllocFound
  <1>1. i \in Ids
    BY BitsAreIds
  <1>2. holders' \in [Ids -> Nat] /\ NoLostIds'
    BY <1>1, GrantTypes DEF NoLostIds
  <1>3. bits' \in SUBSET (0..(cap' * Unit - 1))
    BY DEF Grant, TypeOK
  <1> QED BY <1>2, <1>3 DEF TypeOK

LEMMA GrowTypes ==
    ASSUME TypeOK, NoLostIds, AllocGrow
    PROVE  TypeOK' /\ NoLostIds'
  <1>1. cap' \in 1..GrowBound /\ (limit' # 0 => cap' <= limit') /\ limit' \in Limits
    BY DynBitmapAssumption DEF AllocGrow, TypeOK
  <1> PICK i \in 0..(cap' * Unit - 1) : Grant(i, {})
    BY DEF AllocGrow, Copied
  <1> DEFINE c == cap'
  <1>a. c \in 1..GrowBound /\ i \in 0..(c * Unit - 1)
    BY <1>1, Zenon
  <1> HIDE DEF c
  <1>2. c * Unit <= GrowBound * Unit /\ c * Unit \in Int /\ GrowBound * Unit \in Int
    BY <1>a, MulMono, DynBitmapAssumption
  <1>3. i \in Ids
    BY <1>a, <1>2 DEF Ids
  <1>4. holders' \in [Ids -> Nat] /\ NoLostIds'
    BY <1>3, GrantTypes DEF NoLostIds
  <1>5. bits' \in SUBSET (0..(cap' * Unit - 1))
    BY DEF Grant
  <1> QED BY <1>1, <1>4, <1>5 DEF TypeOK

LEMMA StepTypes == TypeOK /\ NoLostIds /\ [Next]_vars => TypeOK' /\ NoLostIds'
  <1> SUFFICES ASSUME TypeOK, NoLostIds, [Next]_vars
               PROVE  TypeOK' /\ NoLostIds'
    OBVIOUS
  <1>1. CASE AllocFound
    BY <1>1, FoundTypes
  <1>2. CASE AllocGrow
    BY <1>2, GrowTypes
  <1>3. CASE \E i \in Ids : Free(i)
    BY <1>3, FreeTypes
  <1>4. CASE UNCHANGED vars
    BY <1>4 DEF vars, TypeOK, NoLostIds, Taken
  <1> QED BY <1>1, <1>2, <1>3, <1>4 DEF Next

\* No id is lost, whatever the sizes and however often the bitmap grows: every
\* set bit stands for an id that dynarr_bitmap_alloc gave to somebody who
\* still holds it.
THEOREM BitmapLosesNoIds == Spec => []NoLostIds
  <1>1. TypeOK /\ NoLostIds /\ [Next]_vars => (TypeOK /\ NoLostIds)'
    BY StepTypes
  <1> QED BY <1>1, InitTypeOK, PTL DEF Spec

-----------------------------------------------------------------------------
\* At a fixed size the ids in use, by one caller each, have their bit set.
FixedInv ==
    /\ TypeOK /\ NoLostIds /\ UniqueIds
    /\ Fixed => cap = InitCap /\ Taken \subseteq bits

LEMMA InitFixed == Init => FixedInv
  BY InitTypeOK DEF Init, FixedInv, UniqueIds, Taken, Ids

\* Whether the size is fixed does not change.
LEMMA FixedStays == ASSUME [Next]_vars PROVE limit' = limit /\ Fixed' = Fixed
  <1>1. limit' = limit
    BY DEF Next, vars, AllocFound, AllocGrow, Free
  <1> QED BY <1>1 DEF Fixed

LEMMA StepFixed ==
    ASSUME Fixed, FixedInv, [Next]_vars
    PROVE  /\ FixedInv'
           /\ \/ \E i \in Ids : holders[i] = 0 /\ holders' = [holders EXCEPT ![i] = 1]
              \/ \E i \in Ids : holders[i] = 1 /\ holders' = [holders EXCEPT ![i] = 0]
              \/ UNCHANGED holders
  <1> USE DEF FixedInv
  <1>0. limit' = limit /\ InitCap' = InitCap
    BY FixedStays DEF InitCap
  <1>1. TypeOK' /\ NoLostIds'
    BY StepTypes
  <1>2. CASE AllocFound
    <2> PICK i \in 0..(cap * Unit - 1) :
           FirstClear(i, bits) /\ Grant(i, bits) /\ UNCHANGED <<limit, cap>>
      BY <1>2 DEF AllocFound
    <2>1. i \in Ids /\ i \notin Taken
      BY BitsAreIds DEF FirstClear
    <2>2. Taken' = Taken \cup {i}
      BY <2>1, GrantTypes DEF NoLostIds
    <2>3. holders[i] = 0
      BY <2>1 DEF Taken, TypeOK
    <2>4. UniqueIds'
      BY <2>1, <2>3 DEF UniqueIds, Grant, TypeOK
    <2>5. holders' = [holders EXCEPT ![i] = 1]
      BY <2>3 DEF Grant
    <2>6. bits' = bits \cup {i}
      BY DEF Grant
    <2>7. FixedInv'
      BY <1>0, <1>1, <2>2, <2>4, <2>6
    <2> QED BY <2>1, <2>3, <2>5, <2>7, Zenon
  <1>3. CASE AllocGrow
    BY <1>3, DynBitmapAssumption DEF AllocGrow, Fixed, InitCap, TypeOK
  <1>4. CASE \E i \in Ids : Free(i)
    <2> PICK i \in Ids : Free(i)
      BY <1>4
    <2>1. holders[i] = 1
      BY DEF Free, UniqueIds, TypeOK
    <2>2. Taken' = Taken \ {i}
      BY <2>1, FreeTypes
    <2>3. bits' = bits \ {i} /\ UNCHANGED cap
      BY DynBitmapAssumption DEF Free, TypeOK, Ids
    <2>4. UniqueIds'
      BY DEF UniqueIds, Free, TypeOK
    <2>5. holders' = [holders EXCEPT ![i] = 0]
      BY <2>1 DEF Free
    <2>6. FixedInv'
      BY <1>0, <1>1, <2>2, <2>3, <2>4
    <2> QED BY <2>1, <2>5, <2>6, Zenon
  <1>5. CASE UNCHANGED vars
    BY <1>0, <1>1, <1>5 DEF vars, Taken, UniqueIds, Fixed
  <1> QED BY <1>2, <1>3, <1>4, <1>5 DEF Next

LEMMA StepInv == FixedInv /\ [Next]_vars => FixedInv'
  <1> SUFFICES ASSUME FixedInv, [Next]_vars PROVE FixedInv'
    OBVIOUS
  <1>1. CASE Fixed
    BY <1>1, StepFixed
  <1>2. CASE ~Fixed
    BY <1>2, StepTypes, FixedStays DEF FixedInv, UniqueIds
  <1> QED BY <1>1, <1>2

LEMMA StepPool ==
    FixedInv /\ [Next]_vars => [Pool!Take \/ Pool!Return]_PoolUsers
  <1> SUFFICES ASSUME FixedInv, [Next]_vars
               PROVE  Pool!Take \/ Pool!Return \/ PoolUsers' = PoolUsers
    OBVIOUS
  <1>1. CASE Fixed
    <2>1. PoolUsers = holders /\ PoolUsers' = holders'
      BY <1>1, FixedStays DEF PoolUsers
    <2>2. CASE UNCHANGED holders
      BY <2>1, <2>2
    <2>3. CASE \E i \in Ids : holders[i] = 0 /\ holders' = [holders EXCEPT ![i] = 1]
      BY <2>1, <2>3, Zenon DEF Pool!Take
    <2>4. CASE \E i \in Ids : holders[i] = 1 /\ holders' = [holders EXCEPT ![i] = 0]
      BY <2>1, <2>4, Zenon DEF Pool!Return
    <2> QED BY <1>1, StepFixed, <2>2, <2>3, <2>4
  <1>2. CASE ~Fixed
    BY <1>2, FixedStays DEF PoolUsers
  <1> QED BY <1>1, <1>2

\* dynarr_bitmap_alloc never gives one id to two callers as long as the
\* bitmap need not grow.
THEOREM FixedBitmapUnique == Spec => []UniqueIds
  <1>1. FixedInv => UniqueIds
    BY DEF FixedInv
  <1> QED BY <1>1, StepInv, InitFixed, PTL DEF Spec

\* A bitmap that need not grow implements the pool of ids its users rely on.
THEOREM FixedBitmapIsPool == Spec => RefinesPool
  <1>1. Init => Pool!PoolInit
    BY DEF Init, Pool!PoolInit, PoolUsers
  <1> QED BY <1>1, StepInv, StepPool, InitFixed, PTL DEF Spec, RefinesPool, Pool!PoolSpec
=============================================================================
