------------------------------ MODULE VmaProofs ------------------------------
(***************************************************************************)
(* The areas of an address space stay within bounds and disjoint, and      *)
(* vma_find is exact, for every layout of the user space.                  *)
(***************************************************************************)
EXTENDS Vma, WellFoundedInduction, TLAPS

LEMMA MinExists ==
    ASSUME NEW T, T \subseteq Nat, T # {}
    PROVE  \E x \in T : \A y \in T : x <= y
  <1>1. PICK x \in T : \A y \in T : ~(<<y, x>> \in OpToRel(<, Nat))
    BY NatLessThanWellFounded, WFMin
  <1>2. \A y \in T : x <= y
    <2> TAKE y \in T
    <2>1. <<y, x>> \in Nat \X Nat /\ ~(y < x)
      BY <1>1 DEF OpToRel
    <2> QED BY <2>1
  <1> QED BY <1>2

\* Areas to the right of an address have a first one.
LEMMA GeExists ==
    ASSUME InBounds, NEW a \in Nat, NEW v \in vmas, v.start >= a
    PROVE  \E n \in vmas : IsGe(n, a)
  <1> DEFINE T == {w.start : w \in {u \in vmas : u.start >= a}}
  <1>1. T \subseteq Nat /\ T # {}
    BY DEF InBounds, Areas
  <1>2. PICK x \in T : \A y \in T : x <= y
    BY <1>1, MinExists, Zenon
  <1> QED BY <1>2 DEF IsGe

\* Areas to the left of an address have a last one.
LEMMA PrevExists ==
    ASSUME InBounds, NEW a \in Nat, NEW v \in vmas, v.start < a
    PROVE  \E p \in vmas : IsPrev(p, a)
  <1> DEFINE T == {a - w.start : w \in {u \in vmas : u.start < a}}
  <1>1. T \subseteq Nat /\ T # {}
    BY DEF InBounds, Areas
  <1>2. PICK x \in T : \A y \in T : x <= y
    BY <1>1, MinExists, Zenon
  <1>3. PICK p \in vmas : p.start < a /\ x = a - p.start
    BY <1>2
  <1>4. \A w \in vmas : w.start < a => x <= a - w.start
    BY <1>2
  <1>5. \A w \in vmas : w.start \in Nat
    BY DEF InBounds, Areas
  <1> QED BY <1>3, <1>4, <1>5 DEF IsPrev

\* The two neighbours that vma_add looks at stand for all areas.
LEMMA FitsIsFree ==
    ASSUME InBounds, Disjoint, NEW s \in Nat, NEW e \in Nat, Fits(s, e)
    PROVE  \A v \in vmas : v.end <= s \/ e <= v.start
  <1> TAKE v \in vmas
  <1>0. \A w \in vmas : w.start \in Nat /\ w.end \in Nat /\ w.start < w.end
    BY DEF InBounds, Areas
  <1>1. CASE v.start >= s
    <2> PICK n \in vmas : IsGe(n, s)
      BY <1>1, GeExists
    <2> QED BY <1>0, <1>1 DEF Fits, IsGe
  <1>2. CASE v.start < s
    <2> PICK p \in vmas : IsPrev(p, s)
      BY <1>2, PrevExists
    <2>1. p.end <= s /\ v.start <= p.start
      BY <1>2 DEF Fits, IsPrev
    <2>2. v = p \/ v.end <= p.start \/ p.end <= v.start
      BY DEF Disjoint
    <2> QED BY <1>0, <2>1, <2>2
  <1> QED BY <1>0, <1>1, <1>2

LEMMA AddKeeps ==
    ASSUME InBounds, Disjoint, NEW s \in Nat, NEW n \in Nat,
           UserStart <= s, End(s, n) <= StackTop, Add(s, n)
    PROVE  InBounds' /\ Disjoint'
  <1> DEFINE e == End(s, n)
  <1>1. e \in Nat
    BY VmaAssumption DEF End
  <1>2. s < e /\ Fits(s, e) /\ vmas' = vmas \cup {[start |-> s, end |-> e]}
    BY DEF Add, Fits
  <1>3. UserStart <= s /\ e <= StackTop
    OBVIOUS
  <1> HIDE DEF e
  <1>4. \A v \in vmas : v.end <= s \/ e <= v.start
    BY <1>1, <1>2, FitsIsFree
  <1>5. InBounds'
    BY <1>1, <1>2, <1>3 DEF InBounds, Areas
  <1>6. Disjoint'
    BY <1>2, <1>4 DEF Disjoint
  <1> QED BY <1>5, <1>6

\* The inductive invariant, preserved by every operation.
LEMMA StepKeeps == InBounds /\ Disjoint /\ [Next]_vmas => InBounds' /\ Disjoint'
  <1> SUFFICES ASSUME InBounds, Disjoint, [Next]_vmas
               PROVE  InBounds' /\ Disjoint'
    OBVIOUS
  <1>0. Requests \subseteq Nat
    BY DEF Requests
  <1>1. ASSUME NEW s \in Requests, NEW n \in Requests, MapFixed(s, n)
        PROVE  InBounds' /\ Disjoint'
    BY <1>0, <1>1, AddKeeps DEF MapFixed
  <1>2. ASSUME NEW n \in Requests, MapAuto(n)
        PROVE  InBounds' /\ Disjoint'
    <2> PICK s \in 1..(StackTop + 1) : AutoAddr(s, n) /\ Add(s, n)
      BY <1>2 DEF MapAuto
    <2>1. UserStart <= s
      BY VmaAssumption DEF AutoAddr, InBounds, Areas
    <2>2. s \in Nat /\ n \in Nat /\ End(s, n) <= StackTop
      BY <1>0 DEF AutoAddr
    <2> QED BY <2>1, <2>2, AddKeeps
  <1>3. ASSUME NEW a \in Requests, Unmap(a)
        PROVE  InBounds' /\ Disjoint'
    BY <1>3 DEF Unmap, InBounds, Disjoint
  <1>4. CASE UNCHANGED vmas
    BY <1>4 DEF InBounds, Disjoint
  <1> QED BY <1>1, <1>2, <1>3, <1>4 DEF Next

LEMMA InitKeeps == Init => InBounds /\ Disjoint
  BY DEF Init, InBounds, Disjoint

\* Looking at the last area that starts at or before the address is enough.
LEMMA FindIsExact == InBounds /\ Disjoint => FindExact
  <1> SUFFICES ASSUME InBounds, Disjoint, NEW v \in vmas, NEW a \in Requests
               PROVE  FoundBy(v, a) <=> v.start <= a /\ a < v.end
    BY DEF FindExact
  <1>0. /\ \A w \in vmas : w.start \in Nat /\ w.end \in Nat /\ w.start < w.end
        /\ a \in Nat
    BY DEF InBounds, Areas, Requests
  <1>1. ASSUME v.start <= a, a < v.end, NEW w \in vmas, w.start <= a
        PROVE  w.start <= v.start
    <2>1. v = w \/ v.end <= w.start \/ w.end <= v.start
      BY DEF Disjoint
    <2> QED BY <1>0, <1>1, <2>1
  <1> QED BY <1>1 DEF FoundBy, IsLe

\* Every area lies in user space below the top of the stack, although the
\* end of a request is computed modulo the address width.
THEOREM AreasInBounds == Spec => []InBounds
  <1> QED BY InitKeeps, StepKeeps, PTL DEF Spec

\* No two areas of an address space overlap.
THEOREM AreasDisjoint == Spec => []Disjoint
  <1> QED BY InitKeeps, StepKeeps, PTL DEF Spec

\* vma_find, which vmm_handle_fault and as_unmap rely on, returns the area
\* that holds the address and nothing else.
THEOREM VmaFindExact == Spec => []FindExact
  <1> QED BY InitKeeps, StepKeeps, FindIsExact, PTL DEF Spec
=============================================================================
