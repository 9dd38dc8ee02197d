--------------------------------- MODULE Vma ---------------------------------
(***************************************************************************)
(* The virtual memory areas of one address space: vma_add, vma_find,       *)
(* as_alloc_addr and as_unmap of kernel/mm/vmm_as.c with the argument      *)
(* checks of vmm_map_anon and vmm_map_file (kernel/mm/vmm_map.c).  The     *)
(* operations run under the address space's lock.                          *)
(*                                                                         *)
(* Addresses are page numbers, computed modulo 2^52 = Modulus.  The        *)
(* red-black tree is the set of areas ordered by start.                    *)
(***************************************************************************)
EXTENDS Integers

CONSTANTS UserStart, StackTop,  \* USER_START and USER_STACK_TOP
          Modulus

ASSUME VmaAssumption ==
    /\ UserStart \in Nat \ {0} /\ StackTop \in Nat /\ Modulus \in Nat
    /\ UserStart < StackTop /\ StackTop < Modulus

VARIABLE vmas   \* the areas, [start, end)

Areas == [start : Nat, end : Nat]
Requests == 0..(Modulus - 1)

\* vma_rb_find_ge: n is the first area that starts at a or later.
IsGe(n, a) == n.start >= a /\ \A v \in vmas : v.start >= a => n.start <= v.start

\* The area before the first that starts at a or later, or the last area.
IsPrev(p, a) == p.start < a /\ \A v \in vmas : v.start < a => v.start <= p.start

\* vma_rb_find_le: p is the last area that starts at a or earlier.
IsLe(p, a) == p.start <= a /\ \A v \in vmas : v.start <= a => v.start <= p.start

\* vma_find
FoundBy(v, a) == v \in vmas /\ IsLe(v, a) /\ a < v.end

\* The checks of vma_add.
MFits(s, e) ==
    /\ s < e
    /\ \A n \in vmas : IsGe(n, s) => n.start >= e
Fits(s, e) ==
    /\ s < e
    /\ \A n \in vmas : IsGe(n, s) => n.start >= e
    /\ \A p \in vmas : IsPrev(p, s) => p.end <= s

End(s, n) == (s + n) % Modulus

Add(s, n) ==
    /\ Fits(s, End(s, n))
    /\ vmas' = vmas \cup {[start |-> s, end |-> End(s, n)]}

\* A mapping at an address of the caller's choice.
MMapFixed(s, n) ==
    /\ s # 0 /\ n # 0
    /\ s >= UserStart
    /\ Add(s, n)
MapFixed(s, n) ==
    /\ s # 0 /\ n # 0
    /\ s >= UserStart /\ End(s, n) <= StackTop
    /\ Add(s, n)

\* as_alloc_addr: behind the last area with a gap of a page, s + n within the
\* stack area; s is the result, if there is one.
AutoAddr(s, n) ==
    /\ n # 0
    /\ \/ vmas = {} /\ s = UserStart
       \/ \E l \in vmas : (\A v \in vmas : v.start <= l.start) /\ s = l.end + 1
    /\ End(s, n) <= StackTop

\* A mapping without an address.
MapAuto(n) == \E s \in 1..(StackTop + 1) : AutoAddr(s, n) /\ Add(s, n)

\* as_unmap removes the whole area that holds the address.
Unmap(a) == \E v \in vmas : FoundBy(v, a) /\ vmas' = vmas \ {v}

Init == vmas = {}

Next ==
    \/ \E s, n \in Requests : MapFixed(s, n)
    \/ \E n \in Requests : MapAuto(n)
    \/ \E a \in Requests : Unmap(a)

Spec == Init /\ [][Next]_vmas

-----------------------------------------------------------------------------
\* Areas lie between USER_START and the top of the stack, also when the sum
\* of address and size wraps around.
InBounds ==
    /\ vmas \subseteq Areas
    /\ \A v \in vmas : UserStart <= v.start /\ v.start < v.end /\ v.end <= StackTop

\* No page belongs to two areas: the check of vma_add, which looks at two
\* neighbours only, is enough.
Disjoint == \A v, w \in vmas : v = w \/ v.end <= w.start \/ w.end <= v.start

\* vma_find returns an area exactly for the addresses inside it.
FindExact ==
    \A v \in vmas, a \in Requests : FoundBy(v, a) <=> v.start <= a /\ a < v.end
=============================================================================
