-------------------------------- MODULE Vma ---------------------------------
(***************************************************************************)
(* User address spaces (na/mm/vma.cc), the page tables under them          *)
(* (na/arch/riscv/mm/pmap.cc) and the system calls above them              *)
(* (na/kernel/sys_mm.cc): areas, demand paging, copy on write after fork,  *)
(* brk, mmap, munmap and mprotect, each of them under the space's lock.    *)
(*                                                                         *)
(* Addresses are page numbers (brk's are bytes of BrkPage per page).  A    *)
(* page table entry is NoPage or a frame, the permissions the hardware     *)
(* grants and the COW mark; of the three levels the model keeps the memory *)
(* they need and the slot they lead to, which is the page number modulo    *)
(* Span.  mem names the allocations of a call that find memory.            *)
(*                                                                         *)
(* mmap, mprotect and brk accept more than the tables can hold: addresses  *)
(* from Span on, which share the slots of lower ones, and write without    *)
(* read, whose entry is no leaf once it is copy on write.  The model       *)
(* follows a system up to and with the first call that makes such an area  *)
(* (Strayed) and stops there: frames may then be given back while another  *)
(* page table maps them, or be lost.                                       *)
(***************************************************************************)
EXTENDS Integers, FiniteSets, FiniteSetsExt

CONSTANTS
    VmSpaces,
    UserVaLimit,      \* kUserVaLimit, as a page number
    Span,             \* the pages a table tells apart: 2^27 with 39-bit addresses
    VmFrames,         \* physical frames
    Prots,            \* the permission sets user programs ask for
    BrkPage,          \* bytes per page, for brk
    BrkArgs,          \* the addresses brk is called with
    MaxLen,           \* bound on the pages of one mmap
    MaxLost,          \* bound on the clones that fail
    MaxCalls,         \* bound on the system calls that change areas
    NoPage

kUserVaBase == 1
Va == kUserVaBase .. UserVaLimit - 1

Slots == 0 .. Span - 1

Perms == SUBSET {"R", "W", "X"}

Areas == [start : Nat, end : Nat, perm : Perms]

Entries == [frame : VmFrames, perm : Perms, cow : BOOLEAN]

Spaces == [areas : SUBSET Areas, pte : [Slots -> Entries \union {NoPage}], brk_start : Nat, brk_end : Nat]

ASSUME VmAssumption ==
    /\ IsFiniteSet(VmSpaces)
    /\ UserVaLimit \in Nat /\ Span \in Nat \ {0} /\ BrkPage \in Nat \ {0} /\ BrkArgs \subseteq Nat
    /\ MaxLen \in Nat /\ MaxLost \in Nat /\ MaxCalls \in Nat
    /\ Prots \subseteq Perms
    /\ NoPage \notin Entries /\ NoPage \notin Spaces

VARIABLES
    space,     \* [space -> NoPage or [areas, pte, brk_start, brk_end]]
    refs,      \* [frame -> reference count], 0 for a free frame
    lost,      \* [frame -> references that no page table accounts for]
    calls

vmVars == <<space, refs, lost, calls>>

Alive == {s \in VmSpaces : space[s] # NoPage}

Area(lo, hi, perm) == [start |-> lo, end |-> hi, perm |-> perm]

(* VmSpace::create: no areas, an empty page table.                         *)
create == [areas |-> {}, pte |-> [k \in Slots |-> NoPage], brk_start |-> 0, brk_end |-> 0]

VmInit ==
    /\ \E first \in VmSpaces : space = [s \in VmSpaces |-> IF s = first THEN create ELSE NoPage]
    /\ refs = [f \in VmFrames |-> 0]
    /\ lost = [f \in VmFrames |-> 0]
    /\ calls = 0

-----------------------------------------------------------------------------
(* Page tables.                                                            *)

(* The walk keeps 9 bits of the page number for each of three levels.      *)
vpn(va) == va % Span

SlotsOf(vas) == {vpn(va) : va \in vas}

(* lookup finds leaves only: an entry that grants nothing is not one.      *)
lookup(t, va) == t[vpn(va)] # NoPage /\ t[vpn(va)].perm # {}

is_cow(t, va) == lookup(t, va) /\ t[vpn(va)].cow

Leaf(f, perm) == [frame |-> f, perm |-> perm, cow |-> FALSE]
CowLeaf(f, perm) == [frame |-> f, perm |-> perm \ {"W"}, cow |-> TRUE]

make_cow(t, va) == [t EXCEPT ![vpn(va)] = CowLeaf(@.frame, @.perm)]

-----------------------------------------------------------------------------
(* The areas of a space.                                                   *)

find(as, va) == {a \in as : a.start <= va /\ va < a.end}

range_overlaps(a, lo, hi) == lo < a.end /\ a.start < hi

vma_overlaps(as, lo, hi) == \E a \in as : range_overlaps(a, lo, hi)

vma_range_covered(as, lo, hi) == \A va \in lo .. hi - 1 : find(as, va) # {}

(* The slots of the mapped pages from lo to hi that lie in areas of m.     *)
Pages(m, lo, hi) ==
    {k \in SlotsOf({va \in lo .. hi - 1 : find(m.areas, va) # {}}) : lookup(m.pte, k)}

(* page_decref of every such page, and its entry cleared.                  *)
Decref(m, lo, hi) ==
    LET gone == Pages(m, lo, hi)
    IN  [f \in VmFrames |-> refs[f] - Cardinality({k \in gone : m.pte[k].frame = f})]

Cleared(m, lo, hi) ==
    LET gone == Pages(m, lo, hi)
    IN  [k \in Slots |-> IF k \in gone THEN NoPage ELSE m.pte[k]]

vma_try_merge_neighbors(as, vma) ==
    LET near == {a \in as : /\ a.perm = vma.perm
                            /\ a.end = vma.start \/ a.start = vma.end} \union {vma}
    IN  (as \ near) \union {Area(Min({a.start : a \in near}), Max({a.end : a \in near}), vma.perm)}

(* vma_split: the area around at becomes two.                              *)
vma_split(as, at) ==
    LET cut == {a \in find(as, at) : a.start < at}
    IN  (as \ cut) \union {Area(a.start, at, a.perm) : a \in cut}
                   \union {Area(at, a.end, a.perm) : a \in cut}

NeedsSplit(as, at) == \E a \in find(as, at) : a.start < at

(* vma_split_range: both ends, in order, while memory lasts.               *)
vma_split_range(as, lo, hi, mem) ==
    LET first == NeedsSplit(as, lo)
        left == vma_split(as, lo)
    IN  IF first /\ "low" \notin mem THEN [areas |-> as, ok |-> FALSE]
        ELSE IF NeedsSplit(left, hi) /\ "high" \notin mem THEN [areas |-> left, ok |-> FALSE]
        ELSE [areas |-> vma_split(left, hi), ok |-> TRUE]

(* The checks that open map, unmap and protect.                            *)
RangeOk(lo, hi) == kUserVaBase <= lo /\ lo < hi /\ hi <= UserVaLimit

(* What is left of the areas without [lo, hi).                             *)
Without(as, lo, hi) ==
    UNION {{b \in {Area(a.start, Min({a.end, lo}), a.perm), Area(Max({a.start, hi}), a.end, a.perm)} :
                b.start < b.end} : a \in as}

(* vmm_unmap_user on space m: pages go first, then the areas shrink.  The  *)
(* hole in one area needs memory for its right part, else it stays whole.  *)
vmm_unmap_user(m, lo, hi, mem) ==
    LET hole == \E a \in m.areas : a.start < lo /\ hi < a.end
        ok == ~hole \/ "hole" \in mem
    IN  [m |-> [m EXCEPT !.areas = IF ok THEN Without(@, lo, hi) ELSE @,
                         !.pte = Cleared(m, lo, hi)],
         ok |-> ok]

vmm_map_user(m, lo, hi, perm, mem) ==
    LET vma == Area(lo, hi, perm)
    IN  IF ~RangeOk(lo, hi) \/ mem = {} \/ vma_overlaps(m.areas, lo, hi) THEN [m |-> m, ok |-> FALSE]
        ELSE [m |-> [m EXCEPT !.areas = vma_try_merge_neighbors(@ \union {vma}, vma)], ok |-> TRUE]

(* mm_find_free_va walks the areas upwards: the cursor starts at the base, *)
(* moves to the end of each area, and stops at the first gap of length len.*)
mm_find_free_va(as, len) ==
    LET cursors == {kUserVaBase} \union {a.end : a \in as}
        fits == {c \in cursors : /\ c + len <= UserVaLimit
                                 /\ \A a \in as : a.end <= c \/ c + len <= a.start}
    IN  IF fits = {} THEN 0 ELSE Min(fits)

-----------------------------------------------------------------------------
(* System calls of the task that owns space s.                             *)

(* sys_munmap.                                                             *)
sys_munmap(s, lo, hi, mem) ==
    /\ RangeOk(lo, hi)
    /\ refs' = Decref(space[s], lo, hi)
    /\ space' = [space EXCEPT ![s] = vmm_unmap_user(@, lo, hi, mem).m]
    /\ UNCHANGED lost

(* sys_mmap at addr (0: anywhere), with MAP_FIXED or with a fallback.      *)
sys_mmap(s, addr, len, perm, fixed, mem) ==
    LET m == space[s]
        va == IF addr = 0 THEN mm_find_free_va(m.areas, len) ELSE addr
        first == IF fixed THEN vmm_unmap_user(m, va, va + len, mem) ELSE [m |-> m, ok |-> TRUE]
        second == vmm_map_user(first.m, va, va + len, perm, mem \ {"hole", "again"})
        other == mm_find_free_va(m.areas, len)
        third == vmm_map_user(m, other, other + len, perm, mem \ {"hole", "area"})
    IN  /\ va # 0 /\ (fixed => RangeOk(va, va + len))
        /\ refs' = IF fixed THEN Decref(m, va, va + len) ELSE refs
        /\ space' = [space EXCEPT ![s] =
               IF ~first.ok THEN first.m
               ELSE IF second.ok \/ fixed \/ addr = 0 \/ other = 0 THEN second.m ELSE third.m]
        /\ UNCHANGED lost

(* protect's new entry for a page of an area that now has perm: a page     *)
(* marked COW stays so only where the area is writable.                    *)
NewLeaf(e, perm) == IF "W" \in perm /\ e.cow THEN CowLeaf(e.frame, perm) ELSE Leaf(e.frame, perm)

(* vmm_protect_user on space m: the areas are split at the ends of the     *)
(* range; entries follow, and without permissions the pages are dropped.   *)
vmm_protect_user(m, lo, hi, perm, mem) ==
    LET split == vma_split_range(m.areas, lo, hi, mem)
        pages == Pages(m, lo, hi)
    IN  IF ~split.ok THEN [m |-> [m EXCEPT !.areas = split.areas], ok |-> FALSE]
        ELSE [m |-> [m EXCEPT
                       !.areas = {IF range_overlaps(a, lo, hi) THEN [a EXCEPT !.perm = perm] ELSE a
                                     : a \in split.areas},
                       !.pte = IF perm = {} THEN Cleared(m, lo, hi)
                               ELSE [k \in Slots |-> IF k \in pages THEN NewLeaf(m.pte[k], perm) ELSE m.pte[k]]],
              ok |-> TRUE]

(* sys_mprotect: the range must be covered by areas.                       *)
sys_mprotect(s, lo, hi, perm, mem) ==
    LET protected == vmm_protect_user(space[s], lo, hi, perm, mem)
    IN  /\ RangeOk(lo, hi) /\ vma_range_covered(space[s].areas, lo, hi)
        /\ space' = [space EXCEPT ![s] = protected.m]
        /\ refs' = IF protected.ok /\ perm = {} THEN Decref(space[s], lo, hi) ELSE refs
        /\ UNCHANGED lost

page_align_up(b) == (b + BrkPage - 1) \div BrkPage

(* Faulty variant: the end moves although the pages could not be mapped.   *)
BrkMove_Anyway(m, end, mem) ==
    LET grown == vmm_map_user(m, m.brk_end, end, {"R", "W"}, mem \ {"hole"})
        shrunk == vmm_unmap_user(m, end, m.brk_end, mem)
    IN  [IF end > m.brk_end THEN grown.m ELSE IF end < m.brk_end THEN shrunk.m ELSE m
            EXCEPT !.brk_end = end]

(* brk moves the end of the heap to page end, if map or unmap agrees.      *)
BrkMove(m, end, mem) ==
    LET grown == vmm_map_user(m, m.brk_end, end, {"R", "W"}, mem \ {"hole"})
        shrunk == vmm_unmap_user(m, end, m.brk_end, mem)
    IN  IF end > m.brk_end THEN (IF grown.ok THEN [grown.m EXCEPT !.brk_end = end] ELSE m)
        ELSE IF end < m.brk_end
             THEN (IF shrunk.ok THEN [shrunk.m EXCEPT !.brk_end = end] ELSE shrunk.m)
        ELSE m

(* The first call of brk places the heap at the page above its argument.   *)
BrkPlaced(m, end) ==
    IF m.brk_start = 0 THEN [m EXCEPT !.brk_start = end, !.brk_end = end] ELSE m

(* sys_brk(new_brk): the first call fails when its argument is not aligned.*)
sys_brk(s, new_brk, mem) ==
    LET end == page_align_up(new_brk)
        m == BrkPlaced(space[s], end)
        low == new_brk < m.brk_start * BrkPage
    IN  /\ new_brk > 0
        /\ space' = [space EXCEPT ![s] = IF low THEN m ELSE BrkMove(m, end, mem)]
        /\ refs' = IF ~low /\ end < m.brk_end THEN Decref(m, end, m.brk_end) ELSE refs
        /\ UNCHANGED lost

-----------------------------------------------------------------------------
(* Page faults.                                                            *)

vma_allows(a, cause) == cause \in a.perm

FreeFrames == {f \in VmFrames : refs[f] = 0}

(* Faulty variant: the shared frame keeps the faulting space's reference.  *)
CowCopyRefs_Kept(f, new) == [refs EXCEPT ![new] = 1]

CowCopyRefs(f, new) == [refs EXCEPT ![new] = 1, ![f] = @ - 1]

(* vmm_handle_page_fault of an access the hardware refuses: a write to a   *)
(* COW page takes a copy, a missing page a new frame.  A fault that is     *)
(* not resolved (no area, no permission, no memory) changes nothing.       *)
vmm_handle_page_fault(s, va, cause) ==
    LET t == space[s].pte
        k == vpn(va)
    IN
    /\ ~(lookup(t, va) /\ cause \in t[k].perm)
    /\ \E a \in find(space[s].areas, va) : \E new \in FreeFrames :
          /\ vma_allows(a, cause)
          /\ space' = [space EXCEPT ![s].pte[k] = Leaf(new, a.perm)]
          /\ \/ lookup(t, va) /\ cause = "W" /\ is_cow(t, va) /\ refs' = CowCopyRefs(t[k].frame, new)
             \/ ~lookup(t, va) /\ refs' = [refs EXCEPT ![new] = 1]
    /\ UNCHANGED lost

-----------------------------------------------------------------------------
(* Fork and exit.                                                          *)

(* The pages a clone shares, and both tables with those pages shared:      *)
(* copy on write where the area is writable.                               *)
Shares(m, vas) ==
    LET wr(va) == \E a \in find(m.areas, va) : "W" \in a.perm
        perm(va) == (CHOOSE a \in find(m.areas, va) : TRUE).perm
        page(k) == CHOOSE va \in vas : vpn(va) = k
    IN  [parent |-> [k \in Slots |-> IF k \in SlotsOf({va \in vas : wr(va)})
                                     THEN make_cow(m.pte, k)[k] ELSE m.pte[k]],
         child |-> [k \in Slots |-> IF k \notin SlotsOf(vas) THEN NoPage
                                    ELSE IF wr(page(k)) THEN CowLeaf(m.pte[k].frame, perm(page(k)))
                                    ELSE Leaf(m.pte[k].frame, perm(page(k)))]]

MappedIn(m, as) == {va \in Va : find(as, va) # {} /\ lookup(m.pte, va)}

Incref(m, vas) == [f \in VmFrames |-> refs[f] + Cardinality({va \in vas : m.pte[vpn(va)].frame = f})]

(* vmm_clone, to the end: all areas and pages.                             *)
vmm_clone(s, c) ==
    LET m == space[s]
        vas == MappedIn(m, m.areas)
        both == Shares(m, vas)
    IN  /\ c \notin Alive
        /\ space' = [space EXCEPT ![s].pte = both.parent,
                                  ![c] = [m EXCEPT !.pte = both.child]]
        /\ refs' = Incref(m, vas)
        /\ UNCHANGED lost

(* vmm_clone without memory for area a (at = 0) or for its page at: the    *)
(* lower areas are dropped with their references by destroy, the pages     *)
(* already shared in a are not, for a is not in the child's tree yet.      *)
CloneFails(s, a, at) ==
    LET m == space[s]
        lower == {b \in m.areas : b.end <= a.start}
        begun == {va \in a.start .. at - 1 : lookup(m.pte, va)}
        cowed == {va \in a.start .. at : lookup(m.pte, va)}
    IN  /\ at = 0 \/ (at \in a.start .. a.end - 1 /\ lookup(m.pte, at))
        /\ \A f \in VmFrames : lost[f] < MaxLost
        /\ space' = [space EXCEPT ![s].pte = Shares(m, MappedIn(m, lower) \union cowed).parent]
        /\ refs' = Incref(m, begun)
        /\ lost' = [f \in VmFrames |-> lost[f] + Cardinality({va \in begun : m.pte[vpn(va)].frame = f})]

(* VmSpace::destroy: references go, then tables and the space itself.      *)
destroy(s) ==
    /\ refs' = Decref(space[s], kUserVaBase, UserVaLimit)
    /\ space' = [space EXCEPT ![s] = NoPage]
    /\ UNCHANGED lost

(* At most one of the allocations a call makes finds no memory.            *)
Memory(names) == {names} \union {names \ {n} : n \in names}

SystemCall(s) ==
    /\ calls < MaxCalls
    /\ calls' = calls + 1
    /\ \/ \E lo \in Va, hi \in Va \union {UserVaLimit} :
              \/ \E mem \in Memory({"hole"}) : sys_munmap(s, lo, hi, mem)
              \/ \E mem \in Memory({"low", "high"}), perm \in Prots : sys_mprotect(s, lo, hi, perm, mem)
       \/ \E addr \in 0 .. UserVaLimit - 1, len \in 1 .. MaxLen, perm \in Prots,
            fixed \in BOOLEAN :
              \E mem \in Memory({"area", IF fixed THEN "hole" ELSE "again"}) :
                 sys_mmap(s, addr, len, perm, fixed, mem)
       \/ \E b \in BrkArgs, mem \in Memory({"hole", "area"}) : sys_brk(s, b, mem)

(* A space whose areas its page table can hold: no two pages with the same *)
(* slot, and no entry that stops being a leaf.                             *)
Told(m) == \A a \in m.areas : a.end <= Span /\ ("W" \in a.perm => "R" \in a.perm)

Strayed == \E s \in Alive : ~Told(space[s])

VmNext ==
    /\ ~Strayed
    /\ \E s \in Alive :
        \/ SystemCall(s)
        \/ /\ \/ \E va \in Va, cause \in {"R", "W", "X"} : vmm_handle_page_fault(s, va, cause)
              \/ \E c \in VmSpaces : vmm_clone(s, c)
              \/ \E a \in space[s].areas, at \in Va \union {0} : CloneFails(s, a, at)
              \/ destroy(s)
           /\ UNCHANGED calls

-----------------------------------------------------------------------------
VmSpec == VmInit /\ [][VmNext]_vmVars

VmTypeOK ==
    /\ space \in [VmSpaces -> Spaces \union {NoPage}]
    /\ refs \in [VmFrames -> Nat] /\ lost \in [VmFrames -> Nat]
    /\ calls \in 0 .. MaxCalls

(* Splits, merges and holes keep the areas of a space nonempty, apart from *)
(* each other and inside the user range, also when memory ran out.         *)
AreasDisjoint ==
    \A s \in Alive : \A a \in space[s].areas :
        /\ RangeOk(a.start, a.end)
        /\ \A b \in space[s].areas : a # b => ~range_overlaps(a, b.start, b.end)

(* A mapped page lies in an area, and the hardware grants what the area    *)
(* does, less the write on a copy-on-write page: a fault that was handled  *)
(* does not come back, and no page outlives its area.  (Slot k is page k:  *)
(* the areas of a space that has not strayed end at Span.)                 *)
EntriesFollowAreas ==
    \A s \in Alive : \A k \in Slots : space[s].pte[k] # NoPage =>
        \E a \in find(space[s].areas, k) :
            a.perm # {} /\ space[s].pte[k].perm = a.perm \ (IF space[s].pte[k].cow THEN {"W"} ELSE {})

(* The entries of all page tables that hold f.                             *)
Users(f) == {x \in Alive \X Slots : space[x[1]].pte[x[2]] # NoPage /\ space[x[1]].pte[x[2]].frame = f}

(* A frame's count is the number of entries that hold it, plus what failed *)
(* clones lost: no page in use is freed, and unmap, protect, brk, exit and *)
(* the copy of a shared page give back exactly what they took.             *)
RefsAccounted == \A f \in VmFrames : refs[f] = Cardinality(Users(f)) + lost[f]

(* A frame that several entries map is writable through none of them.      *)
SharedNotWritable ==
    \A s \in Alive : \A k \in Slots :
        lookup(space[s].pte, k) /\ "W" \in space[s].pte[k].perm =>
            Users(space[s].pte[k].frame) = {<<s, k>>}

WritableAreas == {x \in Alive \X Slots : \E a \in find(space[x[1]].areas, x[2]) : "W" \in a.perm}

(* Fork, faults, brk, mmap and munmap never make a frame that two spaces   *)
(* share writable; only a step that makes an existing area writable can.   *)
OnlyProtectUnshares ==
    [][~SharedNotWritable' /\ SharedNotWritable =>
          \E x \in WritableAreas' \ WritableAreas : lookup(space[x[1]].pte, x[2])]_vmVars

(* mm_find_free_va answers the lowest free range of len pages, and 0 only  *)
(* if there is none.                                                       *)
FindsLowestGap ==
    \A s \in Alive : \A len \in 1 .. UserVaLimit :
        LET as == space[s].areas
            free == {va \in Va : va + len <= UserVaLimit /\ ~vma_overlaps(as, va, va + len)}
        IN  mm_find_free_va(as, len) = IF free = {} THEN 0 ELSE Min(free)

(* The break is never below where the heap began, and a heap that has      *)
(* pages ends in the user range: giving pages back stays among them.       *)
HeapPlaced ==
    \A s \in Alive :
        /\ space[s].brk_start <= space[s].brk_end
        /\ space[s].brk_start < space[s].brk_end => space[s].brk_end <= UserVaLimit

(* Between two states of a space that has a heap: what the end of the heap *)
(* gained has areas, what it gave up has none.                             *)
BrkTracks(old, new) ==
    old.brk_start # 0 =>
        /\ vma_range_covered(new.areas, old.brk_end, new.brk_end)
        /\ \A va \in new.brk_end .. old.brk_end - 1 : find(new.areas, va) = {}

(* brk moves the end of the heap only together with the areas: what it     *)
(* adds is mapped, what it gives up is not.                                *)
BrkEndTracksAreas ==
    [][\A s \in Alive : space'[s] # NoPage => BrkTracks(space[s], space'[s])]_vmVars

(* Areas, page-table entries and frame references agree at every step of   *)
(* mmap, munmap, mprotect, brk, fork, faults and exit, with memory short,  *)
(* up to the first area that a page table cannot hold; mm_find_free_va     *)
(* answers with the lowest gap, the heap stays in place.                   *)
SpacesExact ==
    VmTypeOK /\ AreasDisjoint /\ EntriesFollowAreas /\ RefsAccounted /\ HeapPlaced /\ FindsLowestGap

(* Only mprotect makes a shared frame writable, and the break moves only   *)
(* with the heap's areas, up to the first area that a page table cannot    *)
(* hold.                                                                   *)
SpaceSteps == OnlyProtectUnshares /\ BrkEndTracksAreas
=============================================================================
