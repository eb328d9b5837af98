-------------------------------- MODULE FirstVm -----------------------------
(***************************************************************************)
(* User address spaces of the first-generation kernel: src/kernel/mm/vm.cc *)
(* with the callers that build, copy and release them: exec, fork,         *)
(* growproc, freeproc, the store page fault and copyout.                   *)
(*                                                                         *)
(* The kernel runs these on one hart without being interrupted by another  *)
(* caller, so a call is one step; the failures inside it (out of memory at *)
(* any allocation, arguments that do not fit) and their clean-up are part  *)
(* of the step.  A space is its leaf entries and the table pages below the *)
(* root; sizes are in pages.  Page tables, trap frames and kernel stacks   *)
(* are counted, user pages are named, since only these are shared.         *)
(***************************************************************************)
EXTENDS Integers, Sequences, FiniteSets, FiniteSetsExt, Functions

CONSTANTS
    FvProcs, FvInit1,
    MemorySizes,    \* the numbers of pages the machine may have free
    UserPages,      \* names for pages mapped into user spaces
    MaxSz,          \* bound on the size of a space
    ImageSizes,     \* pages of the programs exec loads
    StackPages,     \* stack_data_pages
    Grows, Shrinks, \* pages growproc adds and takes away
    MaxLost1,       \* bound on the pages lost
    NoLeaf

ASSUME FirstVmAssumption ==
    FvInit1 \in FvProcs /\ MemorySizes \subseteq Nat /\ UserPages \subseteq Nat /\ StackPages \in Nat

VARIABLES
    frames,         \* pages the machine has
    live,           \* processes that exist (2 pages each: trap frame, stack)
    vm,             \* [ref, val, pt, tabs, lost]: page counts and contents, spaces, pages lost for good
    sz,             \* [process -> size of its space]
    mem,            \* ghost: [process -> [page -> contents it must see]]
    crashed         \* the kernel followed a null page table

fvVars == <<frames, live, vm, sz, mem, crashed>>

New == "new"                    \* the space exec is building
Spaces1 == FvProcs \union {New}
Pages1 == 0..(MaxSz - 1)
RootTables == {"root", "top2", "top1"}      \* what the trampoline's mapping needs
LowTables == {"low2", "low1"}               \* what the user part needs

Used(m, l) ==
    Cardinality({f \in UserPages : m.ref[f] > 0}) + m.lost + 2 * Cardinality(l)
        + FoldFunction(LAMBDA t, n : n + Cardinality(t), 0, m.tabs)
Left(m, l) == frames - Used(m, l)

(* alloc_page for a user page: zeroed, with one reference.                 *)
Fresh(m) == Min({f \in UserPages : m.ref[f] = 0})
Take(m) == LET f == Fresh(m) IN [m EXCEPT !.ref[f] = 1, !.val[f] = 0]

(* page_ref_dec, and free_page when the count is down to zero.             *)
page_ref_dec(m, f) == [m EXCEPT !.ref[f] = @ - 1, !.val[f] = IF m.ref[f] = 1 THEN 0 ELSE @]

(* uvmcreate.  When the second table is missing only the root is freed.    *)
uvmcreate(m, s, l) ==
    IF Left(m, l) >= 3 THEN [ok |-> TRUE, m |-> [m EXCEPT !.tabs[s] = RootTables]]
    ELSE [ok |-> FALSE, m |-> IF Left(m, l) = 2 THEN [m EXCEPT !.lost = @ + 1] ELSE m]

(* mappages of one user page: walk makes the tables that are missing, and  *)
(* keeps those it made when it runs out.                                   *)
mappages(m, s, a, leaf, l) ==
    LET missing == LowTables \ m.tabs[s] IN
    IF a >= MaxSz THEN [ok |-> FALSE, m |-> m]
    ELSE IF Left(m, l) >= Cardinality(missing)
    THEN IF m.pt[s][a] # NoLeaf THEN [ok |-> FALSE, m |-> [m EXCEPT !.tabs[s] = @ \union LowTables]]
         ELSE [ok |-> TRUE, m |-> [m EXCEPT !.tabs[s] = @ \union LowTables, !.pt[s][a] = leaf]]
    ELSE [ok |-> FALSE, m |-> IF Left(m, l) = 1 THEN [m EXCEPT !.tabs[s] = @ \union {"low2"}] ELSE m]

RECURSIVE uvmunmap(_, _, _, _, _)
uvmunmap(m, s, a, last, do_free) ==
    IF a >= last THEN m
    ELSE IF m.pt[s][a] = NoLeaf THEN uvmunmap(m, s, a + 1, last, do_free)
    ELSE uvmunmap([page_ref_dec(m, m.pt[s][a].f) EXCEPT !.pt[s][a] = NoLeaf, !.lost = IF do_free THEN @ ELSE @ + 1],
                  s, a + 1, last, do_free)

uvmdealloc(m, s, oldsz, newsz) == IF newsz >= oldsz THEN m ELSE uvmunmap(m, s, newsz, oldsz, TRUE)

RECURSIVE AllocFrom(_, _, _, _, _, _)
(* The loop of uvmalloc, which takes back what it mapped when it fails.    *)
AllocFrom(m, s, a, oldsz, newsz, l) ==
    IF a >= newsz THEN [ok |-> TRUE, m |-> m]
    ELSE IF Left(m, l) = 0 THEN [ok |-> FALSE, m |-> uvmdealloc(m, s, a, oldsz)]
    ELSE LET b == mappages(Take(m), s, a, [f |-> Fresh(m), w |-> TRUE, cow |-> FALSE], l) IN
         IF b.ok THEN AllocFrom(b.m, s, a + 1, oldsz, newsz, l)
         ELSE [ok |-> FALSE, m |-> uvmdealloc(page_ref_dec(b.m, Fresh(m)), s, a, oldsz)]

uvmalloc(m, s, oldsz, newsz, l) == AllocFrom(m, s, oldsz, oldsz, newsz, l)

(* uvmfree with freewalk: pages below the size, then every table.          *)
uvmfree(m, s, size) == [uvmunmap(m, s, 0, size, TRUE) EXCEPT !.tabs[s] = {}]

-----------------------------------------------------------------------------
(* The leaf both spaces have after uvmcopy: a writable page becomes        *)
(* copy-on-write.                                                          *)
CowOf(leaf) == IF leaf.w THEN [leaf EXCEPT !.w = FALSE, !.cow = TRUE] ELSE leaf

RECURSIVE uvmcopy(_, _, _, _, _, _)
uvmcopy(m, p, np, a, size, l) ==
    IF a >= size THEN [ok |-> TRUE, m |-> m]
    ELSE IF m.pt[p][a] = NoLeaf THEN uvmcopy(m, p, np, a + 1, size, l)
    ELSE LET leaf == CowOf(m.pt[p][a])
             b == mappages([m EXCEPT !.pt[p][a] = leaf], np, a, leaf, l)
         IN  IF b.ok THEN uvmcopy([b.m EXCEPT !.ref[leaf.f] = @ + 1], p, np, a + 1, size, l)
             ELSE b

(* handle_cow_fault: a private copy, even for the last holder.             *)
handle_cow_fault(m, s, a, l) ==
    IF a \notin Pages1 \/ m.pt[s][a] = NoLeaf \/ ~m.pt[s][a].cow \/ Left(m, l) = 0 THEN [ok |-> FALSE, m |-> m]
    ELSE LET old == m.pt[s][a].f
             f == Fresh(m)
             n == [m EXCEPT !.ref[f] = 1, !.val[f] = m.val[old], !.pt[s][a] = [f |-> f, w |-> TRUE, cow |-> FALSE]]
         IN  [ok |-> TRUE, m |-> page_ref_dec(n, old)]

-----------------------------------------------------------------------------
Blank == [a \in Pages1 |-> NoLeaf]
Zeroes == [a \in Pages1 |-> 0]

(* user_init: a page of code, a hole and a page of stack.                  *)
FvInit ==
    LET code == Min(UserPages)
        stack == Min(UserPages \ {code})
        leaf(f) == [f |-> f, w |-> TRUE, cow |-> FALSE]
    IN
    /\ frames \in MemorySizes
    /\ live = {FvInit1} /\ crashed = FALSE
    /\ vm = [ref  |-> [f \in UserPages |-> IF f \in {code, stack} THEN 1 ELSE 0],
             val  |-> [f \in UserPages |-> 0],
             pt   |-> [s \in Spaces1 |-> IF s = FvInit1 THEN [Blank EXCEPT ![0] = leaf(code), ![2] = leaf(stack)] ELSE Blank],
             tabs |-> [s \in Spaces1 |-> IF s = FvInit1 THEN RootTables \union LowTables ELSE {}],
             lost |-> 0]
    /\ sz = [p \in FvProcs |-> IF p = FvInit1 THEN 3 ELSE 0]
    /\ mem = [p \in FvProcs |-> Zeroes]

Reaped(m, p) == uvmfree(m, p, sz[p])

(* fork: allocproc takes two pages; the table that uvmcreate could not     *)
(* make is used all the same, which stops the kernel.                      *)
fork1(p, np) ==
    LET l == live \union {np}
        c == uvmcreate(vm, np, l)
        b == uvmcopy(c.m, p, np, 0, sz[p], l)
    IN
    /\ p \in live /\ np \notin live /\ Left(vm, live) >= 2
    /\ crashed' = ~c.ok
    /\ IF ~c.ok THEN vm' = c.m /\ UNCHANGED <<live, sz, mem>>
       ELSE IF ~b.ok THEN vm' = uvmfree(b.m, np, sz[p]) /\ UNCHANGED <<live, sz, mem>>
       ELSE /\ vm' = b.m /\ live' = l
            /\ sz' = [sz EXCEPT ![np] = sz[p]]
            /\ mem' = [mem EXCEPT ![np] = mem[p]]
    /\ UNCHANGED frames

(* freeproc, when a parent reaps a process that ended.                     *)
freeproc1(p) ==
    /\ p \in live /\ p # FvInit1
    /\ vm' = Reaped(vm, p) /\ live' = live \ {p}
    /\ sz' = [sz EXCEPT ![p] = 0] /\ mem' = [mem EXCEPT ![p] = Zeroes]
    /\ UNCHANGED <<frames, crashed>>

(* growproc by one page or more either way.                                *)
growproc(p, n) ==
    LET up == uvmalloc(vm, p, sz[p], sz[p] + n, live)
        low == IF sz[p] + n < 0 THEN sz[p] ELSE sz[p] + n
    IN
    /\ p \in live
    /\ IF n > 0
       THEN vm' = up.m /\ sz' = [sz EXCEPT ![p] = IF up.ok THEN @ + n ELSE @]
       ELSE vm' = uvmdealloc(vm, p, sz[p], low) /\ sz' = [sz EXCEPT ![p] = low]
    /\ mem' = [mem EXCEPT ![p] = [a \in Pages1 |-> IF a < Min({sz[p], sz'[p]}) THEN @[a] ELSE 0]]
    /\ UNCHANGED <<frames, live, crashed>>

(* The arguments of exec fit on the stack, or one of the checks on them    *)
(* fails after the guard page is gone.                                     *)
Loaded(n) ==
    LET c == uvmcreate(vm, New, live)
        a == uvmalloc(c.m, New, 0, n, live)
        b == uvmalloc(a.m, New, n, n + StackPages + 1, live)
        done == uvmunmap(b.m, New, n, n + 1, FALSE)
    IN  IF ~c.ok THEN [ok |-> FALSE, m |-> c.m, size |-> 0]
        ELSE IF ~a.ok THEN [ok |-> FALSE, m |-> a.m, size |-> 0]
        ELSE IF ~b.ok THEN [ok |-> FALSE, m |-> b.m, size |-> n]
        ELSE [ok |-> TRUE, m |-> done, size |-> n + StackPages + 1]

(* Faulty variant: a failed exec does not release the space it built.      *)
Discarded_Not(m, size) == [m EXCEPT !.pt[New] = Blank, !.tabs[New] = {}]

(* ~VmGuard.                                                               *)
Discarded(m, size) == uvmfree(m, New, size)

(* exec: the new space replaces the old one only when all of it is there.  *)
exec(p, n, argsFit) ==
    LET e == Loaded(n)
        freed == uvmfree(e.m, p, sz[p])
    IN
    /\ p \in live
    /\ IF e.ok /\ argsFit
       THEN /\ vm' = [freed EXCEPT !.pt[p] = e.m.pt[New], !.pt[New] = Blank,
                                   !.tabs[p] = e.m.tabs[New], !.tabs[New] = {}]
            /\ sz' = [sz EXCEPT ![p] = e.size]
            /\ mem' = [mem EXCEPT ![p] = Zeroes]
       ELSE vm' = Discarded(e.m, e.size) /\ UNCHANGED <<sz, mem>>
    /\ UNCHANGED <<frames, live, crashed>>

Stored(m, s, a, v) == [m EXCEPT !.val[m.pt[s][a].f] = v]

(* A store by the program, or copyout for it: the fault, if there is one,  *)
(* is handled before the byte is written, and the same byte is then there. *)
Write1(p, a, v) ==
    LET leaf == vm.pt[p][a]
        c == handle_cow_fault(vm, p, a, live)
    IN
    /\ p \in live /\ leaf # NoLeaf
    /\ (leaf.w /\ vm' = Stored(vm, p, a, v)) \/ (leaf.cow /\ c.ok /\ vm' = Stored(c.m, p, a, v))
    /\ mem' = [mem EXCEPT ![p][a] = v]
    /\ UNCHANGED <<frames, live, sz, crashed>>

FvNext ==
    /\ ~crashed /\ vm.lost < MaxLost1
    /\ \/ \E p, np \in FvProcs : fork1(p, np)
       \/ \E p \in FvProcs : freeproc1(p)
       \/ \E p \in FvProcs, n \in Grows \union {-k : k \in Shrinks} : growproc(p, n)
       \/ \E p \in FvProcs, n \in ImageSizes, fit \in BOOLEAN : exec(p, n, fit)
       \/ \E p \in FvProcs, a \in Pages1, v \in {1} : Write1(p, a, v)

-----------------------------------------------------------------------------
FvTypeOK ==
    /\ live \subseteq FvProcs /\ \A p \in FvProcs : sz[p] \in 0..MaxSz
    /\ \A f \in UserPages : vm.ref[f] \in 0..Cardinality(FvProcs)
    /\ vm.pt[New] = Blank /\ vm.tabs[New] = {}

(* Copy on write is invisible: each process reads, in every page it has    *)
(* mapped, what it wrote there itself or had when it was forked.           *)
PrivateMemory ==
    \A p \in live, a \in Pages1 :
        vm.pt[p][a] # NoLeaf => vm.val[vm.pt[p][a].f] = mem[p][a]

Maps(f) == {<<p, a>> \in FvProcs \X Pages1 : vm.pt[p][a] # NoLeaf /\ vm.pt[p][a].f = f}

(* A page's count is the number of entries that lead to it, through every  *)
(* failure of fork, exec and growproc.                                     *)
CountsExact ==
    \A f \in UserPages : vm.ref[f] = Cardinality(Maps(f))

(* A page more than one entry leads to is writable through none of them.   *)
SharedReadOnly ==
    \A f \in UserPages : Cardinality(Maps(f)) > 1 => \A e \in Maps(f) : ~vm.pt[e[1]][e[2]].w

(* Nothing is mapped at or above a process's size, where neither fork nor  *)
(* freeproc would look for it, and a dead process maps nothing.            *)
MappedBelowSize ==
    \A p \in FvProcs, a \in Pages1 : vm.pt[p][a] # NoLeaf => p \in live /\ a < sz[p]
=============================================================================
