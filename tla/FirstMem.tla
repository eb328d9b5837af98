------------------------------- MODULE FirstMem -----------------------------
(***************************************************************************)
(* The first-generation kernel's buddy allocator (src/kernel/mm/pmm.cc)    *)
(* and the object allocator on top of it (src/kernel/mm/slab.cc).          *)
(*                                                                         *)
(* Both work under one spinlock and on one hart, so a call is one step.    *)
(* A page's descriptor keeps, as in the code, whatever its last use left   *)
(* in it: only the head page of a block says what the block is.            *)
(***************************************************************************)
EXTENDS Integers, Sequences, SequencesExt, FiniteSets, FiniteSetsExt, Bitwise

CONSTANTS
    total_pages,
    FirstFree,      \* pages below are the kernel and mem_map
    DtbPages,       \* pages init leaves out for the device tree
    MAX_ORDER,
    ObjPages,       \* [cache -> objects per slab]
    NilPage

ASSUME FirstMemAssumption ==
    total_pages \in Nat /\ FirstFree \in 0..total_pages /\ MAX_ORDER \in Nat \ {0}

VARIABLES
    mem_map,        \* [page -> [flags, order]]
    free_area,      \* [order -> sequence of head pages]
    slab,           \* [page -> [free: sequence of object indices, used_count]]
    slab_list,      \* [cache -> sequence of slab pages]
    blocks,         \* blocks handed out: <<page, order>>
    objs            \* objects handed out: <<page, index>>

fmVars == <<mem_map, free_area, slab, slab_list, blocks, objs>>

PageIds == 0..(total_pages - 1)
Levels == 0..(MAX_ORDER - 1)
Caches == DOMAIN ObjPages
NoSlab == [free |-> <<>>, used_count |-> 0]

Less(seq, x) == SelectSeq(seq, LAMBDA y : y # x)

(* list_add and list_del, on the pair of descriptors and lists.            *)
list_add(m, page, order) ==
    [map |-> [m.map EXCEPT ![page] = [flags |-> {}, order |-> order]], area |-> [m.area EXCEPT ![order] = <<page>> \o @]]
list_del(m, page, order) == [m EXCEPT !.area[order] = Less(@, page)]

-----------------------------------------------------------------------------
(* Faulty variant: the buddy's order is not looked at.                     *)
Mergeable_AnyOrder(m, b, order) == b < total_pages /\ m.map[b].flags = {}

(* The test of free_pages on the buddy.                                    *)
Mergeable(m, b, order) == b < total_pages /\ m.map[b].flags \intersect {"used", "reserved"} = {} /\ m.map[b].order = order

RECURSIVE Merge(_, _, _)
Merge(m, page, order) ==
    LET b == page ^^ (2 ^ order) IN
    IF order < MAX_ORDER - 1 /\ Mergeable(m, b, order)
    THEN Merge(list_del(m, b, order), Min({page, b}), order + 1)
    ELSE list_add(m, page, order)

(* free_pages; a page that is not in use is left alone.                    *)
free_pages(m, page, order) ==
    IF "used" \notin m.map[page].flags THEN m
    ELSE Merge([m EXCEPT !.map[page].flags = {}], page, order)

RECURSIVE Split(_, _, _, _)
Split(m, page, current, order) ==
    IF current = order THEN m
    ELSE Split(list_add(m, page + 2 ^ (current - 1), current - 1), page, current - 1, order)

Fitting(m, order) == {k \in Levels : k >= order /\ m.area[k] # <<>>}

(* alloc_pages: the page, or NilPage, and the lists after.                 *)
alloc_pages(m, order) ==
    IF order \notin Levels \/ Fitting(m, order) = {} THEN [page |-> NilPage, m |-> m]
    ELSE LET k == Min(Fitting(m, order))
             page == Head(m.area[k])
             s == Split(list_del(m, page, k), page, k, order)
         IN  [page |-> page, m |-> [s EXCEPT !.map[page] = [flags |-> {"used"}, order |-> order]]]

Pmm1 == [map |-> mem_map, area |-> free_area]
Sets(m) == mem_map' = m.map /\ free_area' = m.area

(* init frees every page behind mem_map that is not the device tree's, one *)
(* after the other.                                                        *)
FmInit ==
    LET reserved == [map  |-> [p \in PageIds |-> [flags |-> {"reserved"}, order |-> 0]],
                     area |-> [k \in Levels |-> <<>>]]
        give(m, i) == LET p == FirstFree + i - 1 IN
                      IF p \in DtbPages THEN m
                      ELSE free_pages([m EXCEPT !.map[p].flags = {"used"}], p, 0)
        m == FoldLeft(give, reserved, [i \in 1..(total_pages - FirstFree) |-> i])
    IN
    /\ mem_map = m.map /\ free_area = m.area
    /\ slab = [p \in PageIds |-> NoSlab] /\ slab_list = [c \in Caches |-> <<>>]
    /\ blocks = {} /\ objs = {}

-----------------------------------------------------------------------------
(* kmalloc of more than 2048 bytes, and any other caller of alloc_pages.   *)
kmallocLarge(order) ==
    LET a == alloc_pages(Pmm1, order) IN
    /\ a.page # NilPage
    /\ Sets(a.m)
    /\ blocks' = blocks \union {<<a.page, order>>}
    /\ UNCHANGED <<slab, slab_list, objs>>

(* kfree of such a block takes the order from its descriptor.              *)
kfreeLarge(page) ==
    /\ "slab" \notin mem_map[page].flags
    /\ \E order \in Levels : <<page, order>> \in blocks /\ blocks' = blocks \ {<<page, order>>}
    /\ Sets(free_pages(Pmm1, page, mem_map[page].order))
    /\ UNCHANGED <<slab, slab_list, objs>>

(* grow_cache: a page of objects, marked with the cache's index in the     *)
(* place of its order.                                                     *)
Grown(m, page, c) == [m EXCEPT !.map[page] = [flags |-> @.flags \union {"slab"}, order |-> c]]
NewSlab(c) == [free |-> [i \in 1..ObjPages[c] |-> i - 1], used_count |-> 0]

(* kmalloc of a small object.                                              *)
kmalloc(c) ==
    LET a == alloc_pages(Pmm1, 0)
        fresh == slab_list[c] = <<>>
        page == IF fresh THEN a.page ELSE Head(slab_list[c])
        s == IF fresh THEN NewSlab(c) ELSE slab[page]
        list == IF fresh THEN <<page>> ELSE slab_list[c]
    IN
    /\ page # NilPage
    /\ IF fresh THEN Sets(Grown(a.m, page, c)) ELSE UNCHANGED <<mem_map, free_area>>
    /\ slab' = [slab EXCEPT ![page] = [free |-> Tail(s.free), used_count |-> s.used_count + 1]]
    /\ slab_list' = [slab_list EXCEPT ![c] = IF Tail(s.free) = <<>> THEN Tail(list) ELSE list]
    /\ objs' = objs \union {<<page, Head(s.free)>>}
    /\ UNCHANGED blocks

(* A slab with its first free object goes back to the list.                *)
Relisted(c, s) == s.used_count = ObjPages[c] - 1

(* kfree of an object; an empty slab's page goes back to the buddies.      *)
kfree(o) ==
    LET page == o[1]
        c == mem_map[page].order
        s == [free |-> <<o[2]>> \o slab[page].free, used_count |-> slab[page].used_count - 1]
    IN
    /\ objs' = objs \ {o}
    /\ IF s.used_count = 0
       THEN /\ slab_list' = [slab_list EXCEPT ![c] = Less(@, page)]
            /\ slab' = [slab EXCEPT ![page] = NoSlab]
            /\ Sets(free_pages([Pmm1 EXCEPT !.map[page].flags = @ \ {"slab"}], page, 0))
       ELSE /\ slab' = [slab EXCEPT ![page] = s]
            /\ slab_list' = IF Relisted(c, s) THEN [slab_list EXCEPT ![c] = <<page>> \o @] ELSE slab_list
            /\ UNCHANGED <<mem_map, free_area>>
    /\ UNCHANGED blocks

FmNext ==
    \/ \E order \in 0..MAX_ORDER : kmallocLarge(order)
    \/ \E page \in PageIds : kfreeLarge(page)
    \/ \E c \in Caches : kmalloc(c)
    \/ \E o \in objs : kfree(o)

-----------------------------------------------------------------------------
Span(p, k) == p..(p + 2 ^ k - 1)
FreeSpans == {<<p, k>> \in PageIds \X Levels : p \in ToSet(free_area[k])}
SlabPages1 == {p \in PageIds : "slab" \in mem_map[p].flags}
Given == FirstFree..(total_pages - 1) \ DtbPages

(* The pages init gave to the allocator are, each exactly once, in a free  *)
(* block, in a block handed out or in a slab, and no other page is: no     *)
(* stale descriptor inside a block ever passes for a free buddy.           *)
PagesPartitioned ==
    LET all == FreeSpans \union blocks \union (SlabPages1 \X {0}) IN
    /\ UNION {Span(b[1], b[2]) : b \in all} = Given
    /\ \A a, b \in all : a # b => Span(a[1], a[2]) \intersect Span(b[1], b[2]) = {}

(* Free memory is never more split than it must be: two free buddies of    *)
(* one order do not stay apart.                                            *)
BuddiesMerged ==
    \A b \in FreeSpans : b[2] < MAX_ORDER - 1 => <<b[1] ^^ (2 ^ b[2]), b[2]>> \notin FreeSpans

(* A slab's free list and the objects handed out are its objects, each     *)
(* once, and a cache lists exactly its slabs that still have one free.     *)
SlabsExact ==
    /\ \A p \in SlabPages1 :
          LET c == mem_map[p].order
              out == {o[2] : o \in {x \in objs : x[1] = p}}
          IN  /\ ToSet(slab[p].free) \union out = 0..(ObjPages[c] - 1) /\ ToSet(slab[p].free) \intersect out = {}
              /\ slab[p].used_count = Cardinality(out) /\ out # {}
              /\ (slab[p].free # <<>>) = (p \in ToSet(slab_list[c]))
    /\ \A c \in Caches : ToSet(slab_list[c]) \subseteq SlabPages1
=============================================================================
