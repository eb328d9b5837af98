-------------------------------- MODULE Pmm --------------------------------
(***************************************************************************)
(* The physical memory manager (na/mm/pmm.cc): the buddy system, a list of *)
(* single pages per CPU (PCP), and reference counts.                       *)
(*                                                                         *)
(* A PCP is touched by its CPU with interrupts off, and an operation has   *)
(* at most one section under g_pmm_lock, so each is one step; page_decref  *)
(* is two, its atomic decrement and the free that may follow.  What the    *)
(* clients own is held, a set of <<page, order>>, and users counts the     *)
(* references they share a block by; they give back what they own, once.   *)
(***************************************************************************)
EXTENDS Buddy

CONSTANTS
    Cpus,
    g_pcp_batch_size,
    g_pcp_high_watermark,
    MaxUsers,             \* bound on the references of one block
    None

ASSUME PcpAssumption ==
    /\ g_pcp_batch_size \in Nat /\ g_pcp_batch_size > 0
    /\ g_pcp_high_watermark = 2 * g_pcp_batch_size
    /\ None \notin Pages

VARIABLES
    buddy,       \* g_free_areas and the page descriptors' state and order
    pcp,         \* [Cpus -> [list, count]]  g_pcp
    refcount,    \* [Pages -> Nat]
    held,
    users,       \* [Pages -> Nat]
    dropped      \* [Cpus -> the block whose last reference page_decref gave up]

vars == <<buddy, pcp, refcount, held, users, dropped>>

Init ==
    /\ buddy = pmm_init
    /\ pcp = [c \in Cpus |-> [list |-> <<>>, count |-> 0]]
    /\ refcount = [p \in Pages |-> 0]
    /\ held = {}
    /\ users = [p \in Pages |-> 0]
    /\ dropped = [c \in Cpus |-> None]

(* Some client owns the new block p of order o, with one reference.        *)
Hand(p, o) ==
    /\ held' = held \union {<<p, o>>}
    /\ users' = [users EXCEPT ![p] = 1]

(* The client gives up block p of order o.                                 *)
TakeBack(p, o) ==
    /\ held' = held \ {<<p, o>>}
    /\ users' = [users EXCEPT ![p] = 0]

-----------------------------------------------------------------------------
Push(l, p) == [list |-> <<p>> \o l.list, count |-> l.count + 1]
Pop(l) == [list |-> Tail(l.list), count |-> l.count - 1]

(* refill_pcp: up to g_pcp_batch_size pages, as many as the buddies have.  *)
(* The result is the buddy system, the PCP and the pages moved.            *)
refill_pcp(b, l) ==
    LET after[i \in 0 .. g_pcp_batch_size] ==
            IF i = 0 THEN [b |-> b, l |-> l, moved |-> {}]
            ELSE LET r == after[i - 1]
                     p == AllocPage(r.b, 0)
                 IN  IF CanAlloc(r.b, 0)
                     THEN [b |-> [buddy_alloc(r.b, 0) EXCEPT !.state[p] = "PcpCached"],
                           l |-> Push(r.l, p), moved |-> r.moved \union {p}]
                     ELSE r
    IN  after[g_pcp_batch_size]

(* Faulty variant: pages leave the PCP and reach no free list.             *)
drain_pcp_Loses(b, l) ==
    LET after[i \in 0 .. l.count \div 2] ==
            IF i = 0 THEN [b |-> b, l |-> l]
            ELSE [b |-> after[i - 1].b, l |-> Pop(after[i - 1].l)]
    IN  after[l.count \div 2]

(* drain_pcp: half of the PCP goes back to the buddies.                    *)
drain_pcp(b, l) ==
    LET after[i \in 0 .. l.count \div 2] ==
            IF i = 0 THEN [b |-> b, l |-> l]
            ELSE LET r == after[i - 1]
                 IN  [b |-> buddy_free(r.b, Head(r.l.list), 0), l |-> Pop(r.l)]
    IN  after[l.count \div 2]

(* pmm_alloc_page: refill an empty PCP, then hand out its first page; with *)
(* nothing to refill from it returns nullptr and nothing has changed.      *)
pmm_alloc_page(c) ==
    LET r == IF pcp[c].count = 0 THEN refill_pcp(buddy, pcp[c])
             ELSE [b |-> buddy, l |-> pcp[c], moved |-> {}]
        p == Head(r.l.list)
    IN  /\ r.l.count > 0
        /\ buddy' = [r.b EXCEPT !.state[p] = "Allocated", !.order[p] = 0]
        /\ pcp' = [pcp EXCEPT ![c] = Pop(r.l)]
        /\ refcount' = [q \in Pages |-> IF q = p \/ q \in r.moved THEN 1 ELSE refcount[q]]
        /\ Hand(p, 0)
        /\ UNCHANGED dropped

(* The body of pmm_free_page.                                              *)
FreePage(c, p) ==
    LET marked == [buddy EXCEPT !.state[p] = "PcpCached", !.order[p] = 0]
        pushed == Push(pcp[c], p)
        r == IF pushed.count >= g_pcp_high_watermark THEN drain_pcp(marked, pushed)
             ELSE [b |-> marked, l |-> pushed]
    IN  /\ buddy' = r.b
        /\ pcp' = [pcp EXCEPT ![c] = r.l]

(* pmm_free_page by the only owner of a single page.                       *)
pmm_free_page(c, p) ==
    /\ <<p, 0>> \in held /\ users[p] = 1
    /\ FreePage(c, p)
    /\ TakeBack(p, 0)
    /\ UNCHANGED <<refcount, dropped>>

pmm_alloc_pages(o) ==
    /\ CanAlloc(buddy, o)
    /\ LET p == AllocPage(buddy, o)
       IN  /\ buddy' = buddy_alloc(buddy, o)
           /\ refcount' = [refcount EXCEPT ![p] = 1]
           /\ Hand(p, o)
    /\ UNCHANGED <<pcp, dropped>>

pmm_free_pages(p, o) ==
    /\ <<p, o>> \in held /\ users[p] = 1
    /\ buddy' = buddy_free(buddy, p, o)
    /\ TakeBack(p, o)
    /\ UNCHANGED <<pcp, refcount, dropped>>

(* An owner of a block shares it.                                          *)
page_incref(p) ==
    /\ users[p] \in 1 .. MaxUsers - 1
    /\ refcount' = [refcount EXCEPT ![p] = @ + 1]
    /\ users' = [users EXCEPT ![p] = @ + 1]
    /\ UNCHANGED <<buddy, pcp, held, dropped>>

(* page_decref: the atomic decrement; the one who gets 1 back must free.   *)
page_decref(c, p) ==
    /\ dropped[c] = None /\ users[p] > 0
    /\ refcount' = [refcount EXCEPT ![p] = @ - 1]
    /\ users' = [users EXCEPT ![p] = @ - 1]
    /\ dropped' = [dropped EXCEPT ![c] = IF refcount[p] = 1 THEN p ELSE None]
    /\ UNCHANGED <<buddy, pcp, held>>

(* ... by the order in the page's descriptor.                              *)
DecrefFrees(c) ==
    LET p == dropped[c]
    IN  /\ p # None
        /\ IF buddy.order[p] = 0 THEN FreePage(c, p)
           ELSE buddy' = buddy_free(buddy, p, buddy.order[p]) /\ UNCHANGED pcp
        /\ held' = {b \in held : b[1] # p}
        /\ dropped' = [dropped EXCEPT ![c] = None]
        /\ UNCHANGED <<refcount, users>>

Next ==
    \/ \E c \in Cpus : pmm_alloc_page(c) \/ DecrefFrees(c)
    \/ \E c \in Cpus, p \in Pages : pmm_free_page(c, p) \/ page_decref(c, p)
    \/ \E o \in Orders : pmm_alloc_pages(o)
    \/ \E p \in Pages, o \in Orders : pmm_free_pages(p, o)
    \/ \E p \in Pages : page_incref(p)

Spec == Init /\ [][Next]_vars

-----------------------------------------------------------------------------
TypeOK ==
    /\ buddy \in [state : [Pages -> {"Free", "Allocated", "PcpCached"}],
                  order : [Pages -> Orders], areas : [Orders -> Seq(Pages)]]
    /\ pcp \in [Cpus -> [list : Seq(Pages), count : Nat]]
    /\ refcount \in [Pages -> 0 .. MaxUsers]
    /\ held \subseteq Pages \X Orders
    /\ users \in [Pages -> 0 .. MaxUsers]
    /\ dropped \in [Cpus -> Pages \union {None}]

(* The pages memblock gave to the manager.                                 *)
Managed == UNION {FreeRegions[i][1] .. FreeRegions[i][2] - 1 : i \in DOMAIN FreeRegions}

(* Where a page is, one entry for every list position or block with it.    *)
PagePlaces(p) ==
    LET Slots == 1 .. g_num_pages
    IN  {x \in {"area"} \X Orders \X Slots :
            x[3] <= Len(buddy.areas[x[2]]) /\ p \in Block(buddy.areas[x[2]][x[3]], x[2])}
        \union {x \in {"pcp"} \X Cpus \X Slots :
            x[3] <= Len(pcp[x[2]].list) /\ pcp[x[2]].list[x[3]] = p}
        \union {x \in {"held"} \X Pages \X Orders :
            <<x[2], x[3]>> \in held /\ p \in Block(x[2], x[3])}

(* Through splits, merges, refills and drains every managed page is in     *)
(* exactly one free block, one PCP or one owned block, and a reserved page *)
(* is in none: nothing is lost, doubled or made up.                        *)
PagesConserved ==
    \A p \in Pages : Cardinality(PagePlaces(p)) = IF p \in Managed THEN 1 ELSE 0

(* A free block is aligned, lies in memory and its descriptor says what it *)
(* is, so that its buddy finds it and merges.                              *)
FreeBlocksWhole ==
    \A o \in Orders : \A p \in ToSet(buddy.areas[o]) :
        /\ p % 2^o = 0 /\ p + 2^o <= g_num_pages
        /\ buddy.state[p] = "Free" /\ buddy.order[p] = o

(* Coalescing is complete: a free block's buddy is not free as well.       *)
FullyCoalesced ==
    \A o \in 0 .. kMaxOrder - 2 : \A p \in ToSet(buddy.areas[o]) :
        buddy_of(p, o) \notin ToSet(buddy.areas[o])

(* The PCP's counter is its length and stays below the high watermark.     *)
PcpBounded ==
    \A c \in Cpus : pcp[c].count = Len(pcp[c].list) /\ pcp[c].count < g_pcp_high_watermark

(* Exactly one of the references given up at the same time frees a block,  *)
(* and only when no reference is left.                                     *)
LastReferenceFrees ==
    /\ \A c \in Cpus : dropped[c] # None => users[dropped[c]] = 0
    /\ \A b \in held : users[b[1]] = 0 => \E c \in Cpus : dropped[c] = b[1]
    /\ \A c, d \in Cpus : dropped[c] # None /\ dropped[c] = dropped[d] => c = d

Service == INSTANCE PageService
    WITH Sizes <- {2^o : o \in Orders}, owned <- {Block(b[1], b[2]) : b \in held}

(* The manager implements PageService: on no path does an allocation hand  *)
(* out a block that overlaps one in use or leaves memory.                  *)
ImplementsPageService == Service!Spec
=============================================================================
