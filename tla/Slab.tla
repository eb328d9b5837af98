-------------------------------- MODULE Slab --------------------------------
(***************************************************************************)
(* The object allocator (na/mm/slab.cc): kmalloc and kfree over one cache  *)
(* per size class, each with an active page per CPU.  The CPU modelled is  *)
(* the one that boot starts.  Its thread may be interrupted where it turns *)
(* interrupts back on; a handler, or a caller with interrupts off, runs a  *)
(* whole call as one step.                                                 *)
(*                                                                         *)
(* A page is a frame number, an object a slot of its page.  desc holds the *)
(* page descriptors, objects what the clients own: <<page, slot, class>>,  *)
(* with class 0 and the block's order as slot for a large allocation.      *)
(***************************************************************************)
EXTENDS Integers, Sequences, FiniteSets, SequencesExt

CONSTANTS
    SlabPages,        \* the number of page frames
    kSizeClasses,     \* object sizes, ascending
    kPageSize,
    MaxRequest,       \* bound on the sizes asked for
    NoSlab

ASSUME SlabAssumption ==
    /\ SlabPages \in Nat /\ kPageSize \in Nat /\ MaxRequest \in Nat
    /\ kSizeClasses \in Seq(1 .. kPageSize)

VARIABLES
    desc,      \* [frame -> [state, order, cache, obj_count, freelist]]
    active,    \* [class -> page or NoSlab]   cpu_slab_[cpu].active
    objects,
    caller     \* the thread's call: "out", or where interrupts are on in it

slabVars == <<desc, active, objects, caller>>

Frames == 0 .. SlabPages - 1
Classes == DOMAIN kSizeClasses

objs_per_slab(k) == kPageSize \div kSizeClasses[k]
Slots(k) == 0 .. objs_per_slab(k) - 1

FreeDesc == [state |-> "Free", order |-> 0, cache |-> NoSlab, obj_count |-> 0, freelist |-> <<>>]
Out == [at |-> "out", class |-> 0, page |-> NoSlab]

slab_init ==
    /\ desc = [p \in Frames |-> FreeDesc]
    /\ active = [k \in Classes |-> NoSlab]
    /\ objects = {}
    /\ caller = Out

-----------------------------------------------------------------------------
(* pmm_alloc_pages, as the slab uses it: any free aligned block.           *)
FreeBlocks(d, o) ==
    {p \in Frames : /\ p % 2^o = 0 /\ p + 2^o <= SlabPages
                    /\ \A q \in p .. p + 2^o - 1 : d[q].state = "Free"}

Chain(k) == [i \in 1 .. objs_per_slab(k) |-> i - 1]

(* new_slab formats page p: all slots chained, the lowest first.           *)
new_slab(d, p, k) ==
    [d EXCEPT ![p] = [state |-> "Slab", order |-> 0, cache |-> k,
                      obj_count |-> 0, freelist |-> Chain(k)]]

(* alloc takes the first slot off page p's free list.                      *)
PopObject(d, p) == [d EXCEPT ![p].freelist = Tail(@), ![p].obj_count = @ + 1]

(* The end of alloc: page p serves class k's object.                       *)
Serve(d, p, k) ==
    /\ desc' = PopObject(d, p)
    /\ objects' = objects \union {<<p, Head(d[p].freelist), k>>}

HasRoom(k) == active[k] # NoSlab /\ desc[active[k]].freelist # <<>>

find_cache(size) ==
    CHOOSE k \in Classes : /\ kSizeClasses[k] >= size
                           /\ \A j \in Classes : kSizeClasses[j] >= size => k <= j

IsLarge(size) == size > kSizeClasses[Len(kSizeClasses)]

(* The smallest block with room for size bytes.                            *)
LargeOrder(size) ==
    LET needed == (size + kPageSize - 1) \div kPageSize
    IN  CHOOSE o \in 0 .. needed : 2^o >= needed /\ \A j \in 0 .. needed : 2^j >= needed => o <= j

(* kmalloc of a size no class has: a block of pages, or nullptr.           *)
KmallocLarge(size) ==
    /\ size > 0 /\ IsLarge(size)
    /\ \E p \in FreeBlocks(desc, LargeOrder(size)) :
          LET o == LargeOrder(size) IN
          /\ desc' = [q \in Frames |->
                 IF q \in p .. p + 2^o - 1
                 THEN [FreeDesc EXCEPT !.state = "Allocated", !.order = IF q = p THEN o ELSE 0]
                 ELSE desc[q]]
          /\ objects' = objects \union {<<p, o, 0>>}
    /\ UNCHANGED <<active, caller>>

(* KmemCache::alloc, fast path: the active page has a free object.         *)
AllocFast(size) ==
    /\ size > 0 /\ ~IsLarge(size)
    /\ LET k == find_cache(size)
       IN  HasRoom(k) /\ Serve(desc, active[k], k)
    /\ UNCHANGED <<active, caller>>

(* Slow path: a full active page is let go and interrupts come back on     *)
(* before the new page is taken ...                                        *)
AllocDetach(size) ==
    /\ size > 0 /\ ~IsLarge(size) /\ caller.at = "out"
    /\ LET k == find_cache(size)
       IN  /\ ~HasRoom(k)
           /\ active' = [active EXCEPT ![k] = NoSlab]
           /\ caller' = [at |-> "fetch", class |-> k, page |-> NoSlab]
    /\ UNCHANGED <<desc, objects>>

(* ... and still are while new_slab runs; without a page alloc fails ...   *)
AllocFetch ==
    /\ caller.at = "fetch"
    /\ \/ \E p \in FreeBlocks(desc, 0) :
             /\ desc' = new_slab(desc, p, caller.class)
             /\ caller' = [caller EXCEPT !.at = "install", !.page = p]
       \/ FreeBlocks(desc, 0) = {} /\ caller' = Out /\ UNCHANGED desc
    /\ UNCHANGED <<active, objects>>

(* Faulty variant: the page becomes active only if no handler has put one  *)
(* there in the meantime.                                                  *)
AllocInstall_Drops ==
    /\ caller.at = "install"
    /\ active' = [active EXCEPT ![caller.class] = IF @ = NoSlab THEN caller.page ELSE @]
    /\ LET p == active'[caller.class] IN
       IF desc[p].freelist = <<>> THEN UNCHANGED <<desc, objects>>
       ELSE Serve(desc, p, caller.class)
    /\ caller' = Out

(* ... and the new page replaces whatever a handler has made active.       *)
AllocInstall ==
    /\ caller.at = "install"
    /\ active' = [active EXCEPT ![caller.class] = caller.page]
    /\ Serve(desc, caller.page, caller.class)
    /\ caller' = Out

(* The slow path of a caller that has interrupts off: one step.            *)
AllocSlowAtomic(size) ==
    /\ size > 0 /\ ~IsLarge(size)
    /\ LET k == find_cache(size)
       IN  /\ ~HasRoom(k)
           /\ \/ \E p \in FreeBlocks(desc, 0) :
                    /\ active' = [active EXCEPT ![k] = p]
                    /\ Serve(new_slab(desc, p, k), p, k)
              \/ /\ FreeBlocks(desc, 0) = {}
                 /\ active' = [active EXCEPT ![k] = NoSlab]
                 /\ UNCHANGED <<desc, objects>>
    /\ UNCHANGED caller

-----------------------------------------------------------------------------
(* KmemCache::free pushes the slot; an emptied page stops being active.    *)
PushObject(d, p, s) == [d EXCEPT ![p].freelist = <<s>> \o @, ![p].obj_count = @ - 1]

Deactivate(p) == [k \in Classes |-> IF active[k] = p THEN NoSlab ELSE active[k]]

(* kfree of a slab object.  A caller with interrupts off returns an empty  *)
(* page at once, one with interrupts on after turning them on.             *)
KfreeSlab(x, irqs) ==
    LET p == x[1]
        pushed == PushObject(desc, p, x[2])
        empty == pushed[p].obj_count = 0
    IN  /\ x \in objects /\ desc[p].state = "Slab"
        /\ irqs => caller.at = "out"
        /\ objects' = objects \ {x}
        /\ active' = IF empty THEN Deactivate(p) ELSE active
        /\ desc' = IF empty /\ ~irqs THEN [desc EXCEPT ![p] = FreeDesc] ELSE pushed
        /\ caller' = IF empty /\ irqs
                     THEN [at |-> "return", class |-> desc[p].cache, page |-> p] ELSE caller

(* The rest of free: the page goes back to the page allocator.             *)
FreeReturn ==
    /\ caller.at = "return"
    /\ desc' = [desc EXCEPT ![caller.page] = FreeDesc]
    /\ caller' = Out
    /\ UNCHANGED <<active, objects>>

(* kfree of a large allocation, by the order in its first descriptor.      *)
KfreeLarge(x) ==
    /\ x \in objects /\ desc[x[1]].state = "Allocated"
    /\ desc' = [q \in Frames |-> IF q \in x[1] .. x[1] + 2^desc[x[1]].order - 1
                                 THEN FreeDesc ELSE desc[q]]
    /\ objects' = objects \ {x}
    /\ UNCHANGED <<active, caller>>

SlabNext ==
    \/ \E size \in 0 .. MaxRequest :
          KmallocLarge(size) \/ AllocFast(size) \/ AllocDetach(size) \/ AllocSlowAtomic(size)
    \/ AllocFetch \/ AllocInstall \/ FreeReturn
    \/ \E x \in objects : KfreeLarge(x) \/ \E irqs \in BOOLEAN : KfreeSlab(x, irqs)

-----------------------------------------------------------------------------
SlabTypeOK ==
    /\ desc \in [Frames -> [state : {"Free", "Slab", "Allocated"}, order : Nat,
                            cache : Classes \union {NoSlab}, obj_count : Nat, freelist : Seq(Nat)]]
    /\ active \in [Classes -> Frames \union {NoSlab}]
    /\ caller.at \in {"out", "fetch", "install", "return"}

Live(p) == {x[2] : x \in {y \in objects : y[1] = p /\ y[3] # 0}}

(* On every slab page the free list and the objects in use are the page's  *)
(* slots, each once, and obj_count is exact: no object is handed out twice *)
(* and none is lost, whatever handlers do between the parts of a call.     *)
SlabExact ==
    \A p \in Frames : desc[p].state = "Slab" =>
        LET listed == ToSet(desc[p].freelist) IN
        /\ Len(desc[p].freelist) = Cardinality(listed)
        /\ listed \intersect Live(p) = {}
        /\ listed \union Live(p) = Slots(desc[p].cache)
        /\ desc[p].obj_count = Cardinality(Live(p))

(* A slab page is in use, active, or in the hands of an unfinished call:   *)
(* also a page that lost the race to be active goes back when it is empty. *)
SlabPagesReachable ==
    \A p \in Frames : desc[p].state = "Slab" =>
        Live(p) # {} \/ caller.page = p \/ active[desc[p].cache] = p

(* kfree's panics are for errors of callers: what was handed out is on a   *)
(* page that kfree will recognise, with room for what was asked for.       *)
KfreeFinds ==
    \A x \in objects :
        IF x[3] = 0 THEN desc[x[1]].state = "Allocated" /\ desc[x[1]].order = x[2]
        ELSE desc[x[1]].state = "Slab" /\ desc[x[1]].cache = x[3]

(* An active page is never one that was given back.                        *)
ActiveIsSlab ==
    \A k \in Classes : active[k] # NoSlab =>
        desc[active[k]].state = "Slab" /\ desc[active[k]].cache = k
=============================================================================
