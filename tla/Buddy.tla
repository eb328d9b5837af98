------------------------------- MODULE Buddy -------------------------------
(***************************************************************************)
(* The buddy system of the physical memory manager (na/mm/pmm.cc).  A page *)
(* is its frame number.  An allocator is a record: state and order are the *)
(* page descriptors' fields, areas the free lists by order, newest first.  *)
(* The caller holds g_pmm_lock.                                            *)
(*                                                                         *)
(* The code's loops over orders only read descriptors that earlier rounds  *)
(* left alone, so each is given by the order at which it stops.            *)
(***************************************************************************)
EXTENDS Integers, SequencesExt

CONSTANTS
    g_num_pages,
    kMaxOrder,
    FreeRegions   \* memblock's free ranges in ascending order: <<first, end>>

ASSUME BuddyAssumption ==
    /\ g_num_pages \in Nat /\ kMaxOrder \in Nat /\ kMaxOrder > 0
    /\ FreeRegions \in Seq((0 .. g_num_pages) \X (0 .. g_num_pages))

Pages == 0 .. g_num_pages - 1
Orders == 0 .. kMaxOrder - 1

Block(p, o) == p .. p + 2^o - 1

buddy_of(p, o) == IF (p \div 2^o) % 2 = 0 THEN p + 2^o ELSE p - 2^o

(* The aligned block of order o that page p lies in.                       *)
Base(p, o) == p - (p % 2^o)

-----------------------------------------------------------------------------
(* pmm_init cuts a free range into the largest aligned blocks that fit.    *)
LargestOrder(p, end) == Max({o \in Orders : p % 2^o = 0 /\ p + 2^o <= end})

Feed(first, end) ==
    LET cut[p \in 0 .. g_num_pages] ==
            IF p >= end THEN <<>>
            ELSE <<<<p, LargestOrder(p, end)>>>> \o cut[p + 2^LargestOrder(p, end)]
    IN  cut[first]

(* Everything else keeps the descriptor of a page in use.                  *)
pmm_init ==
    LET blocks == FlattenSeq([i \in DOMAIN FreeRegions |-> Feed(FreeRegions[i][1], FreeRegions[i][2])])
        ofOrder(o) == SelectSeq(blocks, LAMBDA b : b[2] = o)
        fed == ToSet(blocks)
    IN  [state |-> [p \in Pages |-> IF \E b \in fed : b[1] = p THEN "Free" ELSE "Allocated"],
         order |-> [p \in Pages |-> IF \E b \in fed : b[1] = p
                                    THEN (CHOOSE b \in fed : b[1] = p)[2] ELSE 0],
         areas |-> [o \in Orders |-> Reverse([i \in DOMAIN ofOrder(o) |-> ofOrder(o)[i][1]])]]

-----------------------------------------------------------------------------
(* buddy_alloc finds the first order with a free block, or fails.          *)
Fits(a, o) == {k \in o .. kMaxOrder - 1 : a.areas[k] # <<>>}

CanAlloc(a, o) == Fits(a, o) # {}

(* The block it takes.                                                     *)
AllocPage(a, o) == Head(a.areas[Min(Fits(a, o))])

(* buddy_alloc: the first block of that order is taken and split down to   *)
(* order o; the upper half of every split becomes a free block.            *)
buddy_alloc(a, o) ==
    LET cur == Min(Fits(a, o))
        p == AllocPage(a, o)
        split == o .. cur - 1
    IN  [state |-> [q \in Pages |-> IF q = p THEN "Allocated"
                        ELSE IF \E k \in split : q = p + 2^k THEN "Free" ELSE a.state[q]],
         order |-> [q \in Pages |-> IF q = p THEN o
                        ELSE IF \E k \in split : q = p + 2^k
                             THEN CHOOSE k \in split : q = p + 2^k ELSE a.order[q]],
         areas |-> [k \in Orders |-> IF k = cur THEN Tail(a.areas[k])
                        ELSE IF k \in split THEN <<p + 2^k>> \o a.areas[k] ELSE a.areas[k]]]

(* Faulty variant: a buddy that is split, or free at another order, is     *)
(* merged as well.                                                         *)
Merges_AnyOrder(a, p, k) ==
    LET b == buddy_of(Base(p, k), k)
    IN  k < kMaxOrder - 1 /\ b < g_num_pages /\ a.state[b] = "Free"

(* buddy_free goes on from order k: the buddy exists, is free and whole.   *)
Merges(a, p, k) ==
    LET b == buddy_of(Base(p, k), k)
    IN  /\ k < kMaxOrder - 1
        /\ b < g_num_pages
        /\ a.state[b] = "Free" /\ a.order[b] = k

(* buddy_free: merge up to the first order that does not merge, then add.  *)
buddy_free(a, p, o) ==
    LET top == Min({k \in o .. kMaxOrder - 1 : ~Merges(a, p, k)})
        head == Base(p, top)
        rest(k) == IF k \in o .. top - 1
                   THEN SelectSeq(a.areas[k], LAMBDA q : q # buddy_of(Base(p, k), k))
                   ELSE a.areas[k]
    IN  [state |-> [a.state EXCEPT ![head] = "Free"],
         order |-> [a.order EXCEPT ![head] = top],
         areas |-> [k \in Orders |-> IF k = top THEN <<head>> \o rest(k) ELSE rest(k)]]
=============================================================================
