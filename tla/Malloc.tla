------------------------------- MODULE Malloc -------------------------------
(***************************************************************************)
(* The heap of the user library (src/ulib/stdlib.c): malloc, free, calloc  *)
(* and realloc over a circular list of free blocks in address order, which *)
(* starts at the static header base and grows through sbrk.  A header is   *)
(* named by its address; base lies below the heap.  An operation is a      *)
(* function of the heap record.                                            *)
(*                                                                         *)
(* Sizes are size_t, and sbrk takes an int: a request that does not survive *)
(* these conversions gets a block that is too small or lies beyond the     *)
(* break, and what the program does to the heap from there on is not       *)
(* followed.                                                               *)
(* When the kernel has no memory, sbrk returns -ENOMEM, which morecore, on *)
(* the lookout for -1, takes for an address: writing the header there ends *)
(* the program.                                                            *)
(***************************************************************************)
EXTENDS Integers, FiniteSets, FiniteSetsExt, Functions, TLC

CONSTANTS ALIGNMENT,      \* 16 in the code, also sizeof(header_t)
          MoreCore,       \* what morecore asks for at least: 4096
          SizeMod,        \* what size_t wraps at: 2^64
          IntMod,         \* what int wraps at: 2^32
          HeapLimit,      \* bound: where sbrk fails
          MallocSizes,    \* the sizes asked for
          HeapNull        \* the null pointer

ASSUME MallocAssumption == /\ {ALIGNMENT, MoreCore, HeapLimit} \subseteq Nat \ {0}
                           /\ MoreCore % ALIGNMENT = 0 /\ SizeMod % ALIGNMENT = 0
                           /\ HeapLimit < IntMod \div 2 /\ MallocSizes \subseteq 0..(SizeMod - 1)

VARIABLES heap,    \* [hdr: address -> [size, next], freep, brk, fate], where
                   \* fate is "fine", "wrapped" or "killed"
          owned    \* the blocks the program holds: address -> bytes asked for

mallocVars == <<heap, owned>>

base == 0
HeapStart == ALIGNMENT
ALIGN(n) == (((n + ALIGNMENT - 1) % SizeMod) \div ALIGNMENT) * ALIGNMENT

\* The size of a block for size bytes, and whether size_t could not hold it.
BlockSize(size) == ALIGN(size + ALIGNMENT)
Wraps(size) == size + 2 * ALIGNMENT - 1 >= SizeMod

Without1(h, p) == [q \in DOMAIN h \ {p} |-> h[q]]

\* Where a freed block bp belongs: the search starts at freep and stops between
\* two neighbours, or at the end of the list where addresses wrap around.
RECURSIVE Place(_, _, _)
Place(hdr, p, bp) ==
    IF \/ p < bp /\ bp < hdr[p].next
       \/ p >= hdr[p].next /\ (bp > p \/ bp < hdr[p].next)
    THEN p ELSE Place(hdr, hdr[p].next, bp)

\* Faulty variant: a freed block is not joined with the one above it.
JoinUpper_Not(hdr, p, bp) == [hdr EXCEPT ![bp].next = hdr[p].next]

JoinUpper(hdr, p, bp) ==
    LET up == hdr[p].next
    IN IF bp + hdr[bp].size = up
       THEN Without1([hdr EXCEPT ![bp] = [size |-> @.size + hdr[up].size, next |-> hdr[up].next]], up)
       ELSE [hdr EXCEPT ![bp].next = up]

JoinLower(hdr, p, bp) ==
    IF p + hdr[p].size = bp
    THEN Without1([hdr EXCEPT ![p] = [size |-> @.size + hdr[bp].size, next |-> hdr[bp].next]], bp)
    ELSE [hdr EXCEPT ![p].next = bp]

free(h, bp) ==
    LET p == Place(h.hdr, h.freep, bp)
    IN [h EXCEPT !.hdr = JoinLower(JoinUpper(@, p, bp), p, bp), !.freep = p]

AsInt(n) == LET low == n % IntMod IN IF low >= IntMod \div 2 THEN low - IntMod ELSE low

\* The break n bytes further on; a negative n takes it back.
BreakAfter(brk, n) == IF n < 0 /\ brk + n < 0 THEN brk ELSE brk + n

\* The heap grown by at least nu bytes.
morecore(h, nu0) ==
    LET nu == ALIGN(IF nu0 < MoreCore THEN MoreCore ELSE nu0)
        up == h.brk
        brk == BreakAfter(up, AsInt(nu))
        grown == [h EXCEPT !.hdr = (up :> [size |-> nu, next |-> HeapNull]) @@ @, !.brk = brk]
    IN CASE brk > HeapLimit -> [h EXCEPT !.fate = "killed"]
         [] brk <= HeapLimit /\ brk # up + nu -> free([grown EXCEPT !.fate = "wrapped"], up)
         [] OTHER -> free(grown, up)

\* The tail of a larger block is given away; the rest stays in the list.
Cut(hdr, p, size) ==
    (p + hdr[p].size - size :> [size |-> size, next |-> HeapNull])
        @@ [hdr EXCEPT ![p].size = @ - size]

\* First fit, from prevp on: [ret, h].
RECURSIVE Search(_, _, _, _)
Search(h, prevp, p, size) ==
    LET hdr == h.hdr
        more == morecore(h, size)
    IN CASE hdr[p].size = size ->
              [ret |-> p, h |-> [h EXCEPT !.hdr[prevp].next = hdr[p].next, !.hdr[p].next = HeapNull,
                                          !.freep = prevp]]
         [] hdr[p].size > size ->
              [ret |-> p + hdr[p].size - size,
               h |-> [h EXCEPT !.hdr = Cut(@, p, size), !.freep = prevp]]
         [] hdr[p].size < size /\ p = h.freep ->
              IF more.fate = "killed" THEN [ret |-> HeapNull, h |-> more]
              ELSE Search(more, more.freep, more.hdr[more.freep].next, size)
         [] OTHER -> Search(h, p, hdr[p].next, size)

malloc(h0, size) ==
    LET h == IF h0.freep = HeapNull
             THEN [h0 EXCEPT !.hdr = base :> [size |-> 0, next |-> base], !.freep = base]
             ELSE h0
    IN IF size = 0 THEN [ret |-> HeapNull, h |-> h0]
       ELSE LET r == Search(h, h.freep, h.hdr[h.freep].next, BlockSize(size))
            IN IF Wraps(size) THEN [r EXCEPT !.h.fate = "wrapped"] ELSE r

----------------------------------------------------------------------------

MallocInit == /\ heap = [hdr |-> <<>>, freep |-> HeapNull, brk |-> HeapStart, fate |-> "fine"]
              /\ owned = <<>>

\* malloc, and calloc of the same number of bytes.
CallMalloc == \E size \in MallocSizes :
                  LET r == malloc(heap, size)
                  IN /\ heap.fate = "fine"
                     /\ heap' = r.h
                     /\ owned' = IF r.ret = HeapNull THEN owned ELSE (r.ret :> size) @@ owned

CallFree == \E bp \in DOMAIN owned : /\ heap.fate = "fine"
                                     /\ heap' = free(heap, bp)
                                     /\ owned' = Without1(owned, bp)

\* In place where the block is large enough, else copied to a new one.
realloc == \E bp \in DOMAIN owned, size \in MallocSizes :
               LET r == malloc(heap, size)
               IN /\ heap.fate = "fine"
                  /\ \/ /\ size = 0
                        /\ heap' = free(heap, bp) /\ owned' = Without1(owned, bp)
                     \/ /\ size # 0 /\ heap.hdr[bp].size >= BlockSize(size)
                        /\ owned' = [owned EXCEPT ![bp] = size]
                        /\ heap' = IF Wraps(size) THEN [heap EXCEPT !.fate = "wrapped"] ELSE heap
                     \/ /\ size # 0 /\ heap.hdr[bp].size < BlockSize(size)
                        /\ heap' = IF r.ret = HeapNull THEN r.h ELSE free(r.h, bp)
                        /\ owned' = IF r.ret = HeapNull THEN owned
                                    ELSE (r.ret :> size) @@ Without1(owned, bp)

MallocNext == CallMalloc \/ CallFree \/ realloc

----------------------------------------------------------------------------

\* The free blocks: every header that is neither base nor in the program's hands.
FreeBlocks == DOMAIN heap.hdr \ (DOMAIN owned \cup {base})

Extent(p) == p..(p + heap.hdr[p].size - 1)

\* The blocks the program holds and the free blocks tile the memory between
\* the start of the heap and the break: none overlap, no byte is lost, and
\* each block in use holds its header and the bytes that were asked for,
\* until a request is too large for size_t or for the int of sbrk.
HeapTiled ==
    LET blocks == DOMAIN heap.hdr \ {base}
    IN heap.fate # "wrapped" =>
       /\ DOMAIN owned \subseteq blocks
       /\ UNION {Extent(p) : p \in blocks} = HeapStart..(heap.brk - 1)
       /\ MapThenSumSet(LAMBDA p : heap.hdr[p].size, blocks) = heap.brk - HeapStart
       /\ \A p \in DOMAIN owned : heap.hdr[p].size >= ALIGNMENT + owned[p]

\* The list of free blocks is one circle through base that names every free
\* block once, in the order of addresses, and freep is on it: this is what the
\* search in free relies on to come to an end.
ListInOrder ==
    heap.freep # HeapNull /\ heap.fate # "wrapped" =>
        LET ring == FreeBlocks \cup {base}
        IN /\ heap.freep \in ring
           /\ \A p \in ring : heap.hdr[p].next =
                  IF p = Max(ring) THEN base ELSE Min({q \in ring : q > p})

\* Two free blocks never lie side by side: free joins with both neighbours,
\* so memory given back can be handed out again as one piece.
FreeJoined == heap.fate # "wrapped" => \A p \in FreeBlocks : p + heap.hdr[p].size \notin FreeBlocks
=============================================================================
