----------------------------- MODULE BlockCache -----------------------------
(***************************************************************************)
(* The first-generation kernel's block cache (src/kernel/bio.cc) over its  *)
(* virtio disk driver (src/drivers/virtio_dist.cc): a fixed set of buffers *)
(* in least-recently-used order, each with a sleeping lock, and requests   *)
(* that take three descriptors from a free chain each.                     *)
(*                                                                         *)
(* One hart runs everything, so a process loses the processor only where   *)
(* it sleeps: for a buffer's lock, for descriptors, for its request.  All  *)
(* three sleeps are loops over their condition, so a sleeping process is   *)
(* one whose condition does not hold; when a wakeup can be missed is       *)
(* FirstProc's subject.                                                    *)
(***************************************************************************)
EXTENDS Integers, Sequences, SequencesExt, FiniteSets

CONSTANTS
    BcProcs,
    NBUF,         \* number of buffers
    Blocks,       \* block numbers in use, 0 among them
    NUM_DESCS,    \* descriptors of the queue
    MaxWrites,    \* bound: writes, all blocks together
    NoBlock

ASSUME BlockCacheAssumption == NBUF \in Nat \ {0} /\ NUM_DESCS \in Nat /\ NUM_DESCS >= 3 /\ 0 \in Blocks /\ Cardinality(BcProcs) <= NBUF

VARIABLES
    buf,          \* [buffer -> [blockno, valid, refcnt, data]]
    holder,       \* [buffer -> process that has its lock, or NoBlock]
    lru,          \* the list from the head, most recently released first
    bp,           \* [process -> [at, b, blk, ids, write]]
    platter,      \* [block -> version on the disk]
    latest,       \* [block -> version last put into the block]
    free_head, num_free, free_chain,
    busy,         \* disk.info[i].busy
    avail,        \* requests the device has not finished, by first descriptor
    used          \* requests it has finished and intr() has not seen

bcVars == <<buf, holder, lru, bp, platter, latest, free_head, num_free, free_chain, busy, avail, used>>
diskVars == <<platter, free_head, num_free, free_chain, busy, avail, used>>

Bufs == 1..NBUF
Descs == 0..(NUM_DESCS - 1)
Away == [at |-> "away", b |-> 1, blk |-> NoBlock, ids |-> <<>>, write |-> FALSE]

(* BufferCache::init pushes the buffers to the front one after another.    *)
(* They are zero: each claims to be block 0, not valid.                    *)
BcInit ==
    /\ buf = [b \in Bufs |-> [blockno |-> 0, valid |-> FALSE, refcnt |-> 0, data |-> 0]]
    /\ holder = [b \in Bufs |-> NoBlock]
    /\ lru = [i \in Bufs |-> NBUF + 1 - i]
    /\ bp = [p \in BcProcs |-> Away]
    /\ platter = [k \in Blocks |-> 0] /\ latest = [k \in Blocks |-> 0]
    /\ free_head = 0 /\ num_free = NUM_DESCS /\ free_chain = [i \in Descs |-> i + 1]
    /\ busy = [i \in Descs |-> FALSE] /\ avail = {} /\ used = <<>>

-----------------------------------------------------------------------------
Hits(k) == {i \in Bufs : buf[lru[i]].blockno = k}

(* Faulty variant: a buffer somebody waits for may be taken.               *)
Evictable_Unlocked(b) == holder[b] = NoBlock

Evictable(b) == buf[b].refcnt = 0

(* The buffer bget settles on: the block's, or the least recently used     *)
(* one nobody refers to.                                                   *)
Victim == LET is == {i \in Bufs : Evictable(lru[i])} IN lru[CHOOSE i \in is : \A j \in is : j <= i]

bget(p, k) ==
    /\ bp[p].at = "away"
    /\ IF Hits(k) # {}
       THEN LET b == lru[CHOOSE i \in Hits(k) : \A j \in Hits(k) : i <= j] IN
            /\ buf' = [buf EXCEPT ![b].refcnt = @ + 1]
            /\ bp' = [bp EXCEPT ![p] = [Away EXCEPT !.at = "lock", !.b = b, !.blk = k]]
       ELSE /\ \E b \in Bufs : Evictable(b)                \* otherwise: panic, no buffers
            /\ buf' = [buf EXCEPT ![Victim] = [@ EXCEPT !.blockno = k, !.valid = FALSE, !.refcnt = 1]]
            /\ bp' = [bp EXCEPT ![p] = [Away EXCEPT !.at = "lock", !.b = Victim, !.blk = k]]
    /\ UNCHANGED <<holder, lru, latest, diskVars>>

(* b->lock.acquire, and bread's look at valid.                             *)
Locked(p) ==
    LET b == bp[p].b IN
    /\ bp[p].at = "lock" /\ holder[b] = NoBlock
    /\ holder' = [holder EXCEPT ![b] = p]
    /\ bp' = [bp EXCEPT ![p].at = IF buf[b].valid THEN "held" ELSE "submit", ![p].write = FALSE]
    /\ UNCHANGED <<buf, lru, latest, diskVars>>

(* The holder changes the data and calls bwrite.                           *)
bwrite(p) ==
    LET b == bp[p].b IN
    /\ bp[p].at = "held" /\ FoldFunction(+, 0, latest) < MaxWrites
    /\ latest' = [latest EXCEPT ![bp[p].blk] = @ + 1]
    /\ buf' = [buf EXCEPT ![b].data = latest[bp[p].blk] + 1]
    /\ bp' = [bp EXCEPT ![p].at = "submit", ![p].write = TRUE]
    /\ UNCHANGED <<holder, lru, diskVars>>

brelse(p) ==
    LET b == bp[p].b IN
    /\ bp[p].at = "held"
    /\ holder' = [holder EXCEPT ![b] = NoBlock]
    /\ buf' = [buf EXCEPT ![b].refcnt = @ - 1]
    /\ lru' = IF buf[b].refcnt = 1 THEN <<b>> \o SelectSeq(lru, LAMBDA x : x # b) ELSE lru
    /\ bp' = [bp EXCEPT ![p] = Away]
    /\ UNCHANGED <<latest, diskVars>>

-----------------------------------------------------------------------------
RECURSIVE ChainFrom(_, _)
ChainFrom(h, n) == IF n = 0 THEN <<>> ELSE <<h>> \o ChainFrom(free_chain[h], n - 1)
FreeDescs == ChainFrom(free_head, num_free)

EnoughDescs == num_free >= 3

(* VirtIO::rw up to its sleep: three alloc_desc, the chain, the avail ring.*)
(* A request without enough descriptors waits for free_desc.               *)
rwSubmit(p) ==
    LET d1 == free_head
        d2 == free_chain[d1]
        d3 == free_chain[d2]
    IN
    /\ bp[p].at = "submit" /\ EnoughDescs
    /\ free_head' = free_chain[d3] /\ num_free' = num_free - 3
    /\ busy' = [busy EXCEPT ![d1] = TRUE]
    /\ avail' = avail \union {[id |-> d1, b |-> bp[p].b, blk |-> buf[bp[p].b].blockno, write |-> bp[p].write]}
    /\ bp' = [bp EXCEPT ![p].at = "io", ![p].ids = <<d1, d2, d3>>]
    /\ UNCHANGED <<buf, holder, lru, platter, latest, free_chain, used>>

(* The device carries out the requests it was given in any order.          *)
Device(r) ==
    /\ r \in avail
    /\ IF r.write THEN platter' = [platter EXCEPT ![r.blk] = buf[r.b].data] /\ UNCHANGED buf
       ELSE buf' = [buf EXCEPT ![r.b].data = platter[r.blk]] /\ UNCHANGED platter
    /\ avail' = avail \ {r}
    /\ used' = Append(used, r.id)
    /\ UNCHANGED <<holder, lru, bp, latest, free_head, num_free, free_chain, busy>>

(* intr: every finished request's busy flag is cleared.                    *)
intr ==
    /\ used # <<>>
    /\ busy' = [i \in Descs |-> busy[i] /\ i \notin ToSet(used)]
    /\ used' = <<>>
    /\ UNCHANGED <<buf, holder, lru, bp, platter, latest, free_head, num_free, free_chain, avail>>

FreedIds(ids) == ids

(* free_chain_soft: free_desc puts each at the head of the chain.          *)
free_desc(st, id) == [head |-> id, chain |-> [st.chain EXCEPT ![id] = st.head], n |-> st.n + 1]

(* The rest of rw once busy is clear, and bread's or bwrite's return.      *)
rwDone(p) ==
    LET st == FoldLeft(free_desc, [head |-> free_head, chain |-> free_chain, n |-> num_free], FreedIds(bp[p].ids)) IN
    /\ bp[p].at = "io" /\ ~busy[bp[p].ids[1]]
    /\ free_head' = st.head /\ free_chain' = st.chain /\ num_free' = st.n
    /\ buf' = [buf EXCEPT ![bp[p].b].valid = TRUE]
    /\ bp' = [bp EXCEPT ![p].at = "held", ![p].ids = <<>>]
    /\ UNCHANGED <<holder, lru, platter, latest, busy, avail, used>>

BcNext ==
    \/ \E p \in BcProcs :
          \/ \E k \in Blocks : bget(p, k)
          \/ Locked(p) \/ bwrite(p) \/ brelse(p) \/ rwSubmit(p) \/ rwDone(p)
    \/ \E r \in avail : Device(r)
    \/ intr

-----------------------------------------------------------------------------
BcTypeOK ==
    /\ \A b \in Bufs : buf[b].refcnt \in 0..Cardinality(BcProcs)
    /\ num_free \in 0..NUM_DESCS
    /\ \A p \in BcProcs : bp[p].at \in {"away", "lock", "held", "submit", "io"}

(* Whoever holds a buffer sees the block it asked for, as it was last      *)
(* written, whichever buffers were evicted and reread in between.          *)
HolderSeesLatest ==
    \A p \in BcProcs : bp[p].at = "held" =>
        /\ buf[bp[p].b].blockno = bp[p].blk
        /\ buf[bp[p].b].data = latest[bp[p].blk]

(* A block is cached in at most one buffer, the empty ones the list starts *)
(* with, which all claim to be block 0, not counted; and the references    *)
(* of a buffer are the processes that wait for it or use it.               *)
BuffersAccounted ==
    /\ \A k \in Blocks : Cardinality({i \in Hits(k) : buf[lru[i]].valid \/ buf[lru[i]].refcnt > 0}) <= 1
    /\ \A b \in Bufs : buf[b].refcnt = Cardinality({p \in BcProcs : bp[p].at # "away" /\ bp[p].b = b})

(* Every descriptor is on the free chain or belongs to one request.        *)
DescriptorsAccounted ==
    LET inUse == UNION {ToSet(bp[p].ids) : p \in BcProcs} IN
    /\ num_free + 3 * Cardinality({p \in BcProcs : bp[p].ids # <<>>}) = NUM_DESCS
    /\ ToSet(FreeDescs) \union inUse = Descs

(* Nothing was written to the cache that is not on the disk, once its      *)
(* writer has let go of it.                                                *)
WrittenThrough ==
    \A k \in Blocks : latest[k] # platter[k] => \E p \in BcProcs : bp[p].blk = k /\ bp[p].write /\ bp[p].at \in {"submit", "io"}
=============================================================================
