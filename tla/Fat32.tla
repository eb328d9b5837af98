-------------------------------- MODULE Fat32 -------------------------------
(***************************************************************************)
(* The FAT32 file system of the first-generation kernel                    *)
(* (src/fs/fat32.cc) with the locking of its callers (sys_openat,          *)
(* sys_unlinkat, fs.cc).                                                   *)
(*                                                                         *)
(* Every change of the disk is one bwrite under that buffer's lock, and    *)
(* bwrite is synchronous, so a step is one bwrite with the reads before    *)
(* it: other processes run, and power may fail, between any two of them.   *)
(* Creating and unlinking happen under the directory inode's lock.  One    *)
(* directory, the root, is modelled; contents are units, ClusSz of them to *)
(* a cluster, tagged with the file they were written to.  A write whose    *)
(* copyin fails leaves a buffer that differs from the disk.                *)
(*                                                                         *)
(* Three things the code does not guard against, and power failing inside  *)
(* truncate, end a behaviour here, and harm says which: a file is opened   *)
(* or unlinked while it is open (each open makes an inode of its own,      *)
(* which copies the entry and later writes it back to the same slot), or   *)
(* alloc_cluster, which scans the whole table and does not know the size   *)
(* of the volume, hands out a cluster behind its end.                      *)
(***************************************************************************)
EXTENDS Integers, Sequences, FiniteSets, FiniteSetsExt

CONSTANTS
    FsProcs, Names,
    MaxCluster,     \* the last cluster of the volume
    ClusSz, SlotsPerClus,
    WriteSizes, MaxSize,    \* bounds: lengths of a write and of a file
    MaxPartial,             \* bound: units in the cache that the disk lacks
    NoName, NoInode

ASSUME Fat32Assumption ==
    /\ MaxCluster \in Nat \ {0, 1}
    /\ ClusSz \in Nat \ {0} /\ SlotsPerClus \in Nat \ {0} /\ NoName \notin Names

VARIABLES
    fat,            \* [cluster -> 0 (free), EOC or the next cluster]
    ents,           \* [cluster -> its directory slots]
    units,          \* [cluster -> its units], as the cache shows them
    unsaved,        \* {[at, was, name, off]}: units of a file that the cache
                    \* shows and the disk lacks
    inode,          \* [process -> its open inode, or NoInode]
    op,             \* [process -> what it is doing]
    dirLock,        \* the holder of the root inode's lock
    want,           \* ghost: [name -> offsets written since it was empty, by a
                    \* write or by the part of one whose copyin failed]
    gone,           \* ghost: clusters that unlink or a crash left behind
    harm            \* ghost: "none", "torn", "shared" or "outside"

fsDisk == <<fat, ents, units, unsaved>>
ghosts == <<want, gone, harm>>
fsVars == <<fsDisk, inode, op, dirLock, ghosts>>

root_cluster == 2
EOC == MaxCluster + 1           \* 0x0FFFFFF8 and above
Clusters == 2..MaxCluster
EndSlot == [name |-> NoName, used |-> FALSE, first |-> 0, size |-> 0]     \* name[0] = 0
Erased == [EndSlot EXCEPT !.used = TRUE]                                  \* name[0] = 0xE5
Rest == [pc |-> "idle", clus |-> 0, new |-> 0, cur |-> 0, off |-> 0, n |-> 0, tot |-> 0]

RECURSIVE ChainFrom1(_, _)
ChainFrom1(f, c) == IF c \in Clusters THEN <<c>> \o ChainFrom1([f EXCEPT ![c] = 0], f[c]) ELSE <<c>>

(* The clusters next_cluster leads through, then EOC, or what broke it.    *)
ChainOf(c) == ChainFrom1(fat, c)
InChain(s) == {s[i] : i \in DOMAIN s} \intersect Clusters
ClustersOf(c) == InChain(ChainOf(c))

DirClusters == LET c == ChainOf(root_cluster) IN SubSeq(c, 1, Len(c) - 1)

(* The slots of the root in the order lookup, create and unlink scan them. *)
SlotsInOrder ==
    LET d == DirClusters IN
    [i \in 1..(Len(d) * SlotsPerClus) |-> <<d[1 + ((i - 1) \div SlotsPerClus)], 1 + ((i - 1) % SlotsPerClus)>>]
EntAt(at) == ents[at[1]][at[2]]

(* Where lookup sees the name: not behind the end of the directory.        *)
Found(name) ==
    LET s == SlotsInOrder IN
    {s[i] : i \in {k \in DOMAIN s : EntAt(s[k]).name = name /\ \A j \in 1..k : EntAt(s[j]) # EndSlot}}

(* lookup: an inode that copies the first entry of that name.              *)
lookup1(name) ==
    LET at == Found(name) IN
    IF at = {} THEN NoInode
    ELSE LET x == CHOOSE x \in at : TRUE IN [name |-> name, at |-> x, first |-> EntAt(x).first, size |-> EntAt(x).size]

Users1(name) == {p \in FsProcs : inode[p] # NoInode /\ inode[p].name = name}

FsInit ==
    /\ fat = [c \in Clusters |-> IF c = root_cluster THEN EOC ELSE 0]
    /\ ents = [c \in Clusters |-> [i \in 1..SlotsPerClus |-> EndSlot]]
    /\ units = [c \in Clusters |-> [i \in 1..ClusSz |-> 0]] /\ unsaved = {}
    /\ inode = [p \in FsProcs |-> NoInode] /\ op = [p \in FsProcs |-> Rest]
    /\ dirLock = NoName /\ want = [x \in Names |-> {}] /\ gone = {} /\ harm = "none"

At(p, pc) == op[p].pc = pc
Goto(p, pc) == op' = [op EXCEPT ![p].pc = pc]
Done(p) == op' = [op EXCEPT ![p] = Rest]

-----------------------------------------------------------------------------
(* sys_openat of a file that is there.                                     *)
openFile(p, name) ==
    /\ At(p, "idle") /\ inode[p] = NoInode /\ dirLock = NoName
    /\ lookup1(name) # NoInode
    /\ inode' = [inode EXCEPT ![p] = lookup1(name)]
    /\ harm' = IF Users1(name) = {} THEN harm ELSE "shared"
    /\ UNCHANGED <<fsDisk, op, dirLock, want, gone>>

closeFile(p) ==
    /\ At(p, "idle") /\ inode[p] # NoInode
    /\ inode' = [inode EXCEPT ![p] = NoInode]
    /\ UNCHANGED <<fsDisk, op, dirLock, ghosts>>

(* update: the inode's size and first cluster go to its slot.              *)
Updated(ino) == [ents EXCEPT ![ino.at[1]][ino.at[2]].first = ino.first, ![ino.at[1]][ino.at[2]].size = ino.size]

-----------------------------------------------------------------------------
FreeClusters == {c \in Clusters : fat[c] = 0}

ZeroPc == [first |-> "zerofirst", more |-> "zeromore", dirmore |-> "zerodirmore"]

(* At the end of a cluster that is the last one of its chain.              *)
NeedsCluster(p) == op[p].cur = ClusSz /\ fat[op[p].clus] = EOC

(* What a process wants a cluster for: the first of a file, one more in    *)
(* the loop of write, or one more for the directory.                       *)
Wants(p) == IF At(p, "units") /\ op[p].tot < op[p].n /\ NeedsCluster(p) THEN "more" ELSE op[p].pc

(* alloc_cluster, first bwrite: the lowest free cluster becomes the end of *)
(* a chain.  With none left, the table is full and ends the write with     *)
(* what it has, or the call; or it has entries behind the last cluster of  *)
(* the volume (a table is rounded up to sectors), and one of those is      *)
(* handed out.                                                             *)
AllocMark(p) ==
    /\ Wants(p) \in DOMAIN ZeroPc
    /\ \/ /\ FreeClusters # {}
          /\ LET c == Min(FreeClusters) IN
             /\ fat' = [fat EXCEPT ![c] = EOC]
             /\ op' = [op EXCEPT ![p].new = c, ![p].pc = ZeroPc[Wants(p)]]
          /\ UNCHANGED <<dirLock, harm>>
       \/ /\ FreeClusters = {}
          /\ IF Wants(p) = "more" THEN Goto(p, "finish") ELSE Done(p)
          /\ dirLock' = IF Wants(p) = "dirmore" THEN NoName ELSE dirLock
          /\ UNCHANGED <<fat, harm>>
       \/ /\ FreeClusters = {}
          /\ harm' = "outside"
          /\ UNCHANGED <<fat, op, dirLock>>
    /\ UNCHANGED <<ents, units, unsaved, inode, want, gone>>

(* bwrite of a buffer brings all of it to the disk.                        *)
Written(c) == unsaved' = {u \in unsaved : u.at[1] # c}

Cleared1(c) ==
    /\ Written(c)
    /\ units' = [units EXCEPT ![c] = [i \in 1..ClusSz |-> 0]]
    /\ ents' = [ents EXCEPT ![c] = [i \in 1..SlotsPerClus |-> EndSlot]]

(* alloc_cluster, the rest: the cluster is cleared.                        *)
AllocZero(p) ==
    /\ op[p].pc \in {"zerofirst", "zeromore", "zerodirmore"}
    /\ Cleared1(op[p].new)
    /\ IF At(p, "zerofirst")
       THEN /\ inode' = [inode EXCEPT ![p].first = op[p].new]
            /\ Goto(p, "firstupdate")
       ELSE /\ Goto(p, IF At(p, "zeromore") THEN "link" ELSE "dirlink")
            /\ UNCHANGED inode
    /\ UNCHANGED <<fat, dirLock, ghosts>>

(* The entry is told its first cluster before anything is written there.   *)
FirstUpdate(p) ==
    /\ At(p, "firstupdate")
    /\ ents' = Updated(inode[p])
    /\ op' = [op EXCEPT ![p].pc = "units", ![p].clus = op[p].new, ![p].new = 0]
    /\ UNCHANGED <<fat, units, unsaved, inode, dirLock, ghosts>>

(* write links the new cluster behind the last one, create behind the      *)
(* directory's.                                                            *)
Link(p) ==
    /\ op[p].pc \in {"link", "dirlink"}
    /\ fat' = [fat EXCEPT ![op[p].clus] = op[p].new]
    /\ op' = [op EXCEPT ![p].pc = IF @ = "link" THEN "units" ELSE "direntry", ![p].clus = op[p].new,
                        ![p].cur = 0, ![p].new = 0]
    /\ UNCHANGED <<ents, units, unsaved, inode, dirLock, ghosts>>

-----------------------------------------------------------------------------
(* write, up to its loop.  The walk to the offset fails at the end of the  *)
(* chain, which is where an append to full clusters starts.                *)
writeStart(p, off, n) ==
    LET ino == inode[p]
        skip == off \div ClusSz
    IN
    /\ At(p, "idle") /\ ino # NoInode /\ off <= ino.size
    /\ ino.first = 0 => skip = 0
    /\ ino.first # 0 => skip + 1 < Len(ChainOf(ino.first))
    /\ op' = [op EXCEPT ![p] = [Rest EXCEPT !.pc = IF ino.first = 0 THEN "first" ELSE "units", !.off = off, !.n = n, !.cur = off % ClusSz,
                                            !.clus = IF ino.first = 0 THEN 0 ELSE ChainOf(ino.first)[skip + 1]]]
    /\ UNCHANGED <<fsDisk, inode, dirLock, ghosts>>

(* Where the round under way writes: this cluster, or the next one of the  *)
(* chain, and the unit in it.                                              *)
Target(p) ==
    LET o == op[p] IN <<IF o.cur = ClusSz THEN fat[o.clus] ELSE o.clus, 1 + (o.cur % ClusSz)>>

(* One round of the loop.                                                  *)
writeUnit(p) ==
    LET o == op[p]
        name == inode[p].name
        to == Target(p)
    IN
    /\ At(p, "units") /\ o.tot < o.n /\ ~NeedsCluster(p)
    /\ units' = [units EXCEPT ![to[1]][to[2]] = name]
    /\ Written(to[1])
    /\ op' = [op EXCEPT ![p].clus = to[1], ![p].cur = to[2], ![p].tot = @ + 1]
    /\ want' = [want EXCEPT ![name] = @ \union {o.off + o.tot}]
    /\ UNCHANGED <<fat, ents, inode, dirLock, gone, harm>>

(* copyin fails: the units already written stay, the size does not change, *)
(* and the buffer may hold a part of what was to be written, which stays   *)
(* in the cache until the buffer is written for another reason, or reused. *)
(* Over a unit of the same file that makes no difference to the tags.      *)
writeFault(p) ==
    LET to == Target(p)
        name == inode[p].name
    IN
    /\ At(p, "units") /\ op[p].tot < op[p].n /\ ~NeedsCluster(p)
    /\ Done(p)
    /\ \/ UNCHANGED <<units, unsaved, want>>
       \/ /\ units[to[1]][to[2]] # name /\ Cardinality(unsaved) < MaxPartial
          /\ units' = [units EXCEPT ![to[1]][to[2]] = name]
          /\ unsaved' = unsaved \union {[at |-> to, was |-> units[to[1]][to[2]], name |-> name, off |-> op[p].off + op[p].tot]}
          /\ want' = [want EXCEPT ![name] = @ \union {op[p].off + op[p].tot}]
    /\ UNCHANGED <<fat, ents, inode, dirLock, gone, harm>>

(* What is on the disk once the buffers of these clusters are forgotten.   *)
OnDisk(cs) ==
    [c \in Clusters |-> [i \in 1..ClusSz |->
        LET u == {x \in unsaved : c \in cs /\ x.at = <<c, i>>} IN IF u = {} THEN units[c][i] ELSE (CHOOSE x \in u : TRUE).was]]

(* The ghost follows: those offsets are unwritten again.                   *)
Undone(cs) == want' = [x \in Names |-> want[x] \ {u.off : u \in {v \in unsaved : v.name = x /\ v.at[1] \in cs}}]

(* A file was emptied; its clusters are cleared before they are used for   *)
(* another, so what a buffer holds of them no longer matters.              *)
Emptied1(x) == want' = [want EXCEPT ![x] = {}] /\ unsaved' = {u \in unsaved : u.name # x}

(* The cache takes the buffer of such a cluster for another block.         *)
Reused(c) ==
    /\ \E u \in unsaved : u.at[1] = c
    /\ units' = OnDisk({c}) /\ Written(c) /\ Undone({c})
    /\ UNCHANGED <<fat, ents, inode, op, dirLock, gone, harm>>

(* The size grows to what was asked for, also when the disk was full.      *)
writeFinish(p) ==
    LET end == op[p].off + op[p].n
        ino == [inode[p] EXCEPT !.size = Max({@, end})]
    IN
    /\ At(p, "finish") \/ (At(p, "units") /\ op[p].tot = op[p].n)
    /\ inode' = [inode EXCEPT ![p] = ino]
    /\ ents' = IF end > inode[p].size THEN Updated(ino) ELSE ents
    /\ Done(p)
    /\ UNCHANGED <<fat, units, unsaved, dirLock, ghosts>>

-----------------------------------------------------------------------------
(* truncate at open: the chain is freed cluster by cluster, then the entry *)
(* forgets it.                                                             *)
truncateStart(p) ==
    /\ At(p, "idle") /\ inode[p] # NoInode
    /\ op' = [op EXCEPT ![p] = [Rest EXCEPT !.pc = "free", !.clus = inode[p].first]]
    /\ UNCHANGED <<fsDisk, inode, dirLock, ghosts>>

NextToFree(c) == fat[c]

free_cluster_chain(p) ==
    /\ At(p, "free") /\ op[p].clus \in Clusters
    /\ fat' = [fat EXCEPT ![op[p].clus] = 0]
    /\ op' = [op EXCEPT ![p].clus = NextToFree(@)]
    /\ UNCHANGED <<ents, units, unsaved, inode, dirLock, ghosts>>

(* Faulty variant: the inode keeps its first cluster.                      *)
Emptied_Size(ino) == [ino EXCEPT !.size = 0]

Emptied(ino) == [ino EXCEPT !.first = 0, !.size = 0]

truncateUpdate(p) ==
    LET ino == Emptied(inode[p]) IN
    /\ At(p, "free") /\ op[p].clus \notin Clusters
    /\ inode' = [inode EXCEPT ![p] = ino]
    /\ ents' = IF inode[p].first = 0 /\ inode[p].size = 0 THEN ents ELSE Updated(ino)
    /\ Emptied1(inode[p].name)
    /\ Done(p)
    /\ UNCHANGED <<fat, units, dirLock, gone, harm>>

-----------------------------------------------------------------------------
(* sys_openat with O_CREATE of a name that is not there.                   *)
createStart(p, name) ==
    /\ At(p, "idle") /\ inode[p] = NoInode /\ dirLock = NoName /\ lookup1(name) = NoInode
    /\ dirLock' = p
    /\ op' = [op EXCEPT ![p] = [Rest EXCEPT !.pc = "slot", !.off = name]]
    /\ UNCHANGED <<fsDisk, inode, ghosts>>

Takeable(ent) == ent.name = NoName

Entry1(name) == [name |-> name, used |-> TRUE, first |-> 0, size |-> 0]
Named(name, at) == [name |-> name, at |-> at, first |-> 0, size |-> 0]

(* create takes the first slot that is erased or past the end, or asks for *)
(* a cluster more for the directory.                                       *)
createSlot(p) ==
    LET slots == SlotsInOrder
        room == {i \in DOMAIN slots : Takeable(EntAt(slots[i]))}
    IN
    /\ At(p, "slot")
    /\ IF room # {}
       THEN LET at == slots[Min(room)] IN
            /\ ents' = [ents EXCEPT ![at[1]][at[2]] = Entry1(op[p].off)]
            /\ inode' = [inode EXCEPT ![p] = Named(op[p].off, at)]
            /\ dirLock' = NoName /\ Done(p)
       ELSE /\ op' = [op EXCEPT ![p].pc = "dirmore", ![p].clus = DirClusters[Len(DirClusters)]]
            /\ UNCHANGED <<ents, inode, dirLock>>
    /\ UNCHANGED <<fat, units, unsaved, ghosts>>

(* The new directory cluster gets the entry as its first slot.             *)
createInNew(p) ==
    LET at == <<op[p].clus, 1>> IN
    /\ At(p, "direntry")
    /\ ents' = [ents EXCEPT ![at[1]] = [i \in 1..SlotsPerClus |-> IF i = 1 THEN Entry1(op[p].off) ELSE EndSlot]]
    /\ inode' = [inode EXCEPT ![p] = Named(op[p].off, at)]
    /\ dirLock' = NoName /\ Done(p)
    /\ UNCHANGED <<fat, units, unsaved, ghosts>>

(* sys_unlinkat: the entry is marked, the clusters stay allocated.         *)
unlink(p, name) ==
    LET ino == lookup1(name) IN
    /\ At(p, "idle") /\ dirLock = NoName /\ ino # NoInode
    /\ ents' = [ents EXCEPT ![ino.at[1]][ino.at[2]] = Erased]
    /\ gone' = gone \union ClustersOf(ino.first)
    /\ Emptied1(name)
    /\ harm' = IF Users1(name) = {} THEN harm ELSE "shared"
    /\ UNCHANGED <<fat, units, inode, op, dirLock>>

(* A cluster marked by alloc_cluster and not yet in a chain.               *)
InFlight(p) == IF op[p].new # 0 THEN {op[p].new} ELSE {}

(* Power fails: the disk is all there is.                                  *)
FsCrash ==
    /\ \E p \in FsProcs : ~At(p, "idle")
    /\ harm' = IF \E p \in FsProcs : At(p, "free") /\ op[p].clus # inode[p].first THEN "torn" ELSE harm
    /\ units' = OnDisk(Clusters) /\ unsaved' = {} /\ Undone(Clusters)
    /\ gone' = gone \union {c \in UNION {InFlight(p) : p \in FsProcs} :
                               \A x \in Names : lookup1(x) # NoInode => lookup1(x).first # c}
    /\ op' = [p \in FsProcs |-> Rest] /\ inode' = [p \in FsProcs |-> NoInode] /\ dirLock' = NoName
    /\ UNCHANGED <<fat, ents>>

FsStep(p) ==
    \/ \E name \in Names : openFile(p, name) \/ createStart(p, name) \/ unlink(p, name)
    \/ closeFile(p) \/ AllocMark(p) \/ AllocZero(p) \/ FirstUpdate(p) \/ Link(p)
    \/ inode[p] # NoInode /\ \E off \in 0..inode[p].size, n \in WriteSizes : off + n <= MaxSize /\ writeStart(p, off, n)
    \/ writeUnit(p) \/ writeFault(p) \/ writeFinish(p)
    \/ truncateStart(p) \/ free_cluster_chain(p) \/ truncateUpdate(p)
    \/ createSlot(p) \/ createInNew(p)

FsNext == harm = "none" /\ (FsCrash \/ (\E p \in FsProcs : FsStep(p)) \/ \E c \in Clusters : Reused(c))

-----------------------------------------------------------------------------
Truncating(x) == \E p \in Users1(x) : At(p, "free")

(* The chains on the disk: the directory's, and those of the files that    *)
(* have one and are not being truncated.                                   *)
LiveChains ==
    LET inos == {lookup1(x) : x \in {y \in Names : ~Truncating(y)}} \ {NoInode}
        withData == {e \in inos : e.first # 0}
    IN  [e \in withData \union {NoInode} |-> ChainOf(IF e = NoInode THEN root_cluster ELSE e.first)]

(* Whatever interleaving of creates, writes and truncations, and wherever  *)
(* power fails except inside truncate, the chains of the directory and of  *)
(* the files end properly and share no cluster, as long as no file is      *)
(* opened or unlinked while it is open and no cluster behind the volume's  *)
(* end is handed out.                                                      *)
ChainsSound ==
    harm = "none" =>
    LET chains == LiveChains IN
    /\ \A e \in DOMAIN chains : chains[e][Len(chains[e])] = EOC
    /\ \A e, f \in DOMAIN chains : e # f => InChain(chains[e]) \intersect InChain(chains[f]) = {}

(* Under the same conditions, what a write put into a file is what a later *)
(* read of it finds there, at every offset below its size, and where       *)
(* nothing was written it finds zeroes: no other file's data and nothing   *)
(* an earlier file left behind.  What a failed write left in a buffer is   *)
(* found until the buffer is reused, and for good once it is written.      *)
ReadsBack ==
    harm = "none" =>
    LET chains == LiveChains IN
    \A e \in DOMAIN chains \ {NoInode} : \A i \in 0..(e.size - 1) :
        (i \div ClusSz) + 1 < Len(chains[e]) =>
            units[chains[e][(i \div ClusSz) + 1]][1 + (i % ClusSz)] = IF i \in want[e.name] THEN e.name ELSE 0

(* A cluster is marked in the table exactly when a chain holds it, an      *)
(* allocation or a truncation under way does, or unlink or a crash left it *)
(* behind.                                                                 *)
ClustersAccounted ==
    harm = "none" =>
    LET chains == LiveChains
        reach == UNION {InChain(chains[e]) : e \in DOMAIN chains}
        freeing == UNION {InChain(ChainOf(op[p].clus)) : p \in {q \in FsProcs : At(q, "free")}}
        flight == UNION {InFlight(p) : p \in FsProcs}
    IN  {c \in Clusters : fat[c] # 0} = reach \union freeing \union flight \union gone

(* A name has one entry, found where its opener will update it.            *)
EntriesUnique ==
    harm = "none" =>
    /\ \A x \in Names : Cardinality(Found(x)) <= 1
    /\ \A p \in FsProcs : inode[p] # NoInode => Found(inode[p].name) = {inode[p].at}
=============================================================================
