----------------------------- MODULE MCFirstGen -----------------------------
(***************************************************************************)
(* The first-generation system for TLC: its processes, block cache with    *)
(* the virtio disk, files and pipes, memory, address spaces, FAT32 and     *)
(* console, and the user library's streams and heap and the shell, one of  *)
(* them per behaviour.                                                     *)
(***************************************************************************)
EXTENDS FirstProc, BlockCache, Files, FirstMem, FirstVm, Fat32, Console, Stdio, Malloc, Shell

VARIABLE subject    \* the component this behaviour is about

MCObjPages == 0 :> 1 @@ 1 :> 2

MCStModes == {[mode |-> "r+", buf_mode |-> 0], [mode |-> "w", buf_mode |-> 1],
              [mode |-> "w", buf_mode |-> 2], [mode |-> "r", buf_mode |-> 0],
              [mode |-> "a", buf_mode |-> 0]}

MCTexts == {<<"a">>, <<"\n">>, <<"\n", "a", "\n">>, <<"a", "\n", "a">>}

(* a |b &; a <b >a; a |b |a; a ;b |a >b                                    *)
MCShLines == {<<"a", " ", "|", "b", " ", "&">>, <<"a", " ", "<", "b", " ", ">", "a">>, <<"a", " ", "|", "b", " ", "|", "a">>,
              <<"a", " ", ";", "b", " ", "|", "a", " ", ">", "b">>}

(* Processes and names of the file system are interchangeable.             *)
MCSymmetry == Permutations(FsProcs) \union Permutations(Names)

MCVars == <<fpVars, bcVars, flVars, fmVars, fvVars, fsVars, consVars, stVars, mallocVars, shVars, subject>>

Subjects == {"proc", "bio", "file", "mem", "vm", "fat32", "console", "stdio", "malloc", "shell"}

MCInit == /\ subject \in Subjects
          /\ FpInit /\ BcInit /\ FlInit /\ FmInit /\ FvInit /\ FsInit /\ ConsInit
          /\ StInit /\ MallocInit /\ ShInit
          /\ subject # "vm" => frames = Min(MemorySizes)
          /\ subject # "stdio" => st = fopen(CHOOSE m \in StModes : TRUE, <<>>)

(* Every component but the behaviour's subject stands still.               *)
Others(s) == /\ s # "proc" => UNCHANGED fpVars
             /\ s # "bio" => UNCHANGED bcVars
             /\ s # "file" => UNCHANGED flVars
             /\ s # "mem" => UNCHANGED fmVars
             /\ s # "vm" => UNCHANGED fvVars
             /\ s # "fat32" => UNCHANGED fsVars
             /\ s # "console" => UNCHANGED consVars
             /\ s # "stdio" => UNCHANGED stVars
             /\ s # "malloc" => UNCHANGED mallocVars
             /\ s # "shell" => UNCHANGED shVars

MCNext == /\ \/ subject = "proc" /\ FpNext
             \/ subject = "bio" /\ BcNext
             \/ subject = "file" /\ FlNext
             \/ subject = "mem" /\ FmNext
             \/ subject = "vm" /\ FvNext
             \/ subject = "fat32" /\ FsNext
             \/ subject = "console" /\ ConsNext
             \/ subject = "stdio" /\ StNext
             \/ subject = "malloc" /\ MallocNext
             \/ subject = "shell" /\ ShNext
          /\ Others(subject)
          /\ UNCHANGED subject

MCSpec == MCInit /\ [][MCNext]_MCVars

-----------------------------------------------------------------------------
(* Runnable processes are queued once, parents exist, and nobody sleeps in *)
(* wait while a child of its is a zombie.                                  *)
ProcessesQueued == subject = "proc" => FpTypeOK /\ QueueIsRunnable /\ ParentsExist /\ WaiterHasReason

(* Who holds a buffer sees its block as last written, no block is cached   *)
(* twice, no descriptor is lost, and what was let go of is on the disk.    *)
CacheCoherent == subject = "bio" =>
    BcTypeOK /\ HolderSeesLatest /\ BuffersAccounted /\ DescriptorsAccounted /\ WrittenThrough

(* File references are exact over dup, fork and exit, a pipe lives as long *)
(* as one of its ends, its bytes stay in order, and who sleeps on a pipe   *)
(* finds it empty or full with a descriptor for the other end still held   *)
(* (which may be the sleeper's own, or a zombie's).                        *)
FilesShared == subject = "file" =>
    FlTypeOK /\ FileRefsExact /\ PipeLivesWithItsEnds /\ BytesInOrder /\ PipeSleepers

(* Pages are free or in use, once, free buddies are merged, and the slab   *)
(* lists hold the slabs they should.                                       *)
MemoryPartitioned == subject = "mem" => PagesPartitioned /\ BuddiesMerged /\ SlabsExact

(* Address spaces share frames only read-only and counted, map nothing     *)
(* beyond their size, and a write is never seen by the other process.      *)
SpacesPrivate == subject = "vm" => FvTypeOK /\ PrivateMemory /\ CountsExact /\ SharedReadOnly /\ MappedBelowSize

(* FAT32's chains are sound and accounted for, names are unique and files  *)
(* read back what was written, wherever power fails outside truncate and   *)
(* as long as no file is opened or unlinked while it is open and no entry  *)
(* behind the volume's last cluster is handed out.                         *)
FilesystemSound == subject = "fat32" => ChainsSound /\ ReadsBack /\ ClustersAccounted /\ EntriesUnique

(* The typed lines leave the console whole and in order, each character    *)
(* for one reader, who gets it unless the copy to it fails.                *)
LinesDelivered == subject = "console" => TextIntact /\ RingInOrder

(* A stream's buffer is invisible: what was written, then read, is the     *)
(* file's, a buffer serves one direction, and a lost write, or a position  *)
(* lost in a seek that failed, is reported.                                *)
StreamsTransparent == subject = "stdio" => StreamTransparent /\ ReadsTheFile /\ LossReported /\ OneUseOfBuffer

(* malloc's blocks tile the heap, the free list is in address order and    *)
(* neighbours are joined, until a size does not fit size_t or sbrk's int.  *)
HeapTidy == subject = "malloc" => HeapTiled /\ ListInOrder /\ FreeJoined

(* The shell parses what was typed, starts a program with the files of its *)
(* redirections and no end of any pipe, its own included, and the prompt   *)
(* means that the line's foreground processes are reaped.                  *)
ShellSettles == subject = "shell" => ParseKeepsLine /\ NoStrayEnds /\ PromptMeansDone
=============================================================================
