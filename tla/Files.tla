-------------------------------- MODULE Files -------------------------------
(***************************************************************************)
(* Open files and pipes of the first-generation kernel (src/fs/file.cc and *)
(* the file system calls of src/kernel/syscall.cc), used by processes that *)
(* fork and exit (src/kernel/proc/proc.cc).                                *)
(*                                                                         *)
(* One hart: a system call runs until it sleeps in Pipe::read or           *)
(* Pipe::write.  The bytes of a pipe are numbered as they are written.     *)
(***************************************************************************)
EXTENDS Integers, Sequences, SequencesExt, FiniteSets, FiniteSetsExt

CONSTANTS
    FlProcs, FirstUser,   \* process slots and the one that starts
    NOFILE,               \* descriptors of a process
    NFILE,                \* entries of the file table
    Pipes,                \* memory for pipes
    PipeSize,             \* Pipe::SIZE
    MaxBytes,             \* bound: bytes written to a pipe
    NoFile

ASSUME FilesAssumption == FirstUser \in FlProcs /\ NFILE \in Nat /\ NOFILE \in Nat /\ PipeSize \in Nat \ {0}

VARIABLES
    ftable,     \* [file -> [ref, type, writable, pipe]]
    ofile,      \* [process -> [fd -> file or NoFile]]
    pipe,       \* [pipe -> [live, ropen, wopen, nread, nwrite, data]]
    fstate,     \* [process -> none, run, zombie, or a sleep in a pipe]
    elder,      \* [process -> parent]
    call        \* [process -> [n, i, pi]] of a read or write in progress

flVars == <<ftable, ofile, pipe, fstate, elder, call>>

FileIds == 1..NFILE
Fds == 0..(NOFILE - 1)
EmptyFile == [ref |-> 0, type |-> "FD_NONE", writable |-> FALSE, pipe |-> NoFile]
NoPipe == [live |-> FALSE, ropen |-> FALSE, wopen |-> FALSE, nread |-> 0, nwrite |-> 0, data |-> [x \in 0..(PipeSize - 1) |-> 0]]
NoCall == [n |-> 0, i |-> 0, pi |-> NoFile]

FlInit ==
    /\ ftable = [f \in FileIds |-> EmptyFile]
    /\ ofile = [p \in FlProcs |-> [d \in Fds |-> NoFile]]
    /\ pipe = [pi \in Pipes |-> NoPipe]
    /\ fstate = [p \in FlProcs |-> IF p = FirstUser THEN "run" ELSE "none"]
    /\ elder = [p \in FlProcs |-> NoFile]
    /\ call = [p \in FlProcs |-> NoCall]

-----------------------------------------------------------------------------
(* FileTable::alloc and fdalloc take the first free entry.                 *)
FreeFiles(t) == {f \in FileIds : t[f].ref = 0}
FreeFds(o) == {d \in Fds : o[d] = NoFile}

(* The states after a wakeup of the sleepers on a pipe's nread or nwrite.  *)
WakePipe(st, pi, chan) ==
    [p \in FlProcs |-> IF st[p] = chan /\ call[p].pi = pi THEN IF chan = "nread" THEN "reading" ELSE "writing" ELSE st[p]]

PipeDead(q) == ~q.ropen /\ ~q.wopen

(* Pipe::close.                                                            *)
ClosePipe(s, pi, isWriter) ==
    LET q == IF isWriter THEN [s.pipe[pi] EXCEPT !.wopen = FALSE] ELSE [s.pipe[pi] EXCEPT !.ropen = FALSE] IN
    [s EXCEPT !.pipe[pi] = IF PipeDead(q) THEN NoPipe ELSE q,
              !.st = WakePipe(@, pi, IF isWriter THEN "nread" ELSE "nwrite")]

LastRef(ref) == ref = 1

(* FileTable::close.  s is the table, the pipes and the process states.    *)
close(s, f) ==
    LET ff == s.t[f] IN
    IF ~LastRef(ff.ref) THEN [s EXCEPT !.t[f].ref = @ - 1]
    ELSE LET t == [s EXCEPT !.t[f] = EmptyFile] IN
         IF ff.type = "FD_PIPE" THEN ClosePipe(t, ff.pipe, ff.writable) ELSE t

State == [t |-> ftable, pipe |-> pipe, st |-> fstate]
Becomes(s) == ftable' = s.t /\ pipe' = s.pipe /\ fstate' = s.st

sys_close(p, d) ==
    /\ fstate[p] = "run" /\ ofile[p][d] # NoFile
    /\ Becomes(close(State, ofile[p][d]))
    /\ ofile' = [ofile EXCEPT ![p][d] = NoFile]
    /\ UNCHANGED <<elder, call>>

(* sys_dup: without a free descriptor the new reference is given back.     *)
sys_dup(p, d) ==
    /\ fstate[p] = "run" /\ ofile[p][d] # NoFile
    /\ FreeFds(ofile[p]) # {}
    /\ ofile' = [ofile EXCEPT ![p][Min(FreeFds(ofile[p]))] = ofile[p][d]]
    /\ ftable' = [ftable EXCEPT ![ofile[p][d]].ref = @ + 1]
    /\ UNCHANGED <<pipe, fstate, elder, call>>

(* sys_pipe2 and Pipe::create_pair, and their failures: no memory, no two  *)
(* files, no two descriptors, or a bad address for the result.  Each gives *)
(* back what was taken.                                                    *)
PipeFile(pi, w) == [ref |-> 1, type |-> "FD_PIPE", writable |-> w, pipe |-> pi]

sys_pipe2(p, pi, faults) ==
    LET f0 == Min(FreeFiles(ftable))
        f1 == Min(FreeFiles(ftable) \ {f0})
        t  == [ftable EXCEPT ![f0] = PipeFile(pi, FALSE), ![f1] = PipeFile(pi, TRUE)]
        d0 == Min(FreeFds(ofile[p]))
        d1 == Min(FreeFds(ofile[p]) \ {d0})
        made == [State EXCEPT !.t = t, !.pipe[pi] = [NoPipe EXCEPT !.live = TRUE, !.ropen = TRUE, !.wopen = TRUE]]
        ok == ~faults /\ Cardinality(FreeFds(ofile[p])) >= 2
    IN
    /\ fstate[p] = "run" /\ ~pipe[pi].live
    /\ Cardinality(FreeFiles(ftable)) >= 2
    /\ IF ok THEN /\ Becomes(made)
                  /\ ofile' = [ofile EXCEPT ![p][d0] = f0, ![p][d1] = f1]
       ELSE Becomes(close(close(made, f0), f1)) /\ UNCHANGED ofile
    /\ UNCHANGED <<elder, call>>

(* fork duplicates every descriptor.                                       *)
forkFiles(p, np) ==
    /\ fstate[p] = "run" /\ fstate[np] = "none"
    /\ ofile' = [ofile EXCEPT ![np] = ofile[p]]
    /\ ftable' = [f \in FileIds |-> [ftable[f] EXCEPT !.ref = @ + Cardinality({d \in Fds : ofile[p][d] = f})]]
    /\ fstate' = [fstate EXCEPT ![np] = "run"]
    /\ elder' = [elder EXCEPT ![np] = p]
    /\ UNCHANGED <<pipe, call>>

(* exit keeps the files open ...                                           *)
exitFiles(p) ==
    /\ fstate[p] = "run" /\ p # FirstUser
    /\ fstate' = [fstate EXCEPT ![p] = "zombie"]
    /\ elder' = [k \in FlProcs |-> IF elder[k] = p THEN FirstUser ELSE elder[k]]
    /\ UNCHANGED <<ftable, ofile, pipe, call>>

(* ... until the parent's wait frees the process.                          *)
freeproc(p, k) ==
    /\ fstate[p] = "run" /\ fstate[k] = "zombie" /\ elder[k] = p
    /\ LET s == FoldLeft(LAMBDA acc, d : IF ofile[k][d] = NoFile THEN acc ELSE close(acc, ofile[k][d]),
                         State, [i \in 1..NOFILE |-> i - 1])
       IN  Becomes([s EXCEPT !.st[k] = "none"])
    /\ ofile' = [ofile EXCEPT ![k] = [d \in Fds |-> NoFile]]
    /\ elder' = [elder EXCEPT ![k] = NoFile]
    /\ UNCHANGED call

-----------------------------------------------------------------------------
(* sys_read and sys_write on a pipe that fits the direction.               *)
sys_rw(p, d, n) ==
    /\ fstate[p] = "run" /\ ofile[p][d] # NoFile
    /\ LET f == ftable[ofile[p][d]] IN
       /\ f.type = "FD_PIPE"
       /\ call' = [call EXCEPT ![p] = [n |-> n, i |-> 0, pi |-> f.pipe]]
       /\ fstate' = [fstate EXCEPT ![p] = IF f.writable THEN "writing" ELSE "reading"]
    /\ UNCHANGED <<ftable, ofile, pipe, elder>>

RECURSIVE Store(_, _)
(* k bytes into the ring: the byte's number stands for its content.        *)
Store(q, k) ==
    IF k = 0 THEN q ELSE Store([q EXCEPT !.data[q.nwrite % PipeSize] = q.nwrite, !.nwrite = @ + 1], k - 1)

Room(q) == q.nread + PipeSize - q.nwrite

Return(p, st) == [st EXCEPT ![p] = "run"]

(* Pipe::write from its start, or from where it was woken, to its return   *)
(* or to its sleep for a full ring.  good bytes can be copied in.          *)
PipeWrite(p, good) ==
    LET c == call[p]
        q == pipe[c.pi]
        k == Min({c.n - c.i, Room(q), good})
        i == c.i + k
        awake == WakePipe(fstate, c.pi, "nread")
    IN
    /\ fstate[p] = "writing" /\ q.nwrite + c.n - c.i <= MaxBytes
    /\ IF ~q.ropen
       THEN fstate' = Return(p, fstate) /\ UNCHANGED <<pipe, call>>
       ELSE /\ pipe' = [pipe EXCEPT ![c.pi] = Store(q, k)]
            /\ IF i < c.n /\ k = Room(q)
               THEN fstate' = [awake EXCEPT ![p] = "nwrite"] /\ call' = [call EXCEPT ![p].i = i]
               ELSE fstate' = Return(p, awake) /\ call' = [call EXCEPT ![p] = NoCall]
    /\ UNCHANGED <<ftable, ofile, elder>>

(* Faulty variant: a read does not wake the writers.                       *)
AfterRead_Silent(st, pi) == st

AfterRead(st, pi) == WakePipe(st, pi, "nwrite")

(* Pipe::read.  The byte whose copyout fails has left the ring.            *)
PipeRead(p, good) ==
    LET c == call[p]
        q == pipe[c.pi]
        have == Min({c.n, q.nwrite - q.nread})
        k == Min({have, good})
    IN
    /\ fstate[p] = "reading"
    /\ IF q.nread = q.nwrite /\ q.wopen
       THEN fstate' = [fstate EXCEPT ![p] = "nread"] /\ UNCHANGED <<pipe, call>>
       ELSE /\ pipe' = [pipe EXCEPT ![c.pi].nread = @ + IF k < have THEN k + 1 ELSE k]
            /\ fstate' = Return(p, AfterRead(fstate, c.pi))
            /\ call' = [call EXCEPT ![p] = NoCall]
    /\ UNCHANGED <<ftable, ofile, elder>>

FlNext ==
    \E p \in FlProcs :
        \/ \E d \in Fds : sys_close(p, d) \/ sys_dup(p, d) \/ \E n \in 1..(PipeSize + 1) : sys_rw(p, d, n)
        \/ \E pi \in Pipes, faults \in BOOLEAN : sys_pipe2(p, pi, faults)
        \/ \E k \in FlProcs : forkFiles(p, k) \/ freeproc(p, k)
        \/ exitFiles(p)
        \/ \E good \in 0..(PipeSize + 1) : PipeWrite(p, good) \/ PipeRead(p, good)

-----------------------------------------------------------------------------
FlTypeOK ==
    /\ \A f \in FileIds : ftable[f].ref \in 0..(NOFILE * Cardinality(FlProcs)) /\ ftable[f].type \in {"FD_NONE", "FD_PIPE"}
    /\ \A p \in FlProcs : fstate[p] \in {"none", "run", "zombie", "reading", "writing", "nread", "nwrite"}

(* A file's count is the number of descriptors that lead to it, over all   *)
(* processes, zombies included: fork, dup, close, a failed pipe call and   *)
(* the end of a process keep it exact.                                     *)
FileRefsExact ==
    \A f \in FileIds : ftable[f].ref = Cardinality({<<p, d>> \in FlProcs \X Fds : ofile[p][d] = f})

(* A pipe exists exactly as long as an end of it is open, and an end is    *)
(* open exactly as long as a file for it is: nobody reads, writes or       *)
(* sleeps on a pipe that was given back.                                   *)
PipeLivesWithItsEnds ==
    \A pi \in Pipes :
        LET open(w) == \E f \in FileIds : ftable[f].ref > 0 /\ ftable[f].pipe = pi /\ ftable[f].writable = w IN
        /\ pipe[pi].ropen = open(FALSE) /\ pipe[pi].wopen = open(TRUE)
        /\ pipe[pi].live = (pipe[pi].ropen \/ pipe[pi].wopen)

(* The ring holds, from nread to nwrite, exactly the bytes written in that *)
(* order, so the readers together get each byte once and in order.         *)
BytesInOrder ==
    \A pi \in Pipes :
        /\ pipe[pi].nwrite - pipe[pi].nread \in 0..PipeSize
        /\ \A k \in pipe[pi].nread..(pipe[pi].nwrite - 1) : pipe[pi].data[k % PipeSize] = k

(* Who sleeps in a pipe has a reason to: a reader an empty ring and a      *)
(* descriptor somewhere for its write end, a writer a full ring and a      *)
(* descriptor for its read end, so no wakeup is lost over a read, a write  *)
(* or a close.  The descriptor may be the sleeper's own, or one a zombie   *)
(* keeps until it is waited for: then the sleep has no end.                *)
PipeSleepers ==
    \A p \in FlProcs :
        LET q == pipe[call[p].pi]
            held(w) == \E k \in FlProcs, d \in Fds :
                          ofile[k][d] # NoFile /\ ftable[ofile[k][d]].pipe = call[p].pi /\ ftable[ofile[k][d]].writable = w
        IN
        /\ fstate[p] = "nread"  => q.nread = q.nwrite /\ held(TRUE)
        /\ fstate[p] = "nwrite" => Room(q) = 0 /\ held(FALSE)
=============================================================================
