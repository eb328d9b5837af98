-------------------------------- MODULE Stdio --------------------------------
(***************************************************************************)
(* The buffered streams of the user library (src/ulib/stdio.c): one buffer *)
(* serves reading ahead and writing behind, with fseek, ungetc, the three  *)
(* buffering modes, and system calls that fail in the middle of a call.    *)
(*                                                                         *)
(* st holds the FILE and, outside it, the file and the offset the kernel   *)
(* keeps for the descriptor.  wanted and at are the file and the position  *)
(* as a program that makes the system calls itself would see them; opened  *)
(* with "a" that program too writes from the file's beginning, because     *)
(* sys_openat knows no O_APPEND.  A program keeps to the rule of the C     *)
(* standard: after reading it seeks before it writes, unless the reading   *)
(* came to the end of the file.  A call is [ret, st] where st.bad counts   *)
(* down to the system call that fails (0: none).                           *)
(***************************************************************************)
EXTENDS Integers, Sequences, FiniteSets, SequencesExt

CONSTANTS BUFSIZ,       \* 1024 in the code
          MaxFile,      \* bound: the length of the file
          Chunks,       \* the sizes fread and fgets are called with
          Texts,        \* what fputs and fwrite are called with
          MaxBad,       \* which system call of one library call may fail
          StModes       \* the ways the stream is opened: [mode, buf_mode]

ASSUME StdioAssumption == {BUFSIZ, MaxFile} \subseteq Nat \ {0}

VARIABLES st,      \* the FILE, the file, the offset
          wanted,    \* the file as the program left it
          at,      \* the program's position in it
          last,    \* what the program did last: "read", "write", "seek"
          answer,  \* the bytes the last reading call gave, and those due
          acked    \* a loss was reported, or raised in rewind, and cleared

stVars == <<st, wanted, at, last, answer, acked>>

Bytes == {"a", "\n"}
EOF == "EOF"

Least(m, n) == IF m < n THEN m ELSE n

\* A file with bytes put at an offset.
Splice(file, off, bytes) ==
    [k \in 1..(IF off + Len(bytes) > Len(file) THEN off + Len(bytes) ELSE Len(file)) |->
        IF k > off /\ k <= off + Len(bytes) THEN bytes[k - off] ELSE file[k]]

----------------------------------------------------------------------------
(* The system calls.  A write that fails stores all but the last byte.     *)

write(s, bytes) ==
    LET fails == s.bad = 1
        n == IF fails THEN Len(bytes) - 1 ELSE Len(bytes)
    IN [n |-> n,
        s |-> [s EXCEPT !.file = Splice(@, s.off, SubSeq(bytes, 1, n)), !.off = @ + n,
                        !.bad = IF @ > 0 THEN @ - 1 ELSE 0, !.lossy = @ \/ fails]]

read(s, count) ==
    LET fails == s.bad = 1
        n == IF fails THEN -1 ELSE Least(count, Len(s.file) - s.off)
    IN [n |-> n, bytes |-> SubSeq(s.file, s.off + 1, s.off + n),
        s |-> [s EXCEPT !.off = IF fails THEN @ ELSE @ + n,
                        !.bad = IF @ > 0 THEN @ - 1 ELSE 0]]

----------------------------------------------------------------------------
(* The library.  buffer is the part of the FILE's array that is in use.    *)

fflush(s) ==
    LET w == write(s, SubSeq(s.buffer, 1, s.wpos))
    IN CASE s.wpos = 0 -> s
         [] s.wpos > 0 /\ w.n < s.wpos -> [w.s EXCEPT !.error = TRUE, !.wpos = 0]
         [] OTHER -> [w.s EXCEPT !.wpos = 0]

\* buffer[i..] = bytes; what lies behind stays.
PutInBuffer(s, bytes) ==
    [s EXCEPT !.buffer = Splice(@, s.wpos, bytes), !.wpos = @ + Len(bytes)]

fputc(c, s) ==
    LET w == write(s, <<c>>)
        put == PutInBuffer(s, <<c>>)
    IN CASE s.buf_mode = 2 /\ w.n # 1 -> [ret |-> EOF, s |-> [w.s EXCEPT !.error = TRUE]]
         [] s.buf_mode = 2 /\ w.n = 1 -> [ret |-> c, s |-> w.s]
         [] s.buf_mode # 2 /\ (put.wpos >= BUFSIZ \/ (s.buf_mode = 1 /\ c = "\n")) ->
              [ret |-> c, s |-> fflush(put)]
         [] OTHER -> [ret |-> c, s |-> put]

RECURSIVE fputs(_, _)
fputs(str, s) ==
    LET r == fputc(Head(str), s)
    IN IF str = <<>> THEN s ELSE IF r.ret = EOF THEN r.s ELSE fputs(Tail(str), r.s)

Flushed(s) == IF s.wpos > 0 THEN fflush(s) ELSE s

\* A read that brought nothing: the end of the file, or an error.
Nothing(r) == [r.s EXCEPT !.eof = @ \/ r.n = 0, !.error = @ \/ r.n < 0]

fgetc(s0) ==
    LET s == Flushed(s0)
        r == read(s, BUFSIZ)
    IN CASE s.rpos < s.rcnt ->
              [ret |-> s.buffer[s.rpos + 1], s |-> [s EXCEPT !.rpos = @ + 1]]
         [] s.rpos >= s.rcnt /\ r.n <= 0 -> [ret |-> EOF, s |-> Nothing(r)]
         [] OTHER -> [ret |-> r.bytes[1],
                      s |-> [r.s EXCEPT !.buffer = r.bytes, !.rcnt = r.n, !.rpos = 1]]

RECURSIVE fgets(_, _, _)
fgets(str, n, s) ==
    LET r == fgetc(s)
    IN CASE Len(str) >= n - 1 -> [ret |-> str, s |-> s]
         [] Len(str) < n - 1 /\ r.ret = EOF -> [ret |-> str, s |-> r.s]
         [] Len(str) < n - 1 /\ r.ret = "\n" -> [ret |-> Append(str, "\n"), s |-> r.s]
         [] OTHER -> fgets(Append(str, r.ret), n, r.s)

TakeBuffered(s, total) == s.rpos < s.rcnt

RECURSIVE FreadLoop(_, _, _)
FreadLoop(got, total, s) ==
    LET copy == Least(s.rcnt - s.rpos, total - Len(got))
        direct == read(s, total - Len(got))
        fill == read([s EXCEPT !.rpos = 0, !.rcnt = 0], BUFSIZ)
    IN CASE Len(got) >= total -> [ret |-> got, s |-> s]
         [] Len(got) < total /\ TakeBuffered(s, total) ->
              FreadLoop(got \o SubSeq(s.buffer, s.rpos + 1, s.rpos + copy), total,
                        [s EXCEPT !.rpos = @ + copy])
         [] Len(got) < total /\ ~TakeBuffered(s, total) /\ total - Len(got) >= BUFSIZ ->
              IF direct.n <= 0 THEN [ret |-> got, s |-> Nothing(direct)]
              ELSE FreadLoop(got \o direct.bytes, total, direct.s)
         [] OTHER ->
              IF fill.n <= 0 THEN [ret |-> got, s |-> Nothing(fill)]
              ELSE FreadLoop(got, total,
                             [fill.s EXCEPT !.buffer = fill.bytes, !.rcnt = fill.n])

fread(total, s) == FreadLoop(<<>>, total, Flushed(s))

RECURSIVE WriteAll(_, _)
WriteAll(bytes, s) ==
    LET w == write(s, bytes)
    IN CASE bytes = <<>> -> s
         [] bytes # <<>> /\ w.n <= 0 -> [w.s EXCEPT !.error = TRUE]
         [] OTHER -> WriteAll(SubSeq(bytes, w.n + 1, Len(bytes)), [w.s EXCEPT !.lossy = s.lossy])

RECURSIVE fwrite(_, _)
fwrite(bytes, s) ==
    LET space_left == BUFSIZ - s.wpos
        rest == PutInBuffer(s, bytes)
    IN CASE s.buf_mode = 2 -> WriteAll(bytes, s)
         [] s.buf_mode # 2 /\ bytes = <<>> -> s
         [] s.buf_mode # 2 /\ bytes # <<>> /\ Len(bytes) <= space_left ->
              IF rest.wpos = BUFSIZ THEN fflush(rest) ELSE rest
         [] OTHER -> fwrite(SubSeq(bytes, space_left + 1, Len(bytes)),
                            fflush(PutInBuffer(s, SubSeq(bytes, 1, space_left))))

\* Faulty variant: seeking keeps what was read ahead.
ForgetAhead_Not(s) == [s EXCEPT !.eof = FALSE]

ForgetAhead(s) == [s EXCEPT !.rpos = 0, !.rcnt = 0, !.eof = FALSE]

\* target is the offset lseek arrives at (SEEK_SET, SEEK_END).  When it fails,
\* the read-ahead is gone already: the stream stands behind it.
fseek(target, s) ==
    LET f == ForgetAhead(Flushed(s))
    IN IF f.bad = 1 THEN [f EXCEPT !.error = TRUE, !.astray = @ \/ s.rpos < s.rcnt]
       ELSE [f EXCEPT !.off = target]

ungetc(c, s) ==
    IF s.rpos > 0
    THEN [ret |-> c, s |-> [s EXCEPT !.rpos = @ - 1, !.eof = FALSE,
                                     !.buffer = Splice(@, s.rpos - 1, <<c>>)]]
    ELSE [ret |-> EOF, s |-> s]

----------------------------------------------------------------------------

fopen(m, file) ==
    [mode |-> m.mode, buf_mode |-> m.buf_mode, buffer |-> <<>>, wpos |-> 0, rpos |-> 0, rcnt |-> 0,
     eof |-> FALSE, error |-> FALSE, file |-> file, off |-> 0, bad |-> 0, lossy |-> FALSE, astray |-> FALSE]

StInit == /\ \E m \in StModes, n \in 0..BUFSIZ :
                \E old \in [1..n -> Bytes] :
                    /\ st = fopen(m, IF m.mode = "w" THEN <<>> ELSE old)
                    /\ wanted = IF m.mode = "w" THEN <<>> ELSE old
          /\ at = 0 /\ last = "seek" /\ answer = [got |-> <<>>, due |-> <<>>] /\ acked = FALSE

MayRead == st.mode \in {"r", "r+"} /\ ~st.lossy
MayWrite == st.mode # "r" /\ ~st.lossy /\ (last # "read" \/ st.eof)

\* The outcome of a reading call that should bring due, ret the bytes it gave.
HasRead(r, ret, due) ==
    /\ st' = [r EXCEPT !.bad = 0]
    /\ answer' = [got |-> ret, due |-> due]
    /\ at' = at + Len(ret) /\ last' = "read"
    /\ UNCHANGED <<wanted, acked>>

Due(n) == SubSeq(wanted, at + 1, Least(at + n, Len(wanted)))

\* Where fgets stops: behind the first newline, or after n - 1 bytes.
DueLine(n) == LET nl == SelectInSeq(Due(n - 1), LAMBDA c : c = "\n")
              IN IF nl > 0 THEN SubSeq(Due(n - 1), 1, nl) ELSE Due(n - 1)

CallFgetc == /\ MayRead
             /\ \E b \in 0..MaxBad :
                   LET r == fgetc([st EXCEPT !.bad = b])
                   IN HasRead(r.s, IF r.ret = EOF THEN <<>> ELSE <<r.ret>>, Due(1))

CallFgets == /\ MayRead
             /\ \E b \in 0..MaxBad, n \in Chunks :
                   LET r == fgets(<<>>, n, [st EXCEPT !.bad = b])
                   IN HasRead(r.s, r.ret, DueLine(n))

CallFread == /\ MayRead
             /\ \E b \in 0..MaxBad, n \in Chunks :
                   LET r == fread(n, [st EXCEPT !.bad = b])
                   IN HasRead(r.s, r.ret, Due(n))

\* A byte just read is put back.
CallUngetc == /\ last = "read" /\ answer.got # <<>> /\ ~st.lossy
              /\ LET r == ungetc(Last(answer.got), st)
                 IN /\ st' = r.s
                    /\ at' = IF r.ret = EOF THEN at ELSE at - 1
              /\ answer' = [got |-> <<>>, due |-> <<>>]
              /\ UNCHANGED <<wanted, last, acked>>

HasWritten(s, bytes) ==
    /\ st' = [s EXCEPT !.bad = 0]
    /\ wanted' = Splice(wanted, at, bytes) /\ at' = at + Len(bytes)
    /\ last' = "write"
    /\ answer' = [got |-> <<>>, due |-> <<>>]
    /\ UNCHANGED acked

CallFputc == /\ MayWrite /\ at < MaxFile
             /\ \E b \in 0..MaxBad, c \in Bytes :
                   HasWritten(fputc(c, [st EXCEPT !.bad = b]).s, <<c>>)

CallFputs == /\ MayWrite
             /\ \E b \in 0..MaxBad, str \in Texts :
                   /\ at + Len(str) <= MaxFile
                   /\ HasWritten(fputs(str, [st EXCEPT !.bad = b]), str)

CallFwrite == /\ MayWrite
              /\ \E b \in 0..MaxBad, bytes \in Texts :
                    /\ at + Len(bytes) <= MaxFile
                    /\ HasWritten(fwrite(bytes, [st EXCEPT !.bad = b]), bytes)

CallFflush == /\ ~st.lossy
              /\ \E b \in 0..1 : st' = [fflush([st EXCEPT !.bad = b]) EXCEPT !.bad = 0]
              /\ UNCHANGED <<wanted, at, last, answer, acked>>

\* The program's position after a seek: where it went or, when the seek
\* failed, where the kernel's offset is.
HasSought(s) == /\ at' = s.off /\ last' = "seek"
                /\ answer' = [got |-> <<>>, due |-> <<>>]
                /\ UNCHANGED wanted

CallFseek == /\ ~st.lossy
             /\ \E b \in 0..MaxBad, whence \in {"SET", "END"} :
                   LET s == [st EXCEPT !.bad = b]
                       target == IF whence = "SET" THEN 0 ELSE Len(Flushed(s).file)
                   IN /\ st' = [fseek(target, s) EXCEPT !.bad = 0]
                      /\ HasSought(st')
             /\ UNCHANGED acked

\* rewind and clearerr both clear the error; rewind seeks first and clears
\* what its own flush and seek raised as well.
rewind == \E b \in 0..MaxBad :
    LET s == fseek(0, [st EXCEPT !.bad = b])
    IN /\ st' = [s EXCEPT !.bad = 0, !.error = FALSE]
       /\ HasSought(s)
       /\ acked' = (acked \/ s.error)

clearerr == /\ st' = [st EXCEPT !.error = FALSE, !.eof = FALSE]
            /\ last' = IF last = "read" /\ st.eof THEN "seek" ELSE last
            /\ acked' = (acked \/ st.error)
            /\ UNCHANGED <<wanted, at, answer>>

StNext == \/ CallFgetc \/ CallFgets \/ CallFread \/ CallUngetc
          \/ CallFputc \/ CallFputs \/ CallFwrite
          \/ CallFflush \/ CallFseek \/ rewind \/ clearerr

----------------------------------------------------------------------------

\* Until a write fails, the file with the bytes still in the buffer spliced in
\* at the kernel's offset is the file the program wrote, and the kernel's
\* offset less the bytes read ahead, plus the bytes held back, is the
\* program's position, through every mix of fputc, fwrite, fgetc, fread,
\* fgets, ungetc, fseek and the flushes they do on their own; a seek that
\* fails moves the program behind what was read ahead.
StreamTransparent ==
    ~st.lossy => /\ Splice(st.file, st.off, SubSeq(st.buffer, 1, st.wpos)) = wanted
                 /\ st.off - (st.rcnt - st.rpos) + st.wpos = at

\* A reading call gives the bytes at the program's position, from the buffer,
\* from the file directly or from both, and where it gives fewer than there
\* are the stream shows an error, until a write fails.
ReadsTheFile ==
    ~st.lossy => /\ IsPrefix(answer.got, answer.due)
                 /\ answer.got # answer.due => st.error \/ acked

\* Bytes that did not reach the file, and a position lost with the read-ahead
\* of a seek that failed, are never lost silently: as long as the stream is
\* open, ferror shows it until the program clears it (by clearerr, or by a
\* rewind, which clears what it raised itself), although fputc, fwrite and
\* fseek went on as if nothing had happened.
LossReported == st.lossy \/ st.astray => st.error \/ acked

\* Held-back bytes and read-ahead bytes never share the buffer, and neither
\* goes past its end.
OneUseOfBuffer == /\ st.wpos > 0 => st.rpos = st.rcnt
                  /\ st.wpos < BUFSIZ /\ st.rcnt <= BUFSIZ /\ Len(st.buffer) <= BUFSIZ
=============================================================================
