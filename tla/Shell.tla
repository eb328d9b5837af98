-------------------------------- MODULE Shell --------------------------------
(***************************************************************************)
(* The shell (src/user/sh.cc): the recursive-descent parser that puts NULs *)
(* into the line it reads, and the processes that run the command it       *)
(* built, with pipes, redirections, lists and background commands.         *)
(*                                                                         *)
(* A line is a sequence of characters, "" the NUL; "a" and "b" stand for   *)
(* any character of a word.  A process is the list of steps it still has   *)
(* to take and its table of open files.  Nothing is open when the shell    *)
(* starts: descriptors 0 and 1 reach the console only as empty entries of  *)
(* the table (sys_read, sys_write).  A process that exits keeps its files  *)
(* open until it is waited for.                                            *)
(***************************************************************************)
EXTENDS Integers, Sequences, FiniteSets, SequencesExt, FiniteSetsExt

CONSTANTS MAX_ARGS,     \* 10 in the code
          LineChars,    \* the characters entered while the parser is compared
          MaxLine,      \* bound: how many
          ShLines,      \* the lines that are run
          MaxLines,     \* bound: how many are run in one session
          ShProcs,      \* bound: process slots, 1 is the shell
          ShPipes,      \* bound: pipes
          ShFds         \* bound: descriptors of a process

ASSUME ShellAssumption == {MAX_ARGS, MaxLine, ShProcs, ShPipes, ShFds} \subseteq Nat \ {0}

VARIABLES entered,     \* a line under the parser alone
          procs,     \* slot -> process, or the empty slot
          ran,       \* how many lines the shell has taken
          failed     \* a fork or a pipe failed: the process panicked

shVars == <<entered, procs, ran, failed>>

----------------------------------------------------------------------------
(* The parser.  Its state is the line and the place reached.               *)

WHITESPACE == {" ", "\t"}
SYMBOLS == {"<", "|", ">", "&", ";", "(", ")"}

LineAt(ps, i) == IF i <= Len(ps.line) THEN ps.line[i] ELSE ""

\* strchr finds the NUL that ends WHITESPACE, so a NUL in the line is a blank.
IsBlank(ch) == ch \in WHITESPACE \cup {""}

AfterBlanks(ps, i) ==
    CHOOSE j \in i..(Len(ps.line) + 1) :
        /\ j > Len(ps.line) \/ ~IsBlank(ps.line[j])
        /\ \A k \in i..(j - 1) : IsBlank(ps.line[k])

WordEnd(ps, i) ==
    CHOOSE j \in i..(Len(ps.line) + 1) :
        /\ j > Len(ps.line) \/ IsBlank(ps.line[j]) \/ ps.line[j] \in SYMBOLS
        /\ \A k \in i..(j - 1) : ~IsBlank(ps.line[k]) /\ ps.line[k] \notin SYMBOLS

IsAppend(ps, q) == LineAt(ps, q) = ">" /\ LineAt(ps, q + 1) = ">"

\* The end of the token that starts at q with ch.
TokenEnd(ps, q, ch) ==
    CASE ch = "" -> q
      [] ch # "" /\ ch \in SYMBOLS -> IF IsAppend(ps, q) THEN q + 2 ELSE q + 1
      [] OTHER -> WordEnd(ps, q)

TokenAt(ps, q, ch) ==
    [tok |-> CASE ch = "" -> "" [] ch # "" /\ ch \in SYMBOLS -> IF IsAppend(ps, q) THEN "+" ELSE ch
               [] OTHER -> "a",
     q |-> q, eq |-> TokenEnd(ps, q, ch)]

TokenFrom(ps, q) == TokenAt(ps, q, LineAt(ps, q))

\* tok, the word's place q..eq, and the state behind the blanks that follow.
Consumed(ps, t) == [tok |-> t.tok, q |-> t.q, eq |-> t.eq, ps |-> [ps EXCEPT !.pos = AfterBlanks(ps, t.eq)]]
get_token(ps) == Consumed(ps, TokenFrom(ps, AfterBlanks(ps, ps.pos)))

Peeked(ps) == [ps EXCEPT !.pos = AfterBlanks(ps, ps.pos)]
peek(ps, toks) == LineAt(Peeked(ps), Peeked(ps).pos) \in toks

\* *eq = 0
Terminated(ps, eq) == IF eq <= Len(ps.line) THEN [ps EXCEPT !.line[eq] = ""] ELSE ps

Word(t) == SubSeq(t.ps.line, t.q, t.eq - 1)

Panic == [ok |-> FALSE]

\* Redirections around cmd; the last one read is the outermost.
RECURSIVE parse_redirs(_, _)
RedirTo(cmd, op, file) ==
    IF file.tok # "a" THEN Panic
    ELSE parse_redirs([k |-> "redir", sub |-> cmd, file |-> Word(file),
                       append |-> op.tok = "+", fd |-> IF op.tok = "<" THEN 0 ELSE 1],
                      Terminated(file.ps, file.eq))
Redir(cmd, op) == RedirTo(cmd, op, get_token(op.ps))
parse_redirs(cmd, ps) ==
    IF peek(ps, {"<", ">"}) THEN Redir(cmd, get_token(Peeked(ps)))
    ELSE [ok |-> TRUE, cmd |-> cmd, ps |-> Peeked(ps)]

\* The innermost command of a chain of redirections, replaced.
RECURSIVE WithArgv(_, _)
WithArgv(cmd, argv) == IF cmd.k = "exec" THEN [cmd EXCEPT !.argv = argv]
                       ELSE [cmd EXCEPT !.sub = WithArgv(@, argv)]

RECURSIVE ExecArgs(_, _)
ExecArg(r, argv, t) ==
    CASE t.tok = "" -> [r EXCEPT !.cmd = WithArgv(@, argv)]
      [] t.tok = "a" /\ Len(argv) + 1 < MAX_ARGS ->
            ExecArgs(parse_redirs(r.cmd, Terminated(t.ps, t.eq)), Append(argv, Word(t)))
      [] OTHER -> Panic
ExecArgs(r, argv) ==
    CASE ~r.ok -> Panic
      [] r.ok /\ peek(r.ps, {"|", ")", "&", ";"}) -> [r EXCEPT !.cmd = WithArgv(@, argv)]
      [] OTHER -> ExecArg(r, argv, get_token(Peeked(r.ps)))

parse_exec(ps) == ExecArgs(parse_redirs([k |-> "exec", argv |-> <<>>], ps), <<>>)

Joined(kind, l, r) ==
    IF r.ok THEN [ok |-> TRUE, cmd |-> [k |-> kind, left |-> l.cmd, right |-> r.cmd], ps |-> r.ps]
    ELSE Panic

\* What follows the operator that l ends at.
Behind(l) == get_token(Peeked(l.ps)).ps

RECURSIVE parse_pipe(_)
PipeTail(l) == IF l.ok /\ peek(l.ps, {"|"}) THEN Joined("pipe", l, parse_pipe(Behind(l))) ELSE l
parse_pipe(ps) == PipeTail(parse_exec(ps))

RECURSIVE InBack(_)
InBack(l) == IF l.ok /\ peek(l.ps, {"&"})
             THEN InBack([ok |-> TRUE, cmd |-> [k |-> "back", sub |-> l.cmd], ps |-> Behind(l)])
             ELSE l

RECURSIVE parse_line(_)
ListTail(l) == IF l.ok /\ peek(l.ps, {";"}) THEN Joined("list", l, parse_line(Behind(l))) ELSE l
parse_line(ps) == ListTail(InBack(parse_pipe(ps)))

parse(line) == parse_line([line |-> line, pos |-> 1])

----------------------------------------------------------------------------
(* Running a command: the steps a process takes for it.                    *)

ShDescs == 0..(ShFds - 1)

\* dup of a descriptor that is not open fails; else the lowest one gets it.
Dupped(fds, old) ==
    IF fds[old] = "none" THEN fds ELSE [fds EXCEPT ![Min({fd \in ShDescs : fds[fd] = "none"})] = fds[old]]

\* close(end); dup(p[end]); close(p[0]); close(p[1]).
Wired(fds, end, p) ==
    [Dupped([fds EXCEPT ![end] = "none"], p[end + 1]) EXCEPT ![p[1]] = "none", ![p[2]] = "none"]

ForkStep(code) == [op |-> "fork", code |-> code, bg |-> FALSE]

\* Faulty variant: the parent of a pipeline waits for one of the two.
PipeCode_OneWait(left, right) ==
    <<[op |-> "pipe"], ForkStep(<<[op |-> "wire", end |-> 1]>> \o left),
      ForkStep(<<[op |-> "wire", end |-> 0]>> \o right),
      [op |-> "close"], [op |-> "wait"], [op |-> "exit"]>>

PipeCode(left, right) ==
    <<[op |-> "pipe"], ForkStep(<<[op |-> "wire", end |-> 1]>> \o left),
      ForkStep(<<[op |-> "wire", end |-> 0]>> \o right),
      [op |-> "close"], [op |-> "wait"], [op |-> "wait"], [op |-> "exit"]>>

\* run() of a command inside redirections of the descriptors in files.
RECURSIVE RunCode(_, _)
RunCode(cmd, files) ==
    CASE cmd.k = "exec" -> IF cmd.argv = <<>> THEN <<[op |-> "exit"]>>
                           ELSE <<[op |-> "exec", files |-> files]>>
      [] cmd.k = "redir" -> <<[op |-> "redir", fd |-> cmd.fd]>>
                            \o RunCode(cmd.sub, files \union {cmd.fd})
      [] cmd.k = "pipe" -> PipeCode(RunCode(cmd.left, {}), RunCode(cmd.right, {}))
      [] cmd.k = "list" -> <<ForkStep(RunCode(cmd.left, {})), [op |-> "wait"]>>
                           \o RunCode(cmd.right, {})
      [] cmd.k = "back" -> <<[ForkStep(RunCode(cmd.sub, {})) EXCEPT !.bg = TRUE], [op |-> "exit"]>>

CodeOf(r) == IF r.ok THEN RunCode(r.cmd, {}) ELSE <<[op |-> "exit"]>>
ChildCode(line) == CodeOf(parse(line))

EmptySlot == [state |-> "empty"]
Slots == 1..ShProcs
Alive1(p) == procs[p].state # "empty"
ShRunning(p) == procs[p].state = "live"
Step(p) == Head(procs[p].code)
AtStep(p, op) == ShRunning(p) /\ procs[p].code # <<>> /\ Step(p).op = op

ClosedDescs(p) == {fd \in ShDescs : procs[p].fds[fd] = "none"}

\* What stands for the ends of pipe i in a table of open files.
ReadEnd(i) == <<"r", "r2", "r3">>[i]
WriteEnd(i) == <<"w", "w2", "w3">>[i]

OpenSomewhere(obj) == \E p \in Slots : Alive1(p) /\ \E fd \in ShDescs : procs[p].fds[fd] = obj

FreePipes == {i \in 1..ShPipes : ~OpenSomewhere(ReadEnd(i)) /\ ~OpenSomewhere(WriteEnd(i))}

\* bg: started by a background command, itself or through an ancestor.
NewProc(parent, step) ==
    [state |-> "live", parent |-> parent, code |-> step.code, fds |-> procs[parent].fds,
     p |-> procs[parent].p, bg |-> procs[parent].bg \/ step.bg]

Advance(p) == [procs EXCEPT ![p].code = Tail(@)]

\* The process leaves; its children go to init, which is no slot here: 0.
Exited(ps, p) == [q \in Slots |->
    CASE q = p -> [ps[p] EXCEPT !.state = "zombie", !.code = <<>>]
      [] q # p /\ ps[q].state # "empty" /\ ps[q].parent = p -> [ps[q] EXCEPT !.parent = 0]
      [] OTHER -> ps[q]]

ShellLoop(line) == <<ForkStep(ChildCode(line)), [op |-> "wait"], [op |-> "prompt"]>>

ShInit == /\ entered = <<>> /\ ran = 0 /\ failed = FALSE
          /\ procs = [p \in Slots |->
                IF p = 1 THEN [state |-> "live", parent |-> 0, code |-> <<[op |-> "prompt"]>>,
                               fds |-> [fd \in ShDescs |-> "none"],
                               p |-> <<0, 0>>, bg |-> FALSE]
                ELSE EmptySlot]

Unused == UNCHANGED <<entered, ran, failed>>

\* main: a line is read, a child is forked for it, the shell waits.
DoPrompt(p) == /\ AtStep(p, "prompt") /\ ran < MaxLines
               /\ \E line \in ShLines : procs' = [procs EXCEPT ![p].code = ShellLoop(line)]
               /\ ran' = ran + 1
               /\ UNCHANGED <<entered, failed>>

\* fork_or_panic.
DoFork(p) ==
    LET empty == {q \in Slots : ~Alive1(q)}
    IN /\ AtStep(p, "fork")
       /\ \/ /\ empty # {}
             /\ procs' = [Advance(p) EXCEPT ![Min(empty)] = NewProc(p, Step(p))]
             /\ UNCHANGED failed
          \/ /\ empty = {} /\ procs' = Exited(procs, p) /\ failed' = TRUE
       /\ UNCHANGED <<entered, ran>>

\* The kernel may be out of files or of memory.
DoPipe(p) ==
    /\ AtStep(p, "pipe")
    /\ LET r == Min(ClosedDescs(p))
           w == Min(ClosedDescs(p) \ {r})
           i == Min(FreePipes)
       IN \/ /\ FreePipes # {} /\ Cardinality(ClosedDescs(p)) >= 2
             /\ procs' = [Advance(p) EXCEPT ![p].fds = [@ EXCEPT ![r] = ReadEnd(i),
                                                                 ![w] = WriteEnd(i)],
                                            ![p].p = <<r, w>>]
             /\ UNCHANGED failed
          \/ procs' = Exited(procs, p) /\ failed' = TRUE
    /\ UNCHANGED <<entered, ran>>

DoWire(p) == /\ AtStep(p, "wire")
             /\ procs' = [Advance(p) EXCEPT ![p].fds = Wired(@, Step(p).end, procs[p].p)]
             /\ Unused

DoClose(p) == /\ AtStep(p, "close")
              /\ procs' = [Advance(p) EXCEPT ![p].fds = [@ EXCEPT ![procs[p].p[1]] = "none",
                                                                  ![procs[p].p[2]] = "none"]]
              /\ Unused

\* close(fd), open(file): the lowest descriptor, moved to fd where it differs.
\* The process gives up when the file cannot be opened or moved.
DoRedir(p) ==
    LET fd == Step(p).fd
        closed == [procs[p].fds EXCEPT ![fd] = "none"]
        newfd == Min({f \in ShDescs : closed[f] = "none"})
        opened == [closed EXCEPT ![newfd] = "file"]
        moved == Dupped(opened, newfd)
    IN /\ AtStep(p, "redir")
       /\ \/ procs' = Exited([procs EXCEPT ![p].fds = closed], p)
          \/ procs' = IF newfd = fd THEN [Advance(p) EXCEPT ![p].fds = opened]
                      ELSE IF moved[fd] = "file" THEN [Advance(p) EXCEPT ![p].fds = [moved EXCEPT ![newfd] = "none"]]
                      ELSE Exited([procs EXCEPT ![p].fds = moved], p)
       /\ Unused

\* wait(0): a child that exited is taken away and its files are closed; with
\* no child left (0) the call returns at once.
DoWait(p) ==
    LET kids == {q \in Slots : Alive1(q) /\ procs[q].parent = p}
    IN /\ AtStep(p, "wait")
       /\ \E q \in IF kids = {} THEN {0} ELSE {k \in kids : procs[k].state = "zombie"} :
             procs' = [s \in Slots |-> IF s = q THEN EmptySlot ELSE Advance(p)[s]]
       /\ Unused

DoExit(p) == /\ AtStep(p, "exit")
             /\ procs' = Exited(procs, p)
             /\ Unused

\* The program runs to its end, or cannot be started.
DoExec(p) ==
    /\ AtStep(p, "exec")
    /\ \E body \in {<<[op |-> "program", files |-> Step(p).files]>>, <<>>} :
          procs' = [procs EXCEPT ![p].code = body \o <<[op |-> "exit"]>>]
    /\ Unused

DoProgram(p) == AtStep(p, "program") /\ procs' = Advance(p) /\ Unused

\* init waits for the processes it was given.
InitReaps == /\ \E q \in Slots \ {1} : /\ Alive1(q) /\ procs[q].parent = 0
                                       /\ procs[q].state = "zombie"
                                       /\ procs' = [procs EXCEPT ![q] = EmptySlot]
             /\ Unused

RunStep(p) == \/ DoPrompt(p) \/ DoFork(p) \/ DoPipe(p) \/ DoWire(p) \/ DoClose(p) \/ DoRedir(p)
              \/ DoWait(p) \/ DoExit(p) \/ DoExec(p) \/ DoProgram(p)

TypeChar == /\ ran = 0 /\ Len(entered) < MaxLine
            /\ \E ch \in LineChars : entered' = Append(entered, ch)
            /\ UNCHANGED <<procs, ran, failed>>

ShNext == \/ TypeChar
          \/ entered = <<>> /\ ((\E p \in Slots : RunStep(p)) \/ InitReaps)

----------------------------------------------------------------------------
(* What a line means: its tokens, and the simple commands between them.    *)

\* The tokens of a line from place i on: an operator, ">>", or a word.
RECURSIVE Tokens(_, _)
Tokens(line, i) ==
    LET ps == [line |-> line, pos |-> i]
        ch == LineAt(ps, i)
    IN CASE i > Len(line) -> <<>>
         [] i <= Len(line) /\ ch \in WHITESPACE -> Tokens(line, i + 1)
         [] ch = ">" /\ LineAt(ps, i + 1) = ">" ->
              <<[t |-> ">>", w |-> <<>>]>> \o Tokens(line, i + 2)
         [] ch \in SYMBOLS /\ ~(ch = ">" /\ LineAt(ps, i + 1) = ">") ->
              <<[t |-> ch, w |-> <<>>]>> \o Tokens(line, i + 1)
         [] OTHER -> LET j == WordEnd(ps, i)
                     IN <<[t |-> "word", w |-> SubSeq(line, i, j - 1)]>> \o Tokens(line, j)

RedirOps == {"<", ">", ">>"}
SepOps == {"|", "&", ";"}

\* The words and the redirections of one simple command.
Simple(toks) ==
    LET isFile(i) == i > 1 /\ toks[i - 1].t \in RedirOps
        args == {i \in DOMAIN toks : toks[i].t = "word" /\ ~isFile(i)}
        files == {i \in DOMAIN toks : toks[i].t = "word" /\ isFile(i)}
        inOrder(S) == SetToSortSeq(S, <)
    IN [args |-> [k \in 1..Cardinality(args) |-> toks[inOrder(args)[k]].w],
        redirs |-> [k \in 1..Cardinality(files) |->
                        [op |-> toks[inOrder(files)[k] - 1].t, file |-> toks[inOrder(files)[k]].w]],
        sep |-> ""]

\* Simple commands and separators, in turn; nothing stands behind an "&".
RECURSIVE Meaning(_, _)
Meaning(toks, behind) ==
    LET n == CHOOSE j \in 1..(Len(toks) + 1) :
                 /\ j > Len(toks) \/ toks[j].t \in SepOps
                 /\ \A k \in 1..(j - 1) : toks[k].t \notin SepOps
        here == IF behind = "&" /\ n = 1 THEN <<>> ELSE <<Simple(SubSeq(toks, 1, n - 1))>>
    IN IF n > Len(toks) THEN here
       ELSE here \o <<[args |-> <<>>, redirs |-> <<>>, sep |-> toks[n].t]>>
                 \o Meaning(SubSeq(toks, n + 1, Len(toks)), toks[n].t)

RECURSIVE Flat(_)
Flat(cmd) ==
    LET sep(ch) == <<[args |-> <<>>, redirs |-> <<>>, sep |-> ch]>>
        op == CASE cmd.k = "redir" /\ cmd.fd = 0 -> "<"
                [] cmd.k = "redir" /\ cmd.fd # 0 /\ cmd.append -> ">>"
                [] OTHER -> ">"
    IN CASE cmd.k = "exec" -> <<[args |-> cmd.argv, redirs |-> <<>>, sep |-> ""]>>
         [] cmd.k = "redir" -> <<[Flat(cmd.sub)[1] EXCEPT
                                     !.redirs = Append(@, [op |-> op, file |-> cmd.file])]>>
         [] cmd.k = "pipe" -> Flat(cmd.left) \o sep("|") \o Flat(cmd.right)
         [] cmd.k = "list" -> Flat(cmd.left) \o sep(";") \o Flat(cmd.right)
         [] cmd.k = "back" -> Flat(cmd.sub) \o sep("&")

\* A blank stands before every operator that follows a word.
Spaced(line) == \A i \in 2..Len(line) :
    line[i] \in SYMBOLS => line[i - 1] \in SYMBOLS \cup WHITESPACE

\* The command the parser builds has the words, the redirections and the
\* operators of the line up to the place where it stopped, in their order,
\* and it gives up only over a redirection without a file or too many
\* arguments: the NULs get written into the line while it is still being
\* read, and every peek and get_token has to step over them.  The line has to
\* have blanks before its operators: a NUL that ends a word takes the place of
\* an operator that follows at once.
ParseKeepsLine ==
    LET r == parse(entered)
        toks == Tokens(entered, 1)
        tooMany == \E m \in Range(Meaning(toks, "")) : Len(m.args) >= MAX_ARGS
        noFile == \E i \in DOMAIN toks : /\ toks[i].t \in RedirOps
                                         /\ i = Len(toks) \/ toks[i + 1].t # "word"
    IN Spaced(entered) =>
           IF r.ok THEN Flat(r.cmd) = Meaning(Tokens(SubSeq(entered, 1, r.ps.pos - 1), 1), "")
           ELSE tooMany \/ noFile

\* A program runs with the files of its own redirections and with nothing
\* else: whatever the ends of the pipes in its line, and of lines that still
\* run in the background, went through, it holds none of them.  That includes
\* its own: pipe() gives descriptors 0 and 1, which are free, so close(1) or
\* close(0) before the dup takes away the end that was to be kept, and the two
\* sides of a "|" are not connected.
NoStrayEnds ==
    \A p \in Slots \ {1} : AtStep(p, "program") =>
        \A fd \in ShDescs : procs[p].fds[fd] = IF fd \in Step(p).files THEN "file" ELSE "none"

\* When the shell asks for the next line, whatever still exists was started by
\* a background command: the waits of pipelines and lists took away the rest.
\* (Unless a fork or a pipe failed, after which the parent leaves at once.)
PromptMeansDone ==
    AtStep(1, "prompt") /\ ~failed => \A q \in Slots \ {1} : Alive1(q) => procs[q].bg
=============================================================================
