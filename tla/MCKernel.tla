------------------------------ MODULE MCKernel ------------------------------
(***************************************************************************)
(* The kernel's services for TLC: task life cycle, the kernel log and its  *)
(* rate limit, interrupts, traps with system calls and user copies, the    *)
(* red-black tree, and the two printf families, one of them per behaviour. *)
(***************************************************************************)
EXTENDS MCTaskLife, Klog, Irq, Trap, RbTree, UlibFormat

VARIABLE subject    \* the component this behaviour is about

MCRbVal == [k \in 1..RbKeys |-> (k * 5) % 7]

(* The directives: flags, width, precision, then a length and a conversion *)
(* with its argument.                                                      *)
MCFlags == {<<>>} \cup {<<f>> : f \in FlagChars}
           \cup {<<"-", "0">>, <<"0", "+">>, <<"0", " ">>, <<"+", " ">>, <<"#", "0">>, <<"#", "-">>, <<"-", "+">>}

Text(f) == [f |-> f, a |-> <<>>]
Taking(f, v) == [f |-> f, a |-> <<v>>]

MCWidths == {Text(<<>>), Text(<<"4">>), Text(<<"9">>), Taking(<<"*">>, [int |-> 29])}

MCPrecisions == {Text(<<>>), Text(<<".">>), Text(<<".", "3">>),
                 Taking(<<".", "*">>, [int |-> 31]), Taking(<<".", "*">>, [int |-> 2])}

MCConversions ==
    {Taking(l \o <<s>>, [int |-> v]) : l \in {<<>>, <<"l">>, <<"h", "h">>},
                                       s \in {"d", "u", "x", "X", "o"}, v \in {0, 1, 10, 16, 37, 200}}
    \cup {Taking(<<"p">>, [int |-> 10]), Taking(<<"c">>, [str |-> <<"z">>]), Taking(<<"c">>, [str |-> <<"">>]),
          Taking(<<"s">>, [str |-> <<"u", "v", "w">>]), Taking(<<"s">>, [str |-> <<>>]), Text(<<"%">>)}

MCFmtCalls == {[fmt |-> <<"t", "%">> \o fl \o w.f \o p.f \o c.f, args |-> w.a \o p.a \o c.a] :
                  fl \in MCFlags, w \in MCWidths, p \in MCPrecisions, c \in MCConversions}

MCSymmetry == FreeSymmetry \cup Permutations(KlogCpus)

MCVars == <<vars, klogVars, rlVars, irqVars, trapVars, tree, ufVars, subject>>

MCInit == /\ subject \in {"task", "klog", "ratelimit", "irq", "trap", "rbtree", "format"}
          /\ Init /\ klog_init /\ RlInit /\ IrqInit /\ TrapInit /\ RbInit /\ UfInit
          /\ subject # "task" => g_init_task = None
          /\ subject # "trap" => extable = CHOOSE x \in Linked : TRUE

MCNext ==
    /\ UNCHANGED subject
    /\ \/ subject = "task" /\ Next /\ UNCHANGED <<klogVars, rlVars, irqVars, trapVars, tree, ufVars>>
       \/ subject = "klog" /\ KlogNext /\ UNCHANGED <<vars, rlVars, irqVars, trapVars, tree, ufVars>>
       \/ subject = "ratelimit" /\ RlNext /\ UNCHANGED <<vars, klogVars, irqVars, trapVars, tree, ufVars>>
       \/ subject = "irq" /\ IrqNext /\ UNCHANGED <<vars, klogVars, rlVars, trapVars, tree, ufVars>>
       \/ subject = "trap" /\ TrapNext /\ UNCHANGED <<vars, klogVars, rlVars, irqVars, tree, ufVars>>
       \/ subject = "rbtree" /\ RbNext /\ UNCHANGED <<vars, klogVars, rlVars, irqVars, trapVars, ufVars>>
       \/ subject = "format" /\ UfNext /\ UNCHANGED <<vars, klogVars, rlVars, irqVars, trapVars, tree>>

MCSpec == MCInit /\ [][MCNext]_MCVars

-----------------------------------------------------------------------------
(* klog and its rate limit: readers stay on entries, every message is      *)
(* printed once or counted as lost, and no window lets more than the burst *)
(* through.                                                                *)
LogFaithful ==
    /\ subject = "klog" => KlogTypeOK /\ ReadersOnEntries /\ NothingLostUncounted /\ ConsolePrintsOnce
    /\ subject = "ratelimit" => RateBounded

(* A zombie is reaped by its own parent only, and a message is held back   *)
(* only after a burst.                                                     *)
ReapedAndHeard == ReclaimedByParent /\ HeldBackForBurst

(* Faults in user copies are survived through the exception table, SUM is  *)
(* set only inside a copy (while no interrupt made kernelvec overwrite t0  *)
(* between a copy's load of it and its use), no copy leaves user memory,   *)
(* and what the copy reports is what was copied.                           *)
CopiesContained == subject = "trap" =>
    TrapTypeOK /\ FixupsFound /\ FaultsAreSurvived /\ SumOnlyInCopy /\ CopiesStayInUser /\ CopyTellsTruth

(* lib/rbtree.cc keeps a red-black search tree whose walks visit every     *)
(* node and whose augmented maxima are those of the subtrees.              *)
TreeSound == subject = "rbtree" => SearchTree /\ RedBlack /\ WalksComplete /\ MaxOverSubtree

(* Both printf families produce the standard's text, cut and terminated    *)
(* within the buffer; the user library scans back what it prints, within   *)
(* the characters its number buffer holds, and saturates numbers that are  *)
(* too large.                                                              *)
TextStandard == subject = "format" =>
    /\ KernelTextStandard /\ ConversionInBuffer /\ CutAndTerminated
    /\ UlibTextStandard /\ UlibCut /\ ScanRoundTrip /\ NumbersSaturate
=============================================================================
