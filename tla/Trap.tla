-------------------------------- MODULE Trap --------------------------------
(***************************************************************************)
(* A kernel thread and the traps it takes: cause decoding and the common   *)
(* trap handler (na/arch/riscv/trap/trap_md.cc, na/kernel/trap.cc), copies *)
(* to and from user memory (na/kernel/uaccess.cc, uaccess_memcpy.S), the   *)
(* exception table that rescues a copy from a page fault                   *)
(* (na/arch/riscv/trap/extable.cc), and the exit status a parent gets      *)
(* (na/kernel/sys_process.cc).                                             *)
(*                                                                         *)
(* stvec only ever holds kernelvec (trap_init, trap_init_ap), so every     *)
(* trap of the hart goes to kernel_trap_handler.  trap_vector, the entry   *)
(* meant for user tasks, is installed nowhere; the handler it is meant to  *)
(* reach and the system calls behind it are modelled as the operations     *)
(* they are, called on behalf of a user task.                              *)
(*                                                                         *)
(* Addresses are bytes 0..UaTop-1, wrap at UaTop, and belong to the kernel *)
(* from kKernelVABase on.  An exception table entry holds, as in memory,   *)
(* the distances from itself to an instruction and to its fixup.           *)
(***************************************************************************)
EXTENDS Integers, Sequences, SequencesExt, FiniteSets

CONSTANTS
    kKernelVABase, UaTop,
    ExitCodes,        \* arguments of exit
    NoAddr

ASSUME TrapAssumption == kKernelVABase \in Nat /\ UaTop > kKernelVABase

VARIABLES
    extable,    \* sequence of [insn, fixup], both relative to the entry
    mode,       \* "boot", "kernel", "copy", "dead", "reaped", "panic"
    why,        \* the trap that stopped the kernel: [cause, from]
    umem,       \* [mapped: set of user bytes, nul: the address of a 0 byte]
    copy,       \* the copy in progress or just finished
    t0,         \* a copy's: SUM's "mask", or the "sp" kernelvec left there
    struck,     \* history: kernelvec changed t0 before the last copy used it
    sum,        \* sstatus.SUM: the kernel may touch user pages
    status      \* [how, exit_code, wstatus]

trapVars == <<extable, mode, why, umem, copy, t0, struck, sum, status>>

EFAULT == -14
ENOMEM == -12

-----------------------------------------------------------------------------
(* The exception table.  Entry k lies at 8 k, its fixup field 4 further.   *)
InsnOf(t, k) == 8 * k + t[k].insn
FixupOf(t, k) == 8 * k + 4 + t[k].fixup
EntryFor(k, insn, fixup) == [insn |-> insn - 8 * k, fixup |-> fixup - (8 * k + 4)]

swap_extable_entries(t, a, b) ==
    [t EXCEPT ![a] = EntryFor(a, InsnOf(t, b), FixupOf(t, b)),
              ![b] = EntryFor(b, InsnOf(t, a), FixupOf(t, a))]

RECURSIVE Partition(_, _, _, _)
(* The two scans towards the pivot value and the swap, until they cross.   *)
Partition(t, i, j, pivot) ==
    IF i > j THEN [t |-> t, i |-> i, j |-> j]
    ELSE LET i2 == CHOOSE n \in i..Len(t) : InsnOf(t, n) >= pivot /\ \A m \in i..(n - 1) : InsnOf(t, m) < pivot
             j2 == CHOOSE n \in 1..j : InsnOf(t, n) <= pivot /\ \A m \in (n + 1)..j : InsnOf(t, m) > pivot
         IN  IF i2 <= j2 THEN Partition(swap_extable_entries(t, i2, j2), i2 + 1, j2 - 1, pivot)
             ELSE [t |-> t, i |-> i2, j |-> j2]

RECURSIVE sort_extable(_, _, _)
sort_extable(t, left, right) ==
    IF left >= right THEN t
    ELSE LET p == Partition(t, left, right, InsnOf(t, left + (right - left) \div 2))
             low == IF p.j > left THEN sort_extable(p.t, left, p.j) ELSE p.t
         IN  IF p.i < right THEN sort_extable(low, p.i, right) ELSE low

RECURSIVE BinarySearch(_, _, _, _)
BinarySearch(t, pc, left, right) ==
    IF left > right THEN 0
    ELSE LET mid == left + (right - left) \div 2 IN
         CASE InsnOf(t, mid) = pc -> FixupOf(t, mid)
           [] InsnOf(t, mid) < pc -> BinarySearch(t, pc, mid + 1, right)
           [] OTHER               -> BinarySearch(t, pc, left, mid - 1)

search_extable(pc) == BinarySearch(extable, pc, 1, Len(extable))

(* The instructions of uaccess_memcpy.S that touch user memory, and where  *)
(* their faults go.  The linker may place the entries in any order.        *)
Guarded == {<<101, 109>>, <<102, 109>>, <<121, 129>>, <<122, 129>>}
AccessPc(fn) == CASE fn = "copy_from_user" -> 101 [] fn = "copy_to_user" -> 102 [] fn = "strncpy_from_user" -> 121
Linked == {[k \in 1..4 |-> EntryFor(k, s[k][1], s[k][2])] : s \in SetToSeqs(Guarded)}

-----------------------------------------------------------------------------
(* scause values and the machine-independent causes.                       *)
Interrupts == {"S_SOFTWARE", "S_TIMER", "S_EXTERNAL", "OTHER_IRQ"}
Exceptions == {"INST_PAGE_FAULT", "LOAD_PAGE_FAULT", "STORE_PAGE_FAULT", "ECALL_FROM_U", "ILLEGAL_INST",
               "BREAKPOINT", "INST_ACCESS_FAULT", "LOAD_ACCESS_FAULT", "STORE_ACCESS_FAULT",
               "INST_MISALIGNED", "LOAD_MISALIGNED", "STORE_MISALIGNED", "OTHER_EXC"}

scause_to_trap_cause(s) ==
    CASE s = "S_TIMER"          -> "IrqTimer"
      [] s = "S_SOFTWARE"       -> "IrqSoftware"
      [] s = "S_EXTERNAL"       -> "IrqExternal"
      [] s = "INST_PAGE_FAULT"  -> "PageFaultExec"
      [] s = "LOAD_PAGE_FAULT"  -> "PageFaultLoad"
      [] s = "STORE_PAGE_FAULT" -> "PageFaultStore"
      [] s = "ECALL_FROM_U"     -> "Syscall"
      [] s = "ILLEGAL_INST"     -> "IllegalInst"
      [] s = "BREAKPOINT"       -> "Breakpoint"
      [] s \in {"INST_ACCESS_FAULT", "LOAD_ACCESS_FAULT", "STORE_ACCESS_FAULT"} -> "AccessFault"
      [] s \in {"INST_MISALIGNED", "LOAD_MISALIGNED", "STORE_MISALIGNED"}       -> "AlignFault"
      [] OTHER                  -> "Unknown"

classify_trap(s) ==
    CASE s \in Interrupts                        -> "Interrupt"
      [] scause_to_trap_cause(s) = "Syscall"     -> "Syscall"
      [] scause_to_trap_cause(s) = "Unknown"     -> "Unknown"
      [] OTHER                                   -> "Exception"

PageFaults == {"PageFaultLoad", "PageFaultStore", "PageFaultExec"}

(* trap_handle: what becomes of the trap.  vm is the answer of             *)
(* vmm_handle_page_fault where it is asked.                                *)
trap_handle(s, origin, vm) ==
    LET cause == scause_to_trap_cause(s) IN
    CASE origin = "FromKernel" /\ classify_trap(s) # "Interrupt" -> "panic"
      [] cause \in PageFaults /\ vm = 0            -> "resume"
      [] cause \in PageFaults /\ vm = ENOMEM    -> "SIGKILL"
      [] cause \in PageFaults /\ vm # ENOMEM    -> "SIGSEGV"
      [] cause = "Syscall"                         -> "syscall"
      [] cause \in {"IrqTimer", "IrqExternal", "IrqSoftware", "Breakpoint"} -> "resume"
      [] OTHER                                     -> "panic"

NoCopy == [fn |-> "none", addr |-> 0, len |-> 0, i |-> 0, ret |-> 0, at |-> "end"]
NoTrap == [cause |-> "none", from |-> "boot"]
Running == [how |-> "running", value |-> 0, exit_code |-> 0, wstatus |-> 0]

TrapInit ==
    /\ extable \in Linked
    /\ mode = "boot" /\ why = NoTrap /\ copy = NoCopy /\ sum = FALSE /\ status = Running
    /\ t0 = "mask" /\ struck = FALSE
    /\ umem = [mapped |-> {}, nul |-> NoAddr]

(* extable_init, before the first copy.  User memory is whatever a task    *)
(* mapped and wrote.                                                       *)
extable_init ==
    /\ mode = "boot"
    /\ extable' = sort_extable(extable, 1, Len(extable))
    /\ \E m \in SUBSET (0..(kKernelVABase - 1)), z \in 0..(kKernelVABase - 1) \union {NoAddr} :
          umem' = [mapped |-> m, nul |-> z]
    /\ mode' = "kernel"
    /\ UNCHANGED <<why, copy, t0, struck, sum, status>>

-----------------------------------------------------------------------------
SIGKILL == 9
SIGSEGV == 11

(* task_exit of a task that ends by itself (sys_exit, sys_exit_group) or   *)
(* by a signal (task_kill_current).                                        *)

(* Faulty variant: the argument of exit is not cut to a byte.              *)
ExitCode_Wide(how, v) == IF how = "exit" THEN v ELSE (v % 128) + 256

ExitCode(how, v) == IF how = "exit" THEN v % 256 ELSE (v % 128) + 256

End(how, v) ==
    /\ status' = [how |-> how, value |-> v, exit_code |-> ExitCode(how, v), wstatus |-> 0]
    /\ copy' = NoCopy

(* trap_dispatch of a user task's trap: its call of trap_handle.           *)
trap_dispatch(s, vm) ==
    LET then == trap_handle(s, "FromUser", vm) IN
    /\ mode = "kernel"
    /\ why' = IF then = "panic" THEN [cause |-> s, from |-> "user"] ELSE why
    /\ mode' = CASE then = "panic" -> "panic"
                 [] then \in {"resume", "syscall"} -> "kernel"
                 [] OTHER -> "dead"
    /\ IF then \in {"SIGKILL", "SIGSEGV"}
       THEN End("signal", IF then = "SIGKILL" THEN SIGKILL ELSE SIGSEGV) ELSE UNCHANGED <<copy, status>>
    /\ UNCHANGED <<extable, umem, t0, struck, sum>>

(* The copy has loaded t0 with the mask and not used it yet.               *)
MaskLoaded == mode = "copy" /\ copy.at \in {"csrs", "csrc"}

(* kernelvec and kernel_trap_handler, except for a page fault at a user    *)
(* access.  kernelvec stores the stack pointer it computed in t0 where t0  *)
(* itself belongs, so the interrupted code goes on with sp in t0.          *)
KernelTrap(s) ==
    LET panics == trap_handle(s, "FromKernel", 0) = "panic" IN
    /\ mode \in {"kernel", "copy"}
    /\ mode = "copy" => s \in Interrupts
    /\ mode' = IF panics THEN "panic" ELSE mode
    /\ why' = IF panics THEN [cause |-> s, from |-> mode] ELSE why
    /\ t0' = IF mode = "copy" THEN "sp" ELSE t0
    /\ struck' = (struck \/ MaskLoaded)
    /\ UNCHANGED <<extable, umem, copy, sum, status>>

(* sys_exit and sys_exit_group.                                            *)
sys_exit(code) ==
    /\ mode = "kernel"
    /\ End("exit", code) /\ mode' = "dead"
    /\ UNCHANGED <<extable, why, umem, t0, struck, sum>>

(* task_wait and the encoding of wstatus in the parent's sys_wait4.        *)
wait_status(code) == IF (code \div 256) % 2 = 1 THEN code % 128 ELSE (code % 256) * 256

sys_wait4_wrapper ==
    /\ mode = "dead"
    /\ status' = [status EXCEPT !.wstatus = wait_status(status.exit_code)]
    /\ mode' = "reaped"
    /\ UNCHANGED <<extable, why, umem, copy, t0, struck, sum>>

-----------------------------------------------------------------------------
is_user_range(addr, len) ==
    LET end == (addr + len) % UaTop IN
    addr < kKernelVABase /\ end >= addr /\ end <= kKernelVABase

(* strncpy_from_user's max_len.                                            *)
Allowed(addr, len) == IF len > kKernelVABase - addr THEN kKernelVABase - addr ELSE len

(* A call of copy_from_user, copy_to_user or strncpy_from_user.  A range   *)
(* that is refused, or empty, is answered at once; else t0 gets SUM's mask *)
(* for the csrs that follows.                                              *)
CopyStart(fn, addr, len) ==
    LET ok == IF fn = "strncpy_from_user" THEN is_user_range(addr, 1) ELSE len = 0 \/ is_user_range(addr, len)
        n  == IF fn = "strncpy_from_user" /\ ok THEN Allowed(addr, len) ELSE len
        go == ok /\ n > 0
    IN
    /\ mode = "kernel"
    /\ copy' = [fn |-> fn, addr |-> addr, len |-> n, i |-> 0, ret |-> IF ok THEN 0 ELSE EFAULT,
                at |-> IF go THEN "csrs" ELSE "end"]
    /\ mode' = IF go THEN "copy" ELSE "kernel"
    /\ struck' = (~go /\ struck)
    /\ UNCHANGED <<extable, why, umem, t0, sum, status>>

(* csrs sstatus, t0.  Bit 18 of a stack pointer may be set or not.         *)
CopyEnable ==
    /\ mode = "copy" /\ copy.at = "csrs"
    /\ \E bit \in IF t0 = "mask" THEN {TRUE} ELSE BOOLEAN : sum' = (sum \/ bit)
    /\ copy' = [copy EXCEPT !.at = "loop"]
    /\ UNCHANGED <<extable, mode, why, umem, t0, struck, status>>

(* csrc sstatus, t0, and the return, after which t0 is the caller's.       *)
CopyDisable ==
    /\ mode = "copy" /\ copy.at = "csrc"
    /\ \E bit \in IF t0 = "mask" THEN {TRUE} ELSE BOOLEAN : sum' = (sum /\ ~bit)
    /\ copy' = [copy EXCEPT !.at = "end"] /\ mode' = "kernel" /\ t0' = "mask"
    /\ UNCHANGED <<extable, why, umem, struck, status>>

(* Where the forced terminator goes.                                       *)
StringEnd(c) == c.len - 1

(* One round of the loop in __uaccess_memcpy or __uaccess_strncpy whose    *)
(* user byte is there.  The last one goes on to load the mask again.       *)
CopyByte ==
    LET at == copy.addr + copy.i
        stop == copy.fn = "strncpy_from_user" /\ at = umem.nul
        full == copy.i + 1 = copy.len
    IN
    /\ mode = "copy" /\ copy.at = "loop" /\ sum /\ at \in umem.mapped
    /\ copy' = [copy EXCEPT !.i = @ + 1,
                            !.at = IF stop \/ full THEN "csrc" ELSE "loop",
                            !.ret = IF copy.fn # "strncpy_from_user" THEN 0
                                    ELSE IF stop THEN copy.i
                                    ELSE IF full THEN StringEnd(copy) ELSE 0]
    /\ t0' = IF stop \/ full THEN "mask" ELSE t0
    /\ UNCHANGED <<extable, mode, why, umem, struck, sum, status>>

(* Faulty variant: the fixup returns without taking back the permission.   *)
FixupGoesTo_Return == "end"

(* .Lmemcpy_fault and .Lstrncpy_fault load the mask and clear SUM.         *)
FixupGoesTo == "csrc"

(* The byte is not there, or SUM does not let the kernel see it:           *)
(* kernel_trap_handler goes on at the fixup, which returns -EFAULT, or     *)
(* panics when the table does not know the instruction.                    *)
CopyFault ==
    LET s == IF copy.fn = "copy_to_user" THEN "STORE_PAGE_FAULT" ELSE "LOAD_PAGE_FAULT"
        rescued == search_extable(AccessPc(copy.fn)) # 0
    IN
    /\ mode = "copy" /\ copy.at = "loop" /\ (copy.addr + copy.i \notin umem.mapped \/ ~sum)
    /\ why' = IF rescued THEN why ELSE [cause |-> s, from |-> "copy"]
    /\ mode' = IF ~rescued THEN trap_handle(s, "FromKernel", 0) ELSE IF FixupGoesTo = "end" THEN "kernel" ELSE "copy"
    /\ copy' = [copy EXCEPT !.ret = EFAULT, !.at = FixupGoesTo]
    /\ t0' = "mask"
    /\ UNCHANGED <<extable, umem, struck, sum, status>>

TrapNext ==
    \/ extable_init
    \/ \E s \in Interrupts \union Exceptions, vm \in {0, EFAULT, ENOMEM} :
          (vm = 0 \/ scause_to_trap_cause(s) \in PageFaults) /\ trap_dispatch(s, vm)
    \/ \E s \in Interrupts \union Exceptions : KernelTrap(s)
    \/ \E code \in ExitCodes : sys_exit(code)
    \/ sys_wait4_wrapper
    \/ \E fn \in {"copy_from_user", "copy_to_user", "strncpy_from_user"}, a, n \in 0..(UaTop - 1) : CopyStart(fn, a, n)
    \/ CopyEnable \/ CopyByte \/ CopyFault \/ CopyDisable

-----------------------------------------------------------------------------
TrapTypeOK ==
    /\ mode \in {"boot", "kernel", "copy", "dead", "reaped", "panic"}
    /\ copy.i \in 0..copy.len /\ copy.len \in 0..(UaTop - 1) /\ copy.at \in {"csrs", "loop", "csrc", "end"}
    /\ t0 \in {"mask", "sp"} /\ {struck, sum} \subseteq BOOLEAN /\ status.exit_code \in 0..383

(* Once sorted, the table answers for each instruction the linker put in   *)
(* it with that instruction's own fixup, in whatever order it came.        *)
FixupsFound ==
    mode # "boot" => \A e \in Guarded : BinarySearch(extable, e[1], 1, Len(extable)) = e[2]

(* A page fault stops the kernel neither when trap_handle gets it for a    *)
(* user task nor when a copy takes it: only kernel code outside a copy has *)
(* no answer to one.                                                       *)
FaultsAreSurvived ==
    mode = "panic" /\ scause_to_trap_cause(why.cause) \in PageFaults => why.from = "kernel"

(* Between copies the kernel has no access to user pages, however the last *)
(* copy ended, and while bytes are copied it has; unless an interrupt came *)
(* between the copy's load of t0 and the csrs or csrc that uses it.        *)
SumOnlyInCopy ==
    ~struck => /\ mode = "kernel" => ~sum
               /\ mode = "copy" /\ copy.at = "loop" => sum

(* No copy touches an address of the kernel on its user side, for no       *)
(* address, length or string, and no sum of the two that wraps.            *)
CopiesStayInUser == mode = "copy" /\ copy.at = "loop" => copy.addr + copy.i < kKernelVABase

(* A finished copy tells the truth: everything was copied, or a byte of    *)
(* the range is missing (or, struck by an interrupt as above, SUM was not  *)
(* set); a string that was copied ends inside its buffer, at its first 0   *)
(* byte or where the buffer cut it.                                        *)
CopyTellsTruth ==
    copy.at = "end" /\ copy.fn # "none" =>
        LET bytes == copy.addr..(copy.addr + copy.len - 1) IN
        CASE copy.ret = EFAULT -> struck \/ copy.addr >= kKernelVABase \/ \E b \in bytes : b \notin umem.mapped
          [] copy.fn # "strncpy_from_user" -> copy.i = copy.len /\ bytes \subseteq umem.mapped
          [] copy.len > 0 -> /\ copy.ret < copy.len
                             /\ copy.addr + copy.ret = umem.nul \/ copy.ret = copy.len - 1
          [] OTHER -> copy.ret = 0

(* What the parent decodes from wstatus is how its child ended: by exit,   *)
(* with the low byte of what it passed, or by a signal, with its number.   *)
StatusTellsHowItEnded ==
    mode = "reaped" =>
        LET w == status.wstatus IN
        IF status.how = "exit" THEN w % 128 = 0 /\ (w \div 256) % 256 = status.value % 256
        ELSE w % 128 = status.value /\ w % 128 # 127
=============================================================================
