-------------------------------- MODULE Klog --------------------------------
(***************************************************************************)
(* The kernel log (na/lib/klog.cc): a ring of entries, each a header and a *)
(* text, that every CPU writes under a lock, two readers with a position   *)
(* each (klog_read_consume and the console), and the rate limiter.         *)
(*                                                                         *)
(* A message is a number; a cell of the ring holds which byte of which     *)
(* message it has, so that a reader can be seen to start inside an entry.  *)
(* head, tail and console_tail count bytes and are never reduced modulo    *)
(* the size of the ring, only modulo their width, klogWidth.               *)
(***************************************************************************)
EXTENDS Integers, Sequences, FiniteSets, SequencesExt

CONSTANTS
    KlogCpus,
    KLOG_BUF_SIZE, KlogHdr,   \* sizes in bytes of the ring and of a header
    KlogLens,                 \* text lengths
    klogWidth,                \* counters are modulo this
    MaxMessages,              \* bound on the messages
    RlInterval, RlBurst, RlHorizon   \* rate limiter, and the end of its clock

ASSUME KlogAssumption ==
    /\ \A n \in KlogLens : KlogHdr + n <= KLOG_BUF_SIZE
    /\ klogWidth % KLOG_BUF_SIZE = 0

VARIABLES
    ring,       \* [cell -> <<message, byte>>]
    head, tail, console_tail,
    dropped,
    panic_mode,
    msgs,       \* by number: [len, console, pos, read, printed]
    writer      \* [cpu -> message it is about to store ("store") or print]

klogVars == <<ring, head, tail, console_tail, dropped, panic_mode, msgs, writer>>

Cells == 0 .. KLOG_BUF_SIZE - 1
NoWork == [at |-> "none", msg |-> 0]

klog_init ==
    /\ ring = [c \in Cells |-> <<0, 0>>]
    /\ head = 0 /\ tail = 0 /\ console_tail = 0 /\ dropped = 0
    /\ panic_mode = FALSE /\ msgs = <<>>
    /\ writer = [c \in KlogCpus |-> NoWork]

-----------------------------------------------------------------------------
(* The entry that starts at position p; where none does, the length a      *)
(* reader finds there is whatever the bytes say.                           *)
EntryAt(r, p) == r[p % KLOG_BUF_SIZE]
EntrySize(m) == KlogHdr + msgs[m].len
StartsAt(r, p) == EntryAt(r, p)[1] # 0 /\ EntryAt(r, p)[2] = 0

min_u32(a, b) == IF a < b THEN a ELSE b

(* Positions of the entries from p up to head, p included.                 *)
Walk(r, p, n) ==
    LET pos[k \in 0 .. n] ==
            IF k = 0 THEN p
            ELSE IF pos[k - 1] = head THEN head
            ELSE (pos[k - 1] + EntrySize(EntryAt(r, pos[k - 1])[1])) % klogWidth
    IN  pos[n]

(* The room an entry takes.                                                *)
Needed(len) == KlogHdr + len

(* ring_drop_oldest: how many entries from the older reader's position     *)
(* have to go before the ring has needed free bytes.                       *)
Drops(needed) ==
    LET from == min_u32(tail, console_tail)
        enough == {n \in 0 .. KLOG_BUF_SIZE :
                      KLOG_BUF_SIZE - ((head - Walk(ring, from, n)) % klogWidth) >= needed}
    IN  CHOOSE n \in enough : \A k \in enough : n <= k

(* Faulty variant: only the log reader is moved past what was dropped.     *)
AfterDrop_TailOnly(p, oldest) == IF p = tail /\ p < oldest THEN oldest ELSE p

(* A reader behind the oldest entry kept moves up to it.                   *)
AfterDrop(p, oldest) == IF p < oldest THEN oldest ELSE p

(* ring_write_bytes of message m's header and text.                        *)
Written(m) ==
    [c \in Cells |->
        LET off == (c - head) % KLOG_BUF_SIZE
        IN  IF off < EntrySize(m) THEN <<m, off>> ELSE ring[c]]

(* Where the console continues after a message that its writer prints.     *)
PrintedTo(printed, old, new) == IF printed THEN new ELSE old

-----------------------------------------------------------------------------
(* klog_vex, before the lock: the text is formatted and the level compared *)
(* with the console's.  A disabled subsystem's message leaves no trace.    *)
klog_vex(c, len, do_console) ==
    /\ writer[c] = NoWork /\ Len(msgs) < MaxMessages
    /\ msgs' = Append(msgs, [len |-> len, console |-> do_console, pos |-> 0, read |-> 0, printed |-> 0])
    /\ writer' = [writer EXCEPT ![c] = [at |-> "store", msg |-> Len(msgs) + 1]]
    /\ UNCHANGED <<ring, head, tail, console_tail, dropped, panic_mode>>

(* The section under g_klog.lock, skipped in panic mode.                   *)
Store(c) ==
    LET m == writer[c].msg
        n == Drops(Needed(msgs[m].len))
        oldest == Walk(ring, min_u32(tail, console_tail), n)
        end == (head + EntrySize(m)) % klogWidth
    IN  /\ writer[c].at = "store"
        /\ writer' = [writer EXCEPT ![c] = IF msgs[m].console THEN [@ EXCEPT !.at = "print"] ELSE NoWork]
        /\ IF panic_mode THEN UNCHANGED <<ring, head, tail, console_tail, dropped, msgs>>
           ELSE /\ ring' = Written(m)
                /\ head' = end
                /\ dropped' = dropped + n
                /\ tail' = AfterDrop(tail, oldest)
                /\ console_tail' = PrintedTo(msgs[m].console, AfterDrop(console_tail, oldest), end)
                /\ msgs' = [msgs EXCEPT ![m].pos = head + 1]
        /\ UNCHANGED panic_mode

(* The line goes to the console after the lock is released.                *)
console_emit(c) ==
    /\ writer[c].at = "print"
    /\ msgs' = [msgs EXCEPT ![writer[c].msg].printed = @ + 1]
    /\ writer' = [writer EXCEPT ![c] = NoWork]
    /\ UNCHANGED <<ring, head, tail, console_tail, dropped, panic_mode>>

(* The entries that can be walked from p, and the messages of n of them.   *)
Between(p) == {n \in 0 .. KLOG_BUF_SIZE \div KlogHdr : \A k \in 0 .. n - 1 : Walk(ring, p, k) # head}
MessagesFrom(p, n) == {EntryAt(ring, Walk(ring, p, k - 1))[1] : k \in 1 .. n}

(* klog_read_consume: as many whole lines as the caller's buffer holds.    *)
klog_read_consume(n) ==
    /\ n \in Between(tail)
    /\ msgs' = [m \in DOMAIN msgs |->
                   IF m \in MessagesFrom(tail, n) THEN [msgs[m] EXCEPT !.read = @ + 1] ELSE msgs[m]]
    /\ tail' = Walk(ring, tail, n)
    /\ UNCHANGED <<ring, head, console_tail, dropped, panic_mode, writer>>

(* klog_flush: everything the console has not seen, whatever its level.    *)
klog_flush ==
    /\ console_tail # head
    /\ LET n == CHOOSE k \in Between(console_tail) : Walk(ring, console_tail, k) = head
       IN  msgs' = [m \in DOMAIN msgs |-> IF m \in MessagesFrom(console_tail, n)
                                          THEN [msgs[m] EXCEPT !.printed = @ + 1] ELSE msgs[m]]
    /\ console_tail' = head
    /\ UNCHANGED <<ring, head, tail, dropped, panic_mode, writer>>

(* kernel_panic: from here on nothing waits for the log's lock.            *)
kernel_panic ==
    /\ ~panic_mode
    /\ panic_mode' = TRUE
    /\ UNCHANGED <<ring, head, tail, console_tail, dropped, msgs, writer>>

KlogNext ==
    \/ \E c \in KlogCpus :
          \/ \E len \in KlogLens, con \in BOOLEAN : klog_vex(c, len, con)
          \/ Store(c) \/ console_emit(c)
    \/ \E n \in 1 .. KLOG_BUF_SIZE \div KlogHdr : klog_read_consume(n)
    \/ klog_flush \/ kernel_panic

-----------------------------------------------------------------------------
KlogTypeOK ==
    /\ {head, tail, console_tail} \subseteq 0 .. klogWidth - 1
    /\ dropped \in Nat /\ \A c \in KlogCpus : writer[c].msg \in 0 .. Len(msgs)

Whole(m) == \A k \in 0 .. EntrySize(m) - 1 : EntryAt(ring, msgs[m].pos - 1 + k) = <<m, k>>

(* Both readers stand at the end of the ring or at the first byte of an    *)
(* entry that no later write has touched, and so do all entries between    *)
(* them and the end: nobody ever takes text for a header.                  *)
ReadersOnEntries ==
    \A p \in {tail, console_tail} :
        \A n \in Between(p) :
            LET q == Walk(ring, p, n)
            IN  q # head => StartsAt(ring, q) /\ Whole(EntryAt(ring, q)[1])

Stored == {m \in 1 .. Len(msgs) : msgs[m].pos # 0}
Unread == {m \in Stored : msgs[m].pos - 1 >= tail}

(* A stored message is read once, is still to be read, or is among those   *)
(* the counter says were dropped.                                          *)
NothingLostUncounted ==
    /\ \A m \in Stored : msgs[m].read <= (IF m \in Unread THEN 0 ELSE 1)
    /\ Cardinality({m \in Stored \ Unread : msgs[m].read = 0}) <= dropped

(* No message is printed twice, although its writer prints it after the    *)
(* lock is gone and the flush prints what is left in the ring.             *)
ConsolePrintsOnce == \A m \in DOMAIN msgs : msgs[m].printed <= 1

-----------------------------------------------------------------------------
(* klog_ratelimit, used on its own by callers that log in a loop.          *)
VARIABLES
    rl,        \* [last_ts, printed, suppressed]
    now,
    passed     \* times of the messages let through

rlVars == <<rl, now, passed>>

RlInit ==
    /\ rl = [last_ts |-> 0, printed |-> 0, suppressed |-> 0]
    /\ now = 0 /\ passed = <<>>

(* A window that is over is replaced by one that starts now.               *)
Window(r, t) ==
    IF t - r.last_ts >= RlInterval THEN [last_ts |-> t, printed |-> 0, suppressed |-> 0] ELSE r

klog_ratelimit ==
    LET w == Window(rl, now) IN
    /\ \/ /\ w.printed < RlBurst
          /\ rl' = [w EXCEPT !.printed = @ + 1]
          /\ passed' = Append(passed, now)
       \/ /\ w.printed >= RlBurst /\ w.suppressed < RlHorizon
          /\ rl' = [w EXCEPT !.suppressed = @ + 1]
          /\ UNCHANGED passed
    /\ UNCHANGED now

RlTick == now < RlHorizon /\ now' = now + 1 /\ UNCHANGED <<rl, passed>>

RlNext == klog_ratelimit \/ RlTick

(* In any RlInterval consecutive ticks at most two bursts pass.            *)
RateBounded ==
    \A t \in 0 .. RlHorizon :
        Cardinality({i \in DOMAIN passed : t <= passed[i] /\ passed[i] < t + RlInterval}) <= 2 * RlBurst

(* A message is held back only if a burst passed in the last interval: a   *)
(* caller that paused is heard again.                                      *)
HeldBackForBurst ==
    [][rl'.suppressed > rl.suppressed =>
          Cardinality({i \in DOMAIN passed : now - passed[i] < RlInterval}) >= RlBurst]_rlVars
=============================================================================
