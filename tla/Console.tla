------------------------------- MODULE Console ------------------------------
(***************************************************************************)
(* The console of the first-generation kernel (src/drivers/uart.cc): the   *)
(* receive interrupt fills a ring, console_read takes characters out of    *)
(* it, edits the current line and hands out what Enter has confirmed.      *)
(*                                                                         *)
(* One hart: a spinlock keeps interrupts off, so steps end where the last  *)
(* lock is released.  sleep() lets go of the ring's lock before the        *)
(* process is marked asleep, and an interrupt fits in between.  The test   *)
(* of xstate is left out: only exit sets it.                               *)
(***************************************************************************)
EXTENDS Integers, Sequences, FiniteSets

CONSTANTS
    Readers, ReadLens,
    UART_RX_BUF_SIZE, ConsBuf,      \* sizes of the two rings
    MaxTyped,                       \* bound on the characters typed
    Nobody

ASSUME ConsoleAssumption == UART_RX_BUF_SIZE \in Nat \ {0} /\ ConsBuf \in Nat \ {0} /\ Nobody \notin Readers

VARIABLES
    fifo,           \* characters in the device
    rx,             \* uart_rx: [buf, r, w]
    cons,           \* cons: [buf, r, w, e]
    reader,         \* [reader -> [pc, len, got]]
    consLock,       \* the reader that holds cons.lock
    typed,          \* ghost: characters the interrupt took, in order
    taken,          \* ghost: how many of them console_read took from the ring
    delivered,      \* ghost: characters taken out for a reader, in order
    lost,           \* ghost: which of them copyout did not bring to it
    overrun         \* ghost: which ring was written over before it was read

consVars == <<fifo, rx, cons, reader, consLock, typed, taken, delivered, lost, overrun>>

Keys == {"x", "bs", "cr"}
Away1 == [pc |-> "away", len |-> 0, got |-> 0]

ConsInit ==
    /\ fifo = <<>> /\ typed = <<>> /\ taken = <<>> /\ delivered = <<>> /\ lost = {}
    /\ rx = [buf |-> [i \in 0..(UART_RX_BUF_SIZE - 1) |-> "nul"], r |-> 0, w |-> 0]
    /\ cons = [buf |-> [i \in 0..(ConsBuf - 1) |-> "nul"], r |-> 0, w |-> 0, e |-> 0]
    /\ reader = [p \in Readers |-> Away1]
    /\ consLock = Nobody /\ overrun = {}

(* A key is pressed.                                                       *)
KeyPressed(k) ==
    /\ Len(typed) + Len(fifo) < MaxTyped
    /\ fifo' = Append(fifo, k)
    /\ UNCHANGED <<rx, cons, reader, consLock, typed, taken, delivered, lost, overrun>>

Received == fifo

(* uart_intr empties the device into the ring; sleepers wake up.  Nothing  *)
(* keeps it from passing the reader.                                       *)
uart_intr ==
    LET n == Len(Received)
        last(i) == {k \in 1..n : (rx.w + k - 1) % UART_RX_BUF_SIZE = i}
        newest(i) == CHOOSE k \in last(i) : \A j \in last(i) : j <= k
    IN
    /\ fifo # <<>> /\ consLock = Nobody
    /\ rx' = [rx EXCEPT !.w = @ + n, !.buf = [i \in DOMAIN @ |-> IF last(i) = {} THEN @[i] ELSE Received[newest(i)]]]
    /\ reader' = [p \in Readers |-> IF reader[p].pc = "asleep" THEN [reader[p] EXCEPT !.pc = "awake"] ELSE reader[p]]
    /\ typed' = typed \o fifo /\ fifo' = <<>>
    /\ overrun' = IF rx.w + n - rx.r > UART_RX_BUF_SIZE THEN overrun \union {"rx"} ELSE overrun
    /\ UNCHANGED <<cons, consLock, taken, delivered, lost>>

console_read(p, len) ==
    /\ reader[p].pc = "away" /\ consLock = Nobody
    /\ reader' = [reader EXCEPT ![p] = [pc |-> "drain", len |-> len, got |-> 0]]
    /\ consLock' = p
    /\ UNCHANGED <<fifo, rx, cons, typed, taken, delivered, lost, overrun>>

Unread == cons.r < cons.w

(* The inner loop hands out one confirmed character with the lock released *)
(* and goes on for more, unless this ends the call.  copyout may fail: the *)
(* call returns -1 and the character, already passed over, is lost.        *)
Deliver(p) ==
    LET c == cons.buf[cons.r % ConsBuf]
        over == c = "nl" \/ reader[p].got + 1 = reader[p].len
    IN
    /\ reader[p].pc = "drain" /\ consLock = p /\ Unread
    /\ cons' = [cons EXCEPT !.r = @ + 1]
    /\ delivered' = Append(delivered, c)
    /\ consLock' = Nobody
    /\ \/ /\ reader' = [reader EXCEPT ![p] = IF over THEN Away1 ELSE [@ EXCEPT !.pc = "out", !.got = @ + 1]]
          /\ UNCHANGED lost
       \/ reader' = [reader EXCEPT ![p] = Away1] /\ lost' = lost \union {Len(delivered')}
    /\ UNCHANGED <<fifo, rx, typed, taken, overrun>>

Relock(p) ==
    /\ reader[p].pc \in {"out", "awake"} /\ consLock = Nobody
    /\ consLock' = p
    /\ reader' = [reader EXCEPT ![p].pc = IF @ = "out" THEN "drain" ELSE "ring"]
    /\ UNCHANGED <<fifo, rx, cons, typed, taken, delivered, lost, overrun>>

Drained(p) ==
    /\ reader[p].pc = "drain" /\ consLock = p /\ ~Unread
    /\ reader' = [reader EXCEPT ![p].pc = "ring"]
    /\ UNCHANGED <<fifo, rx, cons, consLock, typed, taken, delivered, lost, overrun>>

(* The ring is empty: cons.lock is released, then, in sleep, the ring's.   *)
Sleep1(p) ==
    /\ reader[p].pc = "ring" /\ consLock = p /\ rx.r = rx.w
    /\ consLock' = Nobody
    /\ reader' = [reader EXCEPT ![p].pc = "dozing"]
    /\ UNCHANGED <<fifo, rx, cons, typed, taken, delivered, lost, overrun>>

FallAsleep(p) ==
    /\ reader[p].pc = "dozing" /\ consLock = Nobody
    /\ reader' = [reader EXCEPT ![p].pc = "asleep"]
    /\ UNCHANGED <<fifo, rx, cons, consLock, typed, taken, delivered, lost, overrun>>

(* Faulty variant: a backspace takes back confirmed characters.            *)
Erasable_Any(k) == k.e > 0

Erasable(k) == k.e # k.w

Confirms(k, c) == c = "nl" \/ k.e = k.w + ConsBuf

(* One character of the ring goes through the line editor.                 *)
Edited(k, c) ==
    IF c = "bs" THEN IF Erasable(k) THEN [k EXCEPT !.e = @ - 1] ELSE k
    ELSE LET ch == IF c = "cr" THEN "nl" ELSE c
             n == [k EXCEPT !.buf[k.e % ConsBuf] = ch, !.e = @ + 1]
         IN  IF Confirms(n, ch) THEN [n EXCEPT !.w = n.e] ELSE n

TakeChar(p) ==
    LET c == rx.buf[rx.r % UART_RX_BUF_SIZE] IN
    /\ reader[p].pc = "ring" /\ consLock = p /\ rx.r # rx.w
    /\ rx' = [rx EXCEPT !.r = @ + 1]
    /\ cons' = Edited(cons, c)
    /\ taken' = Append(taken, c)
    /\ reader' = [reader EXCEPT ![p].pc = "drain"]
    /\ overrun' = IF cons'.e - cons.r > ConsBuf THEN overrun \union {"cons"} ELSE overrun
    /\ UNCHANGED <<fifo, consLock, typed, delivered, lost>>

ConsNext ==
    \/ \E k \in Keys : KeyPressed(k)
    \/ uart_intr
    \/ \E p \in Readers :
          \/ \E len \in ReadLens : console_read(p, len)
          \/ Deliver(p) \/ Relock(p) \/ Drained(p) \/ Sleep1(p) \/ FallAsleep(p) \/ TakeChar(p)

-----------------------------------------------------------------------------
(* What the keys taken so far should have produced: the text with the      *)
(* erasures made, and how much of it is confirmed.                         *)
RECURSIVE EditOf(_, _, _)
EditOf(s, text, done) ==
    IF s = <<>> THEN [text |-> text, done |-> done]
    ELSE LET c == Head(s)
             longer == Append(text, IF c = "cr" THEN "nl" ELSE c)
         IN  IF c = "bs" THEN EditOf(Tail(s), IF Len(text) > done THEN SubSeq(text, 1, Len(text) - 1) ELSE text, done)
             ELSE EditOf(Tail(s), longer, IF c = "cr" \/ Len(longer) = done + ConsBuf THEN Len(longer) ELSE done)

InRing(buf, n, from, to) == [i \in 1..(to - from) |-> buf[(from + i - 1) % n]]

(* The edited text leaves the line in order and each character once: what  *)
(* was taken out for a reader (who got it, unless the copy to it failed),  *)
(* then what is confirmed and unread, then the line being edited.  The     *)
(* exception is a reader that, while it slept, had another leave confirmed *)
(* text unread: it goes on editing without handing that out first, and a   *)
(* long line writes over it.                                               *)
TextIntact ==
    LET t == EditOf(taken, <<>>, 0) IN
    /\ cons.r <= cons.w /\ cons.e = Len(t.text) /\ cons.w = t.done
    /\ lost \subseteq DOMAIN delivered
    /\ "cons" \notin overrun => delivered \o InRing(cons.buf, ConsBuf, cons.r, cons.e) = t.text

(* Until an interrupt passes the reader, the ring holds what was typed and *)
(* not yet taken, in order.                                                *)
RingInOrder ==
    "rx" \notin overrun => taken \o InRing(rx.buf, UART_RX_BUF_SIZE, rx.r, rx.w) = typed
=============================================================================
