------------------------------ MODULE RunQueue ------------------------------
(***************************************************************************)
(* One CPU's RunQueue (na/kernel/sched_internal.h) and the O(1) scheduling *)
(* class that works on it (na/kernel/sched_class_o1.cc).  A run queue is a *)
(* record: queues_ one FIFO per priority, bitmap_ the priorities whose     *)
(* FIFO is said to be non-empty, o1_nr the counter of O1RunQueue, and      *)
(* nr_running, need_resched, current the fields of RunQueue.  The caller   *)
(* holds the run queue's lock.                                             *)
(***************************************************************************)
EXTENDS Lists

CONSTANTS
    kNumPriorities,   \* CONFIG_NR_PRIORITIES; 0 is the most urgent
    kMaxTimeslice     \* the 20 of priority_to_timeslice

ASSUME PrioritiesAssumption == kNumPriorities \in Nat /\ kNumPriorities > 1
ASSUME TimesliceAssumption == kMaxTimeslice \in Nat /\ kMaxTimeslice > 0

Prios == 0 .. kNumPriorities - 1

(* O1RunQueue::init and RunQueue::init, then set_current.                  *)
FreshRq(cur) ==
    [queues |-> [p \in Prios |-> <<>>], bitmap |-> {}, o1_nr |-> 0,
     nr_running |-> 0, need_resched |-> FALSE, current |-> cur]

(* Faulty variant: new tasks go to the front.                              *)
o1_enqueue_task_Front(q, t, p) ==
    [q EXCEPT !.queues[p] = <<t>> \o @, !.bitmap = @ \union {p},
              !.o1_nr = @ + 1, !.nr_running = @ + 1]

(* O1RunQueue::enqueue and inc_running.                                    *)
o1_enqueue_task(q, t, p) ==
    [q EXCEPT !.queues[p] = Append(@, t), !.bitmap = @ \union {p},
              !.o1_nr = @ + 1, !.nr_running = @ + 1]

(* O1RunQueue::dequeue and dec_running: both counters stop at 0.           *)
o1_dequeue_task(q, t, p) ==
    LET rest == Unlink(q.queues[p], t)
    IN  [q EXCEPT !.queues[p] = rest,
                  !.bitmap = IF rest = <<>> THEN @ \ {p} ELSE @,
                  !.o1_nr = IF @ > 0 THEN @ - 1 ELSE @,
                  !.nr_running = IF @ > 0 THEN @ - 1 ELSE @]

(* Faulty variant: the highest set bit, not the lowest.                    *)
pick_next_task_Highest(q, idle) ==
    IF q.bitmap = {} THEN idle
    ELSE LET p == CHOOSE x \in q.bitmap : \A y \in q.bitmap : y <= x
         IN  Head(q.queues[p])

(* pick_next_task down the class chain: O1RunQueue::pick_next takes the    *)
(* head of the FIFO ctz32 finds in the bitmap, the idle class comes last.  *)
pick_next_task(q, idle) ==
    IF q.bitmap = {} THEN idle
    ELSE LET p == CHOOSE x \in q.bitmap : \A y \in q.bitmap : x <= y
         IN  Head(q.queues[p])

priority_to_timeslice(p) ==
    LET ts == kMaxTimeslice - (p * (kMaxTimeslice - 1)) \div (kNumPriorities - 1)
    IN  IF ts < 1 THEN 1 ELSE ts

-----------------------------------------------------------------------------
InQueue(q, t) == \E p \in Prios : t \in Range(q.queues[p])

(* The links of all FIFOs, by priority and position.                       *)
Links(q) == UNION {{p} \X DOMAIN q.queues[p] : p \in Prios}

(* Bitmap, FIFOs and the two counters tell the same story.                 *)
Coherent(q) ==
    /\ q.bitmap = {p \in Prios : q.queues[p] # <<>>}
    /\ q.o1_nr = q.nr_running
    /\ Sized(Links(q), q.nr_running)
=============================================================================
